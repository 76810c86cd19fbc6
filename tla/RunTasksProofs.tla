--------------------------- MODULE RunTasksProofs ---------------------------
(***************************************************************************)
(* Proofs about the run-tasks scheduler, for any number of tasks, any      *)
(* priorities, manifests, queue capacity and bounds on time.               *)
(*                                                                         *)
(* The inductive invariant adds to the checked ones what ties the program  *)
(* counter to the task table: the task being dispatched is ready           *)
(* (DispatchReady), and a disabled task is finished (DisabledFinished).    *)
(* The restart budget needs a second one (HistoryInv): the history a task  *)
(* keeps and the restarts it really had agree from the latest backwards,   *)
(* and what the history has forgotten had left a window by then.           *)
(***************************************************************************)
EXTENDS RunTasks, SequenceTheorems, WellFoundedInduction, TLAPS

TaskStates ==
    {NotStarted, Ready, Finished}
    \cup {SleepingUntil(d) : d \in Nat \cup {Never}}
    \cup {WaitingForEvent(e) : e \in Events}

\* The part of the types that the argument needs.
Shape ==
    /\ state \in [Tasks -> TaskStates]
    /\ reason \in [Tasks -> {"first", "deadline", "event"}]
    /\ disabled \in [Tasks -> BOOLEAN]
    /\ frames \in [Tasks -> Nat]
    /\ manifest \in Manifests
    /\ deadline \in Nat \cup {None}
    /\ current \in Tasks
    /\ lag \in Nat
    /\ nap \in Nat

DispatchReady == pc = "dispatch" => state[current] = Ready
DisabledFinished == \A t \in Tasks : disabled[t] => state[t] = Finished

IInv ==
    /\ Shape /\ DispatchReady /\ DisabledFinished
    /\ FreshVmIsCalled /\ ExitJustified /\ NoWorkWhileAsleep /\ NeverOversleeps

----------------------------------------------------------------------------
(* The helpers.                                                            *)

\* Clamping at zero gives a natural number.
LEMMA MaxZero ==
    ASSUME NEW x \in Int
    PROVE  Max({x, 0}) \in Nat
<1>1. \E m \in {x, 0} : \A y \in {x, 0} : m >= y
    OBVIOUS
<1>2. Max({x, 0}) \in {x, 0} /\ \A y \in {x, 0} : Max({x, 0}) >= y
    BY <1>1 DEF Max
<1> QED BY <1>2

\* The states of a task differ by their kind.
LEMMA Kinds ==
    /\ \A s \in TaskStates : s.kind = "ready" <=> s = Ready
    /\ \A s \in TaskStates : s.kind = "finished" <=> s = Finished
    /\ \A s \in TaskStates : s.kind = "not_started" <=> s = NotStarted
    /\ \A s \in TaskStates : s.kind = "sleeping" =>
          /\ s.left \in Nat \cup {Never}
    /\ Ready \in TaskStates /\ Finished \in TaskStates
    /\ \A d \in Nat \cup {Never} : SleepingUntil(d) \in TaskStates
<1> DEFINE Times == Nat \cup {Never}
<1>4. \A d \in Times : SleepingUntil(d) \in TaskStates
    BY DEF TaskStates
<1> USE DEF Ready, Finished, NotStarted, SleepingUntil, WaitingForEvent
<1>1. ASSUME NEW s \in TaskStates
      PROVE  \/ s = Ready \/ s = Finished \/ s = NotStarted
             \/ \E d \in Times : s = SleepingUntil(d)
             \/ \E e \in Events : s = WaitingForEvent(e)
    BY <1>1 DEF TaskStates
<1>2. ASSUME NEW s \in TaskStates
      PROVE  /\ s.kind = "ready" <=> s = Ready
             /\ s.kind = "finished" <=> s = Finished
             /\ s.kind = "not_started" <=> s = NotStarted
             /\ s.kind = "sleeping" => s.left \in Times
  <2>1. CASE s = Ready BY <2>1
  <2>2. CASE s = Finished BY <2>2
  <2>3. CASE s = NotStarted BY <2>3
  <2>4. CASE \E d \in Times : s = SleepingUntil(d)
    <3>1. PICK d \in Times : s = SleepingUntil(d)
        BY <2>4
    <3>2. s.kind = "sleeping" /\ s.left = d
        BY <3>1
    <3> QED BY <3>2
  <2>5. CASE \E e \in Events : s = WaitingForEvent(e)
    <3>1. s.kind = "waiting"
        BY <2>5
    <3> QED BY <3>1
  <2> QED BY <1>1, <2>1, <2>2, <2>3, <2>4, <2>5
<1>3. Ready \in TaskStates /\ Finished \in TaskStates
    BY DEF TaskStates
<1> QED BY <1>2, <1>3, <1>4

\* A millisecond less is still a time left.
LEMMA LeftType ==
    ASSUME NEW d \in Nat \cup {Never}
    PROVE  Left(d) \in Nat \cup {Never} /\ (d \in Nat => Left(d) \in Nat /\ Left(d) <= d)
BY DEF Left, Never

\* Everything a yield may ask for is a state of a task.
LEMMA YieldType ==
    ASSUME NEW t \in Tasks, lag \in Nat
    PROVE  YieldTargets(t) \subseteq TaskStates
<1>1. Period[t] \in Nat /\ MaxWait \in Nat
    BY RunTasksAssumption
<1>2. Max({Period[t] - lag, 0}) \in Nat
  <2>1. Period[t] - lag \in Int
      BY <1>1
  <2> QED BY <2>1, MaxZero
<1>4. ASSUME NEW s \in YieldTargets(t)
      PROVE  s \in TaskStates
  <2>1. CASE s \in {SleepingUntil(d) : d \in 0 .. MaxWait}
    <3>1. PICK d \in 0 .. MaxWait : s = SleepingUntil(d)
        BY <2>1
    <3>2. d \in Nat
        BY <1>1
    <3> QED BY <3>1, <3>2, Kinds
  <2>2. CASE s = SleepingUntil(Never)
    BY <2>2, Kinds
  <2>3. CASE s \in {WaitingForEvent(e) : e \in Events}
    BY <2>3 DEF TaskStates
  <2>4. CASE s = Ready \/ s = Finished
    BY <2>4, Kinds
  <2>5. CASE s = SleepingUntil(Max({Period[t] - lag, 0}))
    BY <2>5, <1>2, Kinds
  <2> QED BY <1>4, <2>1, <2>2, <2>3, <2>4, <2>5 DEF YieldTargets
<1> QED BY <1>4

----------------------------------------------------------------------------
(* The invariant, action by action.                                        *)

\* A freshly loaded runner satisfies the invariant.
LEMMA InitIInv == Init => IInv
<1> SUFFICES ASSUME Init PROVE IInv
    OBVIOUS
<1>1. NotStarted \in TaskStates /\ 1 \in Tasks
    BY RunTasksAssumption DEF TaskStates, Tasks
<1>2. Shape
    BY <1>1 DEF Init, Shape
<1> QED BY <1>2 DEF Init, IInv, DispatchReady, DisabledFinished, FreshVmIsCalled,
        ExitJustified, NoWorkWhileAsleep, NeverOversleeps

\* A signal only sets a flag.
LEMMA SignalIInv == IInv /\ Signal => IInv'
BY DEF IInv, Signal, Shape, DispatchReady, DisabledFinished, FreshVmIsCalled, ExitJustified,
    NoWorkWhileAsleep, NeverOversleeps, taskVars, shutdownVars, loopVars

\* Waking the thread only moves the program counter.
LEMMA WakeUpIInv == IInv /\ WakeUp => IInv'
BY DEF IInv, WakeUp, Shape, DispatchReady, DisabledFinished, FreshVmIsCalled, ExitJustified,
    NoWorkWhileAsleep, NeverOversleeps, taskVars, shutdownVars

\* So does a stuttering step.
LEMMA StutterIInv == IInv /\ UNCHANGED vars => IInv'
BY DEF IInv, Shape, DispatchReady, DisabledFinished, FreshVmIsCalled, ExitJustified,
    NoWorkWhileAsleep, NeverOversleeps, vars, taskVars, shutdownVars, loopVars

\* Time passing changes no task's kind.
LEMMA TickKinds ==
    ASSUME IInv, Tick, NEW t \in Tasks
    PROVE  /\ state'[t] \in TaskStates
           /\ state[t].kind # "sleeping" => state'[t] = state[t]
           /\ state[t].kind = "sleeping" =>
                state'[t] = SleepingUntil(Left(state[t].left))
<1>1. state[t] \in TaskStates
    BY DEF IInv, Shape
<1>2. state'[t] = IF state[t].kind = "sleeping"
                  THEN SleepingUntil(Left(state[t].left)) ELSE state[t]
    BY DEF Tick
<1>3. CASE state[t].kind = "sleeping"
  <2>1. state[t].left \in Nat \cup {Never}
      BY <1>1, <1>3, Kinds
  <2>2. Left(state[t].left) \in Nat \cup {Never}
      BY <2>1, LeftType
  <2> QED BY <1>2, <1>3, <2>2, Kinds
<1> QED BY <1>1, <1>2, <1>3

\* Time passing keeps the invariant: sleeps and deadlines shrink together.
LEMMA TickIInv == IInv /\ Tick => IInv'
<1> SUFFICES ASSUME IInv, Tick PROVE IInv'
    OBVIOUS
<1>1. /\ pc' = pc /\ pc # "exited" /\ current' = current /\ queue' = queue
      /\ frames' = frames /\ reason' = reason /\ disabled' = disabled /\ manifest' = manifest
    BY DEF Tick
<1>2. \A t \in Tasks : (state'[t] = Ready <=> state[t] = Ready)
                       /\ (state'[t] = Finished <=> state[t] = Finished)
                       /\ (state'[t] = NotStarted <=> state[t] = NotStarted)
  <2> SUFFICES ASSUME NEW t \in Tasks
               PROVE  /\ state'[t] = Ready <=> state[t] = Ready
                      /\ state'[t] = Finished <=> state[t] = Finished
                      /\ state'[t] = NotStarted <=> state[t] = NotStarted
      OBVIOUS
  <2>1. CASE state[t].kind # "sleeping"
      BY <2>1, TickKinds
  <2>2. CASE state[t].kind = "sleeping"
    <3>0. state'[t] = SleepingUntil(Left(state[t].left))
        BY <2>2, TickKinds
    <3>1. state'[t].kind = "sleeping"
        BY <3>0 DEF SleepingUntil
    <3> QED BY <2>2, <3>1 DEF Ready, Finished, NotStarted
  <2> QED BY <2>1, <2>2
<1>3. Shape'
  <2>1. state' \in [Tasks -> TaskStates]
    <3>1. state' = [t \in Tasks |-> state'[t]]
        BY DEF Tick
    <3> QED BY <3>1, TickKinds
  <2>2. deadline' \in Nat \cup {None} /\ nap' \in Nat
      BY LeftType DEF Tick, IInv, Shape, None, Never
  <2>3. lag' \in Nat
      BY DEF Tick, IInv, Shape
  <2> QED BY <1>1, <2>1, <2>2, <2>3 DEF IInv, Shape
<1>4. DispatchReady' /\ DisabledFinished'
    BY <1>1, <1>2 DEF IInv, Shape, DispatchReady, DisabledFinished
<1>5. FreshVmIsCalled'
    BY <1>1, <1>2 DEF IInv, FreshVmIsCalled
<1>6. ExitJustified' /\ NoWorkWhileAsleep'
    BY <1>1, <1>2 DEF IInv, ExitJustified, NoWorkWhileAsleep
<1>7. NeverOversleeps'
  <2> SUFFICES ASSUME pc = "sleep", NEW t \in Tasks,
                      state'[t].kind = "sleeping", state'[t].left # Never
               PROVE  nap' <= state'[t].left
      BY <1>1 DEF NeverOversleeps
  <2>1. state[t] \in TaskStates
      BY DEF IInv, Shape
  <2>2. state[t].kind = "sleeping"
      BY TickKinds
  <2>3. state[t].left \in Nat \cup {Never}
      BY <2>1, <2>2, Kinds
  <2>4. state'[t].left = Left(state[t].left)
    <3>1. state'[t] = SleepingUntil(Left(state[t].left))
        BY <2>2, TickKinds
    <3> QED BY <3>1 DEF SleepingUntil
  <2>5. nap <= state[t].left /\ state[t].left \in Nat
      BY <2>2, <2>3, <2>4 DEF IInv, NeverOversleeps, Left, Never
  <2>6. nap' = Left(nap) /\ nap \in Nat
      BY DEF Tick, IInv, Shape
  <2> QED BY <2>4, <2>5, <2>6 DEF Left
<1> QED BY <1>3, <1>4, <1>5, <1>6, <1>7 DEF IInv

\* What the refresh of an iteration makes of a task.
LEMMA RefreshKinds ==
    ASSUME IInv, NEW q, NEW t \in Tasks
    PROVE  /\ Refreshed(q)[t] \in TaskStates
           /\ Refreshed(q)[t] = state[t] \/ Refreshed(q)[t] = Ready
           /\ Due(t) \/ Fired(t, q) \/ Fresh(t) => Refreshed(q)[t] = Ready
           /\ state[t] = Ready => ~Due(t) /\ ~Fired(t, q) /\ ~Fresh(t)
           /\ state[t] = Finished => Refreshed(q)[t] = Finished
<1>1. state[t] \in TaskStates
    BY DEF IInv, Shape
<1>2. Refreshed(q)[t] = IF Due(t) \/ Fired(t, q) \/ Fresh(t) THEN Ready ELSE state[t]
    BY DEF Refreshed
<1>3. state[t] = Ready \/ state[t] = Finished => ~Due(t) /\ ~Fired(t, q) /\ ~Fresh(t)
    BY DEF Ready, Finished, Due, Fired, Fresh
<1> QED BY <1>1, <1>2, <1>3, Kinds

\* The settings read by an iteration are times.
LEMMA ManifestType ==
    ASSUME NEW m \in Manifests
    PROVE  m.tick \in Nat /\ m.grace \in Nat
BY RunTasksAssumption

\* An iteration keeps it, whichever way it ends: exit, dispatch or sleep.
LEMMA IterateIInv == IInv /\ Iterate => IInv'
<1> SUFFICES ASSUME IInv, Iterate PROVE IInv'
    OBVIOUS
<1> DEFINE q == SignalledQueue
<1>0. /\ disabled' = disabled /\ frames' = frames /\ lag' = 0
      /\ disabled \in [Tasks -> BOOLEAN] /\ frames \in [Tasks -> Nat]
      /\ current \in Tasks /\ nap \in Nat /\ manifest \in Manifests
    BY DEF Iterate, IInv, Shape
<1>1. manifest' \in Manifests
    BY <1>0 DEF Iterate, reload_manifest
<1>2. deadline' \in Nat \cup {None}
    BY <1>0, ManifestType DEF Iterate, PollSignals, IInv, Shape
<1>3. CASE /\ deadline' = 0 /\ pc' = "exited"
           /\ UNCHANGED <<state, reason, event_id, current, nap>>
    BY <1>0, <1>1, <1>2, <1>3 DEF IInv, Shape, DispatchReady, DisabledFinished, FreshVmIsCalled,
        ExitJustified, NoWorkWhileAsleep, NeverOversleeps
<1>4. CASE Refresh(q) /\ deadline' # 0
  <2> HIDE DEF q
  <2>1. /\ state' = Refreshed(q) /\ queue' = << >>
        /\ reason' = [t \in Tasks |-> IF Due(t) THEN "deadline"
                                      ELSE IF Fired(t, q) THEN "event"
                                      ELSE IF Fresh(t) THEN "first" ELSE reason[t]]
      BY <1>4 DEF Refresh
  <2>2. state' \in [Tasks -> TaskStates]
    <3>1. Refreshed(q) = [t \in Tasks |-> Refreshed(q)[t]]
        BY DEF Refreshed
    <3> QED BY <2>1, <3>1, RefreshKinds
  <2>3. reason' \in [Tasks -> {"first", "deadline", "event"}]
      BY <2>1 DEF IInv, Shape
  <2>4. DisabledFinished'
      BY <1>0, <2>1, RefreshKinds DEF IInv, DisabledFinished
  <2>5. FreshVmIsCalled'
    <3> SUFFICES ASSUME NEW t \in Tasks, frames[t] = 0, state'[t] \notin {NotStarted, Finished}
                 PROVE  state'[t] = Ready /\ reason'[t] = "first"
        BY <1>0 DEF FreshVmIsCalled
    <3>1. state[t] \in TaskStates
        BY DEF IInv, Shape
    <3>2. state[t].kind \notin {"sleeping", "waiting"}
        BY <3>1 DEF IInv, FreshVmIsCalled, Ready, NotStarted, Finished
    <3>3. ~Due(t) /\ ~Fired(t, q)
        BY <3>2 DEF Due, Fired
    <3>4. CASE Fresh(t)
        BY <2>1, <3>3, <3>4, RefreshKinds
    <3>5. CASE ~Fresh(t)
      <4>1. state'[t] = state[t]
          BY <2>1, <3>3, <3>5 DEF Refreshed
      <4> QED BY <2>1, <3>3, <3>5, <4>1 DEF IInv, FreshVmIsCalled
    <3> QED BY <3>4, <3>5
  <2>6. CASE current' \in Candidates(q) /\ pc' = "dispatch" /\ UNCHANGED nap
    <3>1. current' \in Tasks /\ state'[current'] = Ready
        BY <2>1, <2>6 DEF Candidates, ReadySet
    <3> QED BY <1>0, <1>1, <1>2, <2>2, <2>3, <2>4, <2>5, <2>6, <3>1 DEF IInv, Shape,
            DispatchReady, ExitJustified, NoWorkWhileAsleep, NeverOversleeps
  <2>7. CASE all_finished(q) /\ pc' = "exited" /\ UNCHANGED <<current, nap>>
    <3>1. \A t \in Tasks : state'[t] = Finished \/ disabled'[t]
        BY <1>0, <2>1, <2>7 DEF all_finished
    <3> QED BY <1>0, <1>1, <1>2, <2>2, <2>3, <2>4, <2>5, <2>7, <3>1 DEF IInv, Shape,
            DispatchReady, ExitJustified, NoWorkWhileAsleep, NeverOversleeps
  <2>8. CASE /\ ReadySet(q) = {} /\ pc' = "sleep"
             /\ nap' \in Limits(q) /\ \A n \in Limits(q) : nap' <= n
             /\ UNCHANGED current
    <3>1. Limits(q) \subseteq Nat
      <4>1. manifest'.tick \in Nat
          BY <1>1, ManifestType
      <4>2. ASSUME NEW t \in Tasks, Refreshed(q)[t].kind = "sleeping",
                   Refreshed(q)[t].left # Never
            PROVE  Refreshed(q)[t].left \in Nat
          BY <4>2, RefreshKinds, Kinds
      <4> QED BY <4>1, <4>2 DEF Limits
    <3>2. NeverOversleeps'
      <4> SUFFICES ASSUME NEW t \in Tasks, state'[t].kind = "sleeping", state'[t].left # Never
                   PROVE  nap' <= state'[t].left
          BY DEF NeverOversleeps
      <4>1. ~disabled[t]
          BY <1>0, <2>4 DEF DisabledFinished, Finished
      <4>2. state'[t].left \in Limits(q)
          BY <2>1, <4>1 DEF Limits
      <4> QED BY <2>8, <4>2
    <3>3. NoWorkWhileAsleep'
        BY <1>0, <2>1, <2>8 DEF NoWorkWhileAsleep, ReadySet
    <3> QED BY <1>0, <1>1, <1>2, <2>2, <2>3, <2>4, <2>5, <2>8, <3>1, <3>2, <3>3 DEF IInv,
            Shape, DispatchReady, ExitJustified
  <2> QED BY <1>4, <2>6, <2>7, <2>8 DEF Iterate, q
<1> QED BY <1>3, <1>4 DEF Iterate

\* What a dispatch of t leads to: it touches the dispatched task only, and
\* leaves it with a VM that has run, retired, or restarted.
DispatchEffect(t) ==
    /\ state' = [state EXCEPT ![t] = state'[t]] /\ state'[t] \in TaskStates
    /\ reason' = [reason EXCEPT ![t] = reason'[t]] /\ reason'[t] \in {reason[t], "first"}
    /\ frames' = [frames EXCEPT ![t] = frames'[t]] /\ frames'[t] \in Nat
    /\ disabled' = [disabled EXCEPT ![t] = disabled'[t]]
    /\ \/ frames'[t] > 0 /\ UNCHANGED disabled
       \/ state'[t] = Finished /\ disabled'[t] \in BOOLEAN
       \/ state'[t] = Ready /\ reason'[t] = "first" /\ UNCHANGED disabled

\* Every branch of dispatch_one has such an effect.
LEMMA DispatchCases ==
    ASSUME IInv, dispatch_one
    PROVE  DispatchEffect(current)
<1> DEFINE t == current
<1>1. /\ t \in Tasks /\ lag \in Nat
      /\ state \in [Tasks -> TaskStates] /\ frames \in [Tasks -> Nat]
      /\ reason \in [Tasks -> {"first", "deadline", "event"}]
      /\ disabled \in [Tasks -> BOOLEAN]
    BY DEF IInv, Shape
<1>2. CASE Yields(t)
  <2>1. Entered(t) \in Nat /\ Entered(t) > 0
      BY <1>1, <1>2 DEF Yields, Enters, Entered
  <2>2. PICK s \in YieldTargets(t) : state' = [state EXCEPT ![t] = s]
      BY <1>2 DEF Yields
  <2>3. s \in TaskStates
      BY <1>1, YieldType
  <2> QED BY <1>1, <1>2, <2>1, <2>2, <2>3 DEF Yields, DispatchEffect
<1>3. CASE Resets(t)
    BY <1>1, <1>3, Kinds DEF Resets, Enters, DispatchEffect
<1>4. ASSUME NEW was_error \in BOOLEAN, on_task_exit(t, was_error)
      PROVE  DispatchEffect(t)
  <2>1. CASE Retire(t) /\ UNCHANGED disabled
      BY <1>1, <2>1, Kinds DEF Retire, DispatchEffect
  <2>2. CASE Disable(t)
    <3>1. state' = [state EXCEPT ![t] = Finished] /\ reason' = reason /\ frames' = frames
          /\ disabled' = [disabled EXCEPT ![t] = TRUE]
        BY <2>2 DEF Disable, Retire
    <3>2. disabled'[t] = TRUE /\ disabled' = [disabled EXCEPT ![t] = disabled'[t]]
        BY <1>1, <3>1, Zenon
    <3>3. state'[t] = Finished /\ state' = [state EXCEPT ![t] = state'[t]]
        BY <1>1, <3>1
    <3>4. reason' = [reason EXCEPT ![t] = reason'[t]] /\ frames' = [frames EXCEPT ![t] = frames'[t]]
        BY <1>1, <3>1
    <3> QED BY <1>1, <3>1, <3>2, <3>3, <3>4, Kinds DEF DispatchEffect
  <2>3. CASE Restart(t)
    <3>1. state'[t] = Ready /\ reason'[t] = "first" /\ frames'[t] = 0 /\ disabled' = disabled
        BY <1>1, <2>3 DEF Restart
    <3> QED BY <1>1, <2>3, <3>1, Kinds DEF Restart, DispatchEffect
  <2> QED BY <1>4, <2>1, <2>2, <2>3 DEF on_task_exit
<1> QED BY <1>2, <1>3, <1>4 DEF dispatch_one

\* A dispatch keeps it: only the dispatched task changes.
LEMMA DispatchIInv == IInv /\ dispatch_one => IInv'
<1> SUFFICES ASSUME IInv, dispatch_one PROVE IInv'
    OBVIOUS
<1> DEFINE t == current
<1>1. /\ pc = "dispatch" /\ pc' = "top" /\ lag' = 0
      /\ UNCHANGED <<manifest, deadline, current, nap>>
    BY DEF dispatch_one, shutdownVars
<1>2. /\ t \in Tasks /\ state[t] = Ready
      /\ state \in [Tasks -> TaskStates] /\ frames \in [Tasks -> Nat]
      /\ reason \in [Tasks -> {"first", "deadline", "event"}]
      /\ disabled \in [Tasks -> BOOLEAN]
    BY <1>1 DEF IInv, Shape, DispatchReady
<1>3. DispatchEffect(t)
    BY DispatchCases
<1>4. \A u \in Tasks : u # t => /\ state'[u] = state[u] /\ reason'[u] = reason[u]
                                /\ frames'[u] = frames[u] /\ disabled'[u] = disabled[u]
    BY <1>2, <1>3 DEF DispatchEffect
<1>5. disabled' \in [Tasks -> BOOLEAN]
    BY <1>2, <1>3 DEF DispatchEffect
<1>6. ~disabled[t]
    BY <1>2 DEF IInv, DisabledFinished, Ready, Finished
<1>7. Shape'
    BY <1>1, <1>2, <1>3, <1>5 DEF IInv, Shape, DispatchEffect
<1>8. DisabledFinished'
  <2>1. disabled'[t] => state'[t] = Finished
      BY <1>3, <1>6 DEF DispatchEffect
  <2> QED BY <1>4, <2>1 DEF IInv, DisabledFinished
<1>9. FreshVmIsCalled'
  <2>1. frames'[t] = 0 /\ state'[t] \notin {NotStarted, Finished} =>
            state'[t] = Ready /\ reason'[t] = "first"
      BY <1>3 DEF DispatchEffect
  <2> QED BY <1>4, <2>1 DEF IInv, FreshVmIsCalled
<1> QED BY <1>1, <1>7, <1>8, <1>9 DEF IInv, DispatchReady, ExitJustified, NoWorkWhileAsleep,
        NeverOversleeps

\* The invariant is inductive.
THEOREM IInvTheorem == Spec => []IInv
<1>1. IInv /\ [Next]_vars => IInv'
    BY SignalIInv, TickIInv, IterateIInv, WakeUpIInv, DispatchIInv, StutterIInv DEF Next
<1> QED BY InitIInv, <1>1, PTL DEF Spec

----------------------------------------------------------------------------
(* The theorems.                                                           *)

\* A VM that has not run is only ever started with Vm::call.
THEOREM FreshVmIsCalledTheorem == Spec => []FreshVmIsCalled
<1>1. IInv => FreshVmIsCalled
    BY DEF IInv
<1> QED BY IInvTheorem, <1>1, PTL

\* The runner stops only when the grace period is over or every task is.
THEOREM ExitJustifiedTheorem == Spec => []ExitJustified
<1>1. IInv => ExitJustified
    BY DEF IInv
<1> QED BY IInvTheorem, <1>1, PTL

\* The thread never falls asleep on a queued event or a ready task.
THEOREM NoWorkWhileAsleepTheorem == Spec => []NoWorkWhileAsleep
<1>1. IInv => NoWorkWhileAsleep
    BY DEF IInv
<1> QED BY IInvTheorem, <1>1, PTL

\* The thread never sleeps past a task's deadline.
THEOREM NeverOversleepsTheorem == Spec => []NeverOversleeps
<1>1. IInv => NeverOversleeps
    BY DEF IInv
<1> QED BY IInvTheorem, <1>1, PTL

\* Finished and disabled tasks are left alone by every step.
THEOREM FinishedIsFinalTheorem == Spec => FinishedIsFinal
<1>1. ASSUME IInv, [Next]_vars
      PROVE  FinishedStep
  <2> SUFFICES ASSUME NEW t \in Tasks
               PROVE  /\ state[t] = Finished => state'[t] = Finished
                      /\ disabled[t] => disabled'[t] /\ state'[t] = Finished
      BY DEF FinishedStep
  <2>0. disabled[t] => state[t] = Finished
      BY <1>1 DEF IInv, DisabledFinished
  <2> SUFFICES ASSUME state[t] = Finished
               PROVE  state'[t] = Finished /\ (disabled[t] => disabled'[t])
      BY <2>0
  <2>1. CASE Signal \/ WakeUp \/ UNCHANGED vars
      BY <2>1 DEF Signal, WakeUp, vars, taskVars
  <2>2. CASE Tick
      BY <1>1, <2>2, TickKinds DEF Tick, Finished
  <2>3. CASE Iterate
      BY <1>1, <2>3, RefreshKinds DEF Iterate, Refresh
  <2>4. CASE dispatch_one
    <3>1. current # t /\ current \in Tasks
        BY <1>1, <2>4 DEF IInv, Shape, DispatchReady, dispatch_one, Ready, Finished
    <3>2. DispatchEffect(current)
        BY <1>1, <2>4, DispatchCases
    <3> QED BY <1>1, <3>1, <3>2 DEF DispatchEffect, IInv, Shape
  <2> QED BY <1>1, <2>1, <2>2, <2>3, <2>4 DEF Next
<1> QED BY IInvTheorem, <1>1, PTL DEF Spec, FinishedIsFinal

\* A task that was woken keeps its reason and its event until its turn.
THEOREM WakeupStableTheorem == Spec => WakeupStable
<1>1. ASSUME IInv, [Next]_vars
      PROVE  WakeupStep
  <2> SUFFICES ASSUME NEW t \in Tasks, state[t] = Ready, ~(pc = "dispatch" /\ current = t)
               PROVE  state'[t] = Ready /\ reason'[t] = reason[t] /\ event_id'[t] = event_id[t]
      BY DEF WakeupStep
  <2>1. CASE Signal \/ WakeUp \/ UNCHANGED vars
      BY <2>1 DEF Signal, WakeUp, vars, taskVars
  <2>2. CASE Tick
      BY <1>1, <2>2, TickKinds DEF Tick, Ready
  <2>3. CASE Iterate
    <3>1. CASE UNCHANGED <<state, reason, event_id>>
        BY <3>1
    <3>2. CASE Refresh(SignalledQueue)
      <4>1. ~Due(t) /\ ~Fired(t, SignalledQueue) /\ ~Fresh(t)
          BY <1>1, RefreshKinds
      <4> QED BY <3>2, <4>1 DEF Refresh, Refreshed
    <3> QED BY <2>3, <3>1, <3>2 DEF Iterate
  <2>4. CASE dispatch_one
    <3>1. current # t /\ current \in Tasks /\ event_id' = event_id
        BY <1>1, <2>4 DEF IInv, Shape, dispatch_one
    <3>2. DispatchEffect(current)
        BY <1>1, <2>4, DispatchCases
    <3> QED BY <1>1, <3>1, <3>2 DEF DispatchEffect, IInv, Shape
  <2> QED BY <1>1, <2>1, <2>2, <2>3, <2>4 DEF Next
<1> QED BY IInvTheorem, <1>1, PTL DEF Spec, WakeupStable

\* Nothing postpones a shutdown in progress or changes its exit code.
THEOREM GraceNeverExtendedTheorem == Spec => GraceNeverExtended
<1>1. ASSUME IInv, [Next]_vars
      PROVE  GraceStep
  <2> SUFFICES ASSUME deadline # None
               PROVE  deadline' # None /\ deadline' <= deadline /\ trigger' = trigger
      BY DEF GraceStep
  <2>0. deadline \in Nat
      BY <1>1 DEF IInv, Shape
  <2>1. CASE Signal \/ WakeUp \/ dispatch_one \/ UNCHANGED vars
    <3>1. UNCHANGED <<deadline, trigger>>
      <4>1. CASE Signal BY <4>1 DEF Signal, shutdownVars
      <4>2. CASE WakeUp BY <4>2 DEF WakeUp, shutdownVars
      <4>3. CASE dispatch_one BY <4>3 DEF dispatch_one, shutdownVars
      <4>4. CASE UNCHANGED vars BY <4>4 DEF vars, shutdownVars
      <4> QED BY <2>1, <4>1, <4>2, <4>3, <4>4
    <3> QED BY <2>0, <3>1
  <2>2. CASE Tick
      BY <2>0, <2>2 DEF Tick, Left, None
  <2>3. CASE Iterate
    <3>1. ~ShutdownStarts
        BY DEF ShutdownStarts
    <3>2. trigger' = trigger /\ deadline' = deadline
        BY <2>3, <3>1 DEF Iterate, PollSignals
    <3> QED BY <2>0, <3>2
  <2> QED BY <1>1, <2>1, <2>2, <2>3 DEF Next
<1> QED BY IInvTheorem, <1>1, PTL DEF Spec, GraceNeverExtended

----------------------------------------------------------------------------
(* The restart history.                                                    *)

\* A set of positive naturals that is not empty has a least element.
LEMMA LeastExists ==
    ASSUME NEW S, S \subseteq Nat, S # {}
    PROVE  Min(S) \in S /\ \A y \in S : Min(S) <= y
<1>1. \E x \in S : \A y \in S : ~ (<<y, x>> \in OpToRel(<, Nat))
    BY NatLessThanWellFounded, WFMin
<1>2. PICK x \in S : \A y \in S : ~ (<<y, x>> \in OpToRel(<, Nat))
    BY <1>1
<1>3. \A y \in S : x <= y
  <2> TAKE y \in S
  <2>1. x \in Nat /\ y \in Nat
      OBVIOUS
  <2>2. y < x => <<y, x>> \in OpToRel(<, Nat)
      BY <2>1, Zenon DEF OpToRel
  <2>3. ~(y < x)
      BY <1>2, <2>2, Zenon
  <2> QED BY <2>1, <2>3
<1> QED BY <1>3 DEF Min

\* Popping expired entries from the front leaves a suffix, and everything
\* before it is expired.
LEMMA WithinSuffix ==
    ASSUME NEW ages \in Seq(0 .. Oldest), NEW w \in Int
    PROVE  \E d \in 0 .. Len(ages) :
              /\ Within(ages, w) \in Seq(0 .. Oldest)
              /\ Len(Within(ages, w)) = Len(ages) - d
              /\ \A i \in 1 .. Len(ages) - d : Within(ages, w)[i] = ages[d + i]
              /\ \A i \in 1 .. d : ages[i] > w
<1> DEFINE live == {k \in DOMAIN ages : ages[k] <= w}
<1>0. /\ DOMAIN ages = 1 .. Len(ages) /\ Len(ages) \in Nat
      /\ \A i \in 1 .. Len(ages) : ages[i] \in 0 .. Oldest
      /\ Oldest \in Nat
    BY RunTasksAssumption
<1>1. CASE live = {}
  <2>1. \A i \in 1 .. Len(ages) : ages[i] > w
      BY <1>0, <1>1
  <2>2. Within(ages, w) = << >>
      BY <1>1 DEF Within
  <2>3. << >> \in Seq(0 .. Oldest) /\ Len(<< >>) = 0
      OBVIOUS
  <2> WITNESS Len(ages) \in 0 .. Len(ages)
  <2> QED BY <1>0, <2>1, <2>2, <2>3
<1>2. CASE live # {}
  <2> DEFINE m == Min(live)
  <2>1. live \subseteq Nat
      BY <1>0
  <2>2. m \in live /\ \A y \in live : m <= y
      BY <1>2, <2>1, LeastExists
  <2> HIDE DEF m
  <2>3. m \in 1 .. Len(ages)
      BY <1>0, <2>2
  <2>4. Within(ages, w) = SubSeq(ages, m, Len(ages))
      BY <1>2 DEF Within, m
  <2>5. \A i \in m .. Len(ages) : ages[i] \in 0 .. Oldest
      BY <1>0, <2>3
  <2>6. /\ SubSeq(ages, m, Len(ages)) \in Seq(0 .. Oldest)
        /\ Len(SubSeq(ages, m, Len(ages))) = Len(ages) - m + 1
        /\ \A i \in 1 .. Len(ages) - m + 1 : SubSeq(ages, m, Len(ages))[i] = ages[m + i - 1]
      BY <1>0, <2>3, <2>5, SubSeqProperties
  <2>7. \A i \in 1 .. m - 1 : ages[i] > w
    <3> TAKE i \in 1 .. m - 1
    <3> HIDE DEF live
    <3>1. i \in 1 .. Len(ages) /\ i < m
        BY <1>0, <2>3
    <3>2. i \notin live
        BY <2>2, <2>3, <3>1
    <3>3. ~(ages[i] <= w)
        BY <1>0, <3>1, <3>2 DEF live
    <3> QED BY <1>0, <3>1, <3>3
  <2> HIDE DEF live
  <2>8. \A i \in 1 .. Len(ages) - (m - 1) : Within(ages, w)[i] = ages[(m - 1) + i]
    <3> TAKE i \in 1 .. Len(ages) - (m - 1)
    <3>1. i \in 1 .. Len(ages) - m + 1 /\ m + i - 1 = (m - 1) + i
        BY <1>0, <2>3
    <3> QED BY <2>4, <2>6, <3>1
  <2>9. m - 1 \in 0 .. Len(ages) /\ Len(ages) - m + 1 = Len(ages) - (m - 1)
      BY <1>0, <2>3
  <2> QED BY <2>4, <2>6, <2>7, <2>8, <2>9
<1> QED BY <1>1, <1>2

\* Ageing keeps the length, and an entry beyond a window stays beyond it.
LEMMA AgedType ==
    ASSUME NEW ages \in Seq(0 .. Oldest)
    PROVE  /\ Aged(ages) \in Seq(0 .. Oldest)
           /\ Len(Aged(ages)) = Len(ages)
           /\ \A i \in 1 .. Len(ages) :
                 Aged(ages)[i] = IF ages[i] < Oldest THEN ages[i] + 1 ELSE Oldest
<1>0. /\ DOMAIN ages = 1 .. Len(ages) /\ Len(ages) \in Nat
      /\ \A i \in 1 .. Len(ages) : ages[i] \in 0 .. Oldest
      /\ Oldest \in Nat
    BY RunTasksAssumption
<1>1. Aged(ages) = [i \in 1 .. Len(ages) |-> IF ages[i] < Oldest THEN ages[i] + 1 ELSE Oldest]
    BY <1>0 DEF Aged
<1>2. \A i \in 1 .. Len(ages) : (IF ages[i] < Oldest THEN ages[i] + 1 ELSE Oldest) \in 0 .. Oldest
    BY <1>0
<1>3. Aged(ages) \in [1 .. Len(ages) -> 0 .. Oldest]
    BY <1>1, <1>2
<1>4. DOMAIN Aged(ages) = 1 .. Len(ages)
    BY <1>1
<1>5. Aged(ages) \in Seq(0 .. Oldest)
    BY <1>0, <1>3
<1> QED BY <1>0, <1>1, <1>4, <1>5

\* The restarts a task has been through (r) and the ones its history (h)
\* remembers agree from the latest backwards; one that the history has
\* forgotten is older than a window some manifest grants.
Forgotten(t, age) == \E m \in Manifests : age > m.task[t].window

Agree(t, h, r) ==
    \A k \in 1 .. Len(r) :
        IF Len(r) - k < Len(h) THEN r[k] = h[Len(h) - (Len(r) - k)]
        ELSE Forgotten(t, r[k])

Ages == Seq(0 .. Oldest)

LEMMA AgesElements ==
    ASSUME NEW s \in Seq(0 .. Oldest)
    PROVE  Len(s) \in Nat /\ \A i \in 1 .. Len(s) : s[i] \in 0 .. Oldest
<1> DEFINE S == 0 .. Oldest
<1>1. s \in Seq(S)
    OBVIOUS
<1> HIDE DEF S
<1>2. Len(s) \in Nat /\ \A i \in 1 .. Len(s) : s[i] \in S
    BY <1>1, LenProperties, ElementOfSeq
<1> QED BY <1>2 DEF S

\* Time passes for both alike.
LEMMA AgreeAged ==
    ASSUME NEW t \in Tasks, NEW h \in Ages, NEW r \in Ages, Agree(t, h, r)
    PROVE  Agree(t, Aged(h), Aged(r))
<1> USE DEF Ages
<1>0. /\ Len(h) \in Nat /\ Len(r) \in Nat /\ Oldest \in Nat
      /\ \A i \in 1 .. Len(h) : h[i] \in 0 .. Oldest
      /\ \A i \in 1 .. Len(r) : r[i] \in 0 .. Oldest
  <2>1. Oldest \in Nat
      BY RunTasksAssumption
  <2>2. Len(h) \in Nat /\ \A i \in 1 .. Len(h) : h[i] \in 0 .. Oldest
      BY AgesElements, Zenon
  <2>3. Len(r) \in Nat /\ \A i \in 1 .. Len(r) : r[i] \in 0 .. Oldest
      BY AgesElements, Zenon
  <2> QED BY <2>1, <2>2, <2>3
<1>1. /\ Len(Aged(h)) = Len(h) /\ Len(Aged(r)) = Len(r)
      /\ \A i \in 1 .. Len(h) : Aged(h)[i] = IF h[i] < Oldest THEN h[i] + 1 ELSE Oldest
      /\ \A i \in 1 .. Len(r) : Aged(r)[i] = IF r[i] < Oldest THEN r[i] + 1 ELSE Oldest
    BY AgedType
<1> SUFFICES ASSUME NEW k \in 1 .. Len(r)
             PROVE  IF Len(r) - k < Len(h) THEN Aged(r)[k] = Aged(h)[Len(h) - (Len(r) - k)]
                    ELSE Forgotten(t, Aged(r)[k])
    BY <1>1 DEF Agree
<1>2. CASE Len(r) - k < Len(h)
  <2>1. Len(h) - (Len(r) - k) \in 1 .. Len(h)
      BY <1>0, <1>2
  <2> QED BY <1>1, <1>2, <2>1 DEF Agree
<1>3. CASE ~(Len(r) - k < Len(h))
  <2>1. PICK m \in Manifests : r[k] > m.task[t].window
      BY <1>3 DEF Agree, Forgotten
  <2>2. m.task[t].window \in Nat /\ m.task[t].window < Oldest
      BY RunTasksAssumption DEF TaskConfigs
  <2>3. Aged(r)[k] > m.task[t].window
      BY <1>0, <1>1, <2>1, <2>2, SMTT(30)
  <2> QED BY <1>3, <2>3 DEF Forgotten
<1> QED BY <1>2, <1>3

\* Dropping the oldest restarts from the record keeps the agreement.
LEMMA AgreeWithin ==
    ASSUME NEW t \in Tasks, NEW h \in Ages, NEW r \in Ages, NEW w \in Int, Agree(t, h, r)
    PROVE  Agree(t, h, Within(r, w))
<1> USE DEF Ages
<1>0. Len(h) \in Nat /\ Len(r) \in Nat
    OBVIOUS
<1> DEFINE s == Within(r, w)
<1>1. PICK d \in 0 .. Len(r) : /\ s \in Seq(0 .. Oldest)
                               /\ Len(s) = Len(r) - d
                               /\ \A i \in 1 .. Len(r) - d : s[i] = r[d + i]
    BY WithinSuffix
<1> HIDE DEF s
<1> SUFFICES ASSUME NEW k \in 1 .. Len(s)
             PROVE  IF Len(s) - k < Len(h) THEN s[k] = h[Len(h) - (Len(s) - k)]
                    ELSE Forgotten(t, s[k])
    BY DEF Agree, s
<1>2. d + k \in 1 .. Len(r) /\ s[k] = r[d + k] /\ Len(r) - (d + k) = Len(s) - k
    BY <1>0, <1>1
<1> QED BY <1>2 DEF Agree

\* A restart prunes the history by the window in force and records itself.
LEMMA AgreeRestart ==
    ASSUME NEW t \in Tasks, NEW h \in Ages, NEW r \in Ages, Agree(t, h, r),
           NEW m \in Manifests
    PROVE  Agree(t, Append(Within(h, m.task[t].window), 0), Append(r, 0))
<1> USE DEF Ages
<1> DEFINE w == m.task[t].window
           p == Within(h, w)
<1>0. w \in Int
    BY RunTasksAssumption DEF TaskConfigs
<1> HIDE DEF w
<1>1. PICK d \in 0 .. Len(h) : /\ p \in Seq(0 .. Oldest)
                               /\ Len(p) = Len(h) - d
                               /\ \A i \in 1 .. Len(h) - d : p[i] = h[d + i]
                               /\ \A i \in 1 .. d : h[i] > w
    BY <1>0, WithinSuffix
<1> HIDE DEF p
<1>5. Len(h) \in Nat /\ Len(r) \in Nat /\ Len(p) \in Nat
    BY <1>1
<1>2. /\ Len(Append(p, 0)) = Len(p) + 1 /\ Len(Append(r, 0)) = Len(r) + 1
      /\ \A i \in 1 .. Len(p) : Append(p, 0)[i] = p[i]
      /\ \A i \in 1 .. Len(r) : Append(r, 0)[i] = r[i]
      /\ Append(p, 0)[Len(p) + 1] = 0 /\ Append(r, 0)[Len(r) + 1] = 0
    BY <1>1
<1> DEFINE pp == Append(p, 0)
           rr == Append(r, 0)
<1> HIDE DEF pp, rr
<1>3. ASSUME NEW k \in 1 .. Len(rr)
      PROVE  IF Len(rr) - k < Len(pp) THEN rr[k] = pp[Len(pp) - (Len(rr) - k)]
             ELSE Forgotten(t, rr[k])
  <2>1. CASE k = Len(r) + 1
      BY <1>1, <1>2, <1>5, <2>1 DEF pp, rr
  <2>2. CASE k \in 1 .. Len(r) /\ Len(r) - k < Len(p)
    <3>1. /\ Len(p) - (Len(r) - k) \in 1 .. Len(p)
          /\ Len(pp) - (Len(rr) - k) = Len(p) - (Len(r) - k)
        BY <1>2, <1>5, <2>2 DEF pp, rr
    <3>2. rr[k] = r[k] /\ pp[Len(p) - (Len(r) - k)] = p[Len(p) - (Len(r) - k)]
        BY <1>2, <2>2, <3>1 DEF pp, rr
    <3>3. p[Len(p) - (Len(r) - k)] = h[d + (Len(p) - (Len(r) - k))]
        BY <1>1, <3>1
    <3>4. d + (Len(p) - (Len(r) - k)) = Len(h) - (Len(r) - k) /\ Len(r) - k < Len(h)
        BY <1>1, <1>5, <2>2
    <3>5. r[k] = h[Len(h) - (Len(r) - k)]
        BY <2>2, <3>4 DEF Agree
    <3>6. Len(rr) - k < Len(pp)
        BY <1>1, <1>2, <1>5, <2>2 DEF pp, rr
    <3> QED BY <3>1, <3>2, <3>3, <3>4, <3>5, <3>6
  <2>3. CASE k \in 1 .. Len(r) /\ ~(Len(r) - k < Len(p))
    <3>1. Forgotten(t, r[k])
      <4>1. CASE Len(r) - k < Len(h)
        <5>1. Len(h) - (Len(r) - k) \in 1 .. d
            BY <1>1, <1>5, <2>3, <4>1
        <5>2. r[k] = h[Len(h) - (Len(r) - k)]
            BY <2>3, <4>1 DEF Agree
        <5>3. r[k] > w
            BY <1>1, <5>1, <5>2
        <5> QED BY <5>3 DEF Forgotten, w
      <4>2. CASE ~(Len(r) - k < Len(h))
          BY <2>3, <4>2 DEF Agree
      <4> QED BY <4>1, <4>2
    <3>2. rr[k] = r[k] /\ ~(Len(rr) - k < Len(pp))
        BY <1>1, <1>2, <1>5, <2>3 DEF pp, rr
    <3> QED BY <3>1, <3>2
  <2> QED BY <1>2, <1>5, <2>1, <2>2, <2>3 DEF rr
<1> QED BY <1>3 DEF Agree, pp, rr, p, w

\* For every task that may still restart, the history tells the truth.
HistoryInv ==
    /\ history \in [Tasks -> Ages]
    /\ restarted \in [Tasks -> Ages]
    /\ \A t \in Tasks : ~disabled[t] => Agree(t, history[t], restarted[t])

\* What a dispatch does to the history: nothing, a task that is disabled, or a
\* restart that the budget allows.
HistoryEffect(t) ==
    \/ UNCHANGED <<history, restarted, disabled>>
    \/ /\ \E h \in Ages : history' = [history EXCEPT ![t] = h]
       /\ UNCHANGED restarted
       /\ disabled' = [disabled EXCEPT ![t] = TRUE]
    \/ /\ history' = [history EXCEPT ![t] = Append(Recent(t), 0)]
       /\ restarted' = [restarted EXCEPT ![t] = Append(@, 0)]
       /\ Len(Recent(t)) < manifest.task[t].limit
       /\ UNCHANGED disabled

\* The recent part of a history is a history.
LEMMA RecentType ==
    ASSUME NEW t \in Tasks, manifest \in Manifests, history[t] \in Ages
    PROVE  /\ Recent(t) \in Ages /\ Append(Recent(t), 0) \in Ages
           /\ manifest.task[t].limit \in Nat
<1>1. manifest.task[t].window \in Int /\ manifest.task[t].limit \in Nat
    BY RunTasksAssumption DEF TaskConfigs
<1>2. Recent(t) \in Ages
    BY <1>1, WithinSuffix DEF Recent, Ages
<1>3. 0 \in 0 .. Oldest
    BY RunTasksAssumption
<1>4. Append(Recent(t), 0) \in Ages
    BY <1>2, <1>3, AppendProperties DEF Ages
<1> QED BY <1>1, <1>2, <1>4

\* Every branch of dispatch_one is one of the three.
LEMMA HistoryCases ==
    ASSUME IInv, HistoryInv, dispatch_one
    PROVE  HistoryEffect(current)
<1> DEFINE t == current
<1>1. /\ t \in Tasks /\ manifest \in Manifests /\ history[t] \in Ages
      /\ manifest.task[t].limit \in Nat
      /\ Recent(t) \in Ages /\ Append(Recent(t), 0) \in Ages
    BY RecentType DEF IInv, Shape, HistoryInv
<1>2. CASE Yields(t) \/ Resets(t)
    BY <1>2 DEF Yields, Resets, HistoryEffect
<1>3. ASSUME NEW was_error \in BOOLEAN, on_task_exit(t, was_error)
      PROVE  HistoryEffect(t)
  <2>1. CASE Retire(t) /\ UNCHANGED <<disabled, history>>
      BY <2>1 DEF Retire, HistoryEffect
  <2>2. CASE history' = [history EXCEPT ![t] = Recent(t)] /\ Disable(t)
      BY <1>1, <2>2 DEF Disable, Retire, HistoryEffect
  <2>3. CASE history' = [history EXCEPT ![t] = Append(Recent(t), 0)] /\ Disable(t)
      BY <1>1, <2>3 DEF Disable, Retire, HistoryEffect
  <2>4. CASE /\ history' = [history EXCEPT ![t] = Append(Recent(t), 0)]
             /\ ~Exhausted(t) /\ Restart(t)
    <3>1. Len(Recent(t)) \in Nat
        BY <1>1 DEF Ages
    <3>2. Len(Recent(t)) < manifest.task[t].limit
        BY <1>1, <2>4, <3>1 DEF Exhausted
    <3> QED BY <2>4, <3>2 DEF Restart, HistoryEffect
  <2> QED BY <1>3, <2>1, <2>2, <2>3, <2>4 DEF on_task_exit
<1> QED BY <1>2, <1>3 DEF dispatch_one

\* The history tells the truth at every moment.
LEMMA HistoryStep ==
    ASSUME IInv, HistoryInv, [Next]_vars
    PROVE  HistoryInv'
<1>0. disabled \in [Tasks -> BOOLEAN] /\ manifest \in Manifests /\ current \in Tasks
    BY DEF IInv, Shape
<1>1. CASE UNCHANGED <<history, restarted, disabled>>
    BY <1>1 DEF HistoryInv
<1>2. CASE Tick
  <2>1. /\ history' = [t \in Tasks |-> Aged(history[t])]
        /\ restarted' = [t \in Tasks |-> Within(Aged(restarted[t]), Oldest - 1)]
        /\ disabled' = disabled
      BY <1>2 DEF Tick
  <2>2. Oldest - 1 \in Int
      BY RunTasksAssumption
  <2>3. ASSUME NEW t \in Tasks
        PROVE  /\ Aged(history[t]) \in Ages
               /\ Within(Aged(restarted[t]), Oldest - 1) \in Ages
               /\ ~disabled[t] =>
                    Agree(t, Aged(history[t]), Within(Aged(restarted[t]), Oldest - 1))
    <3>1. history[t] \in Ages /\ restarted[t] \in Ages
        BY DEF HistoryInv
    <3>2. Aged(history[t]) \in Ages /\ Aged(restarted[t]) \in Ages
        BY <3>1, AgedType DEF Ages
    <3>3. Within(Aged(restarted[t]), Oldest - 1) \in Ages
        BY <2>2, <3>2, WithinSuffix DEF Ages
    <3>4. ASSUME ~disabled[t]
          PROVE  Agree(t, Aged(history[t]), Within(Aged(restarted[t]), Oldest - 1))
      <4>1. Agree(t, history[t], restarted[t])
          BY <3>4 DEF HistoryInv
      <4>2. Agree(t, Aged(history[t]), Aged(restarted[t]))
          BY <3>1, <4>1, AgreeAged
      <4> QED BY <2>2, <3>2, <4>2, AgreeWithin
    <3> QED BY <3>2, <3>3, <3>4
  <2> QED BY <2>1, <2>3 DEF HistoryInv
<1>3. CASE dispatch_one
  <2> DEFINE t == current
  <2>1. HistoryEffect(t)
      BY <1>3, HistoryCases
  <2>2. history[t] \in Ages /\ restarted[t] \in Ages /\ Append(Recent(t), 0) \in Ages
      BY <1>0, RecentType DEF HistoryInv
  <2>3. CASE UNCHANGED <<history, restarted, disabled>>
      BY <1>1, <2>3
  <2>4. CASE /\ \E h \in Ages : history' = [history EXCEPT ![t] = h]
             /\ UNCHANGED restarted
             /\ disabled' = [disabled EXCEPT ![t] = TRUE]
    <3>1. PICK h \in Ages : history' = [history EXCEPT ![t] = h]
        BY <2>4
    <3>2. disabled'[t] = TRUE
        BY <1>0, <2>4, Zenon
    <3>3. \A u \in Tasks : u # t => disabled'[u] = disabled[u] /\ history'[u] = history[u]
        BY <1>0, <2>4, <3>1 DEF HistoryInv
    <3>4. history' \in [Tasks -> Ages] /\ restarted' \in [Tasks -> Ages]
        BY <1>0, <2>4, <3>1 DEF HistoryInv
    <3>5. \A u \in Tasks : ~disabled'[u] => Agree(u, history'[u], restarted'[u])
        BY <2>4, <3>2, <3>3 DEF HistoryInv
    <3> QED BY <3>4, <3>5 DEF HistoryInv
  <2>5. CASE /\ history' = [history EXCEPT ![t] = Append(Recent(t), 0)]
             /\ restarted' = [restarted EXCEPT ![t] = Append(@, 0)]
             /\ UNCHANGED disabled
    <3>1. Append(restarted[t], 0) \in Ages
      <4>1. 0 \in 0 .. Oldest
          BY RunTasksAssumption
      <4> QED BY <2>2, <4>1, AppendProperties DEF Ages
    <3>2. history' \in [Tasks -> Ages] /\ restarted' \in [Tasks -> Ages]
        BY <1>0, <2>2, <2>5, <3>1 DEF HistoryInv
    <3>3. /\ history'[t] = Append(Recent(t), 0) /\ restarted'[t] = Append(restarted[t], 0)
          /\ \A u \in Tasks : u # t => history'[u] = history[u] /\ restarted'[u] = restarted[u]
        BY <1>0, <2>5 DEF HistoryInv
    <3>4. ~disabled[t] => Agree(t, Append(Recent(t), 0), Append(restarted[t], 0))
        BY <1>0, <2>2, AgreeRestart DEF HistoryInv, Recent
    <3> QED BY <2>5, <3>2, <3>3, <3>4 DEF HistoryInv
  <2> QED BY <2>1, <2>3, <2>4, <2>5 DEF HistoryEffect
<1>4. CASE Signal \/ Iterate \/ WakeUp \/ UNCHANGED vars
    BY <1>1, <1>4 DEF Signal, Iterate, WakeUp, vars, taskVars
<1> QED BY <1>2, <1>3, <1>4 DEF Next

\* From the first moment on.
THEOREM HistoryTheorem == Spec => []HistoryInv
<1>1. Init => HistoryInv
  <2>1. << >> \in Ages /\ Len(<< >>) = 0
      BY DEF Ages
  <2> QED BY <2>1 DEF Init, HistoryInv, Agree
<1>2. IInv /\ HistoryInv /\ [Next]_vars => HistoryInv'
    BY HistoryStep
<1> QED BY <1>1, <1>2, IInvTheorem, PTL DEF Spec

\* A restart that `limit` others have followed is out of the window.
THEOREM RestartRateLimitedTheorem == Spec => RestartRateLimited
<1>1. ASSUME IInv, HistoryInv, HistoryInv', [Next]_vars
      PROVE  RestartStep
  <2> SUFFICES ASSUME NEW t \in Tasks, Len(restarted'[t]) > Len(restarted[t]),
                      NEW k \in DOMAIN restarted'[t],
                      k + manifest.task[t].limit <= Len(restarted'[t])
               PROVE  Forgotten(t, restarted'[t][k])
      BY DEF RestartStep, Forgotten
  <2>0. /\ restarted[t] \in Ages /\ restarted'[t] \in Ages /\ history[t] \in Ages
        /\ history'[t] \in Ages
        /\ Len(restarted[t]) \in Nat /\ Len(restarted'[t]) \in Nat
        /\ DOMAIN restarted'[t] = 1 .. Len(restarted'[t])
        /\ manifest \in Manifests /\ current \in Tasks
      BY <1>1 DEF IInv, Shape, HistoryInv, Ages
  <2>1. CASE UNCHANGED restarted
      BY <2>0, <2>1
  <2>2. CASE Tick
    <3>1. restarted'[t] = Within(Aged(restarted[t]), Oldest - 1)
        BY <2>2 DEF Tick
    <3>2. Oldest - 1 \in Int
        BY RunTasksAssumption
    <3>3. Aged(restarted[t]) \in Seq(0 .. Oldest) /\ Len(Aged(restarted[t])) = Len(restarted[t])
        BY <2>0, AgedType DEF Ages
    <3>4. PICK d \in 0 .. Len(restarted[t]) :
              Len(Within(Aged(restarted[t]), Oldest - 1)) = Len(restarted[t]) - d
      <4> DEFINE A == Aged(restarted[t])
      <4>1. A \in Seq(0 .. Oldest) /\ Len(A) = Len(restarted[t])
          BY <3>3
      <4> HIDE DEF A
      <4>2. \E d \in 0 .. Len(A) : Len(Within(A, Oldest - 1)) = Len(A) - d
          BY <3>2, <4>1, WithinSuffix
      <4> QED BY <4>1, <4>2 DEF A
    <3> QED BY <2>0, <3>1, <3>4
  <2>3. CASE dispatch_one
    <3>1. HistoryEffect(current)
        BY <1>1, <2>3, HistoryCases
    <3>2. CASE /\ history' = [history EXCEPT ![current] = Append(Recent(current), 0)]
               /\ restarted' = [restarted EXCEPT ![current] = Append(@, 0)]
               /\ Len(Recent(current)) < manifest.task[current].limit
               /\ UNCHANGED disabled
      <4>1. CASE current # t
        <5>1. restarted'[t] = restarted[t]
            BY <1>1, <3>2, <4>1 DEF HistoryInv
        <5> QED BY <2>0, <5>1
      <4>2. CASE current = t
        <5>1. history'[t] = Append(Recent(t), 0)
            BY <1>1, <3>2, <4>2 DEF HistoryInv
        <5>2. Recent(t) \in Ages /\ manifest.task[t].limit \in Nat
            BY <2>0, RecentType
        <5>3. Len(Recent(t)) \in Nat
            BY <5>2 DEF Ages
        <5>4. Len(history'[t]) = Len(Recent(t)) + 1
            BY <5>1, <5>2 DEF Ages
        <5>5. Len(history'[t]) <= manifest.task[t].limit
            BY <3>2, <4>2, <5>2, <5>3, <5>4
        <5>6. ~(Len(restarted'[t]) - k < Len(history'[t]))
            BY <2>0, <5>2, <5>3, <5>4, <5>5
        <5>7. ~disabled'[t]
          <6>1. state[t] = Ready
              BY <1>1, <2>3, <4>2 DEF IInv, DispatchReady, dispatch_one
          <6>2. ~disabled[t]
              BY <1>1, <6>1 DEF IInv, DisabledFinished, Ready, Finished
          <6> QED BY <3>2, <6>2
        <5>8. Agree(t, history'[t], restarted'[t])
            BY <1>1, <5>7 DEF HistoryInv
        <5> QED BY <2>0, <5>6, <5>8 DEF Agree
      <4> QED BY <4>1, <4>2
    <3> QED BY <2>1, <3>1, <3>2 DEF HistoryEffect
  <2>4. CASE Signal \/ Iterate \/ WakeUp \/ UNCHANGED vars
      BY <2>1, <2>4 DEF Signal, Iterate, WakeUp, vars
  <2> QED BY <1>1, <2>2, <2>3, <2>4 DEF Next
<1> QED BY IInvTheorem, HistoryTheorem, <1>1, PTL DEF Spec, RestartRateLimited

----------------------------------------------------------------------------
(* Types.                                                                  *)

\* The times a task may be told to sleep.
Delays(t) == {Never} \cup 0 .. MaxWait \cup 0 .. Period[t]

\* The states of task t: what a sleeper and a waiter carry.
LEMMA StateFields ==
    ASSUME NEW t \in Tasks
    PROVE  /\ Ready \in States(t) /\ Finished \in States(t) /\ NotStarted \in States(t)
           /\ \A d \in Delays(t) : SleepingUntil(d) \in States(t)
           /\ \A e \in Events : WaitingForEvent(e) \in States(t)
           /\ \A s \in States(t) : s.kind = "sleeping" => s.left \in Delays(t)
           /\ \A s \in States(t) : s.kind = "waiting" => s.event \in Events
<1>1. /\ Ready \in States(t) /\ Finished \in States(t) /\ NotStarted \in States(t)
      /\ \A d \in Delays(t) : SleepingUntil(d) \in States(t)
      /\ \A e \in Events : WaitingForEvent(e) \in States(t)
    BY DEF States, Delays
<1>2. ASSUME NEW s \in States(t)
      PROVE  /\ s.kind = "sleeping" => s.left \in Delays(t)
             /\ s.kind = "waiting" => s.event \in Events
  <2>1. CASE s \in {NotStarted, Ready, Finished}
      BY <2>1 DEF NotStarted, Ready, Finished
  <2>2. CASE \E d \in Delays(t) : s = SleepingUntil(d)
      BY <2>2 DEF SleepingUntil
  <2>3. CASE \E e \in Events : s = WaitingForEvent(e)
      BY <2>3 DEF WaitingForEvent
  <2>4. s \in {NotStarted, Ready, Finished} \/ (\E d \in Delays(t) : s = SleepingUntil(d))
           \/ (\E e \in Events : s = WaitingForEvent(e))
      BY <1>2 DEF States, Delays
  <2> QED BY <2>1, <2>2, <2>3, <2>4
<1> QED BY <1>1, <1>2

\* What a yield asks for is a state of that task: a period shortened by the
\* time the dispatch took is no longer than the period.
LEMMA YieldStates ==
    ASSUME NEW t \in Tasks, lag \in Nat
    PROVE  YieldTargets(t) \subseteq States(t)
<1>1. Period[t] \in Nat /\ MaxWait \in Nat
    BY RunTasksAssumption
<1>2. Max({Period[t] - lag, 0}) \in 0 .. Period[t]
  <2> DEFINE x == Period[t] - lag
  <2>1. x \in Int /\ x <= Period[t]
      BY <1>1
  <2> HIDE DEF x
  <2>2. \E m \in {x, 0} : \A y \in {x, 0} : m >= y
      BY <2>1
  <2>3. Max({x, 0}) \in {x, 0} /\ \A y \in {x, 0} : Max({x, 0}) >= y
      BY <2>2 DEF Max
  <2>4. Max({x, 0}) \in 0 .. Period[t]
      BY <1>1, <2>1, <2>3
  <2> QED BY <2>4 DEF x
<1> SUFFICES ASSUME NEW s \in YieldTargets(t)
             PROVE  s \in States(t)
    OBVIOUS
<1>3. CASE s \in {SleepingUntil(d) : d \in 0 .. MaxWait}
    BY <1>3, StateFields DEF Delays
<1>4. CASE s = SleepingUntil(Never)
    BY <1>4, StateFields DEF Delays
<1>5. CASE s \in {WaitingForEvent(e) : e \in Events}
    BY <1>5, StateFields
<1>6. CASE s = Ready \/ s = Finished
    BY <1>6, StateFields
<1>7. CASE s = SleepingUntil(Max({Period[t] - lag, 0}))
  <2>1. Max({Period[t] - lag, 0}) \in Delays(t)
      BY <1>2 DEF Delays
  <2> QED BY <1>7, <2>1, StateFields
<1> QED BY <1>3, <1>4, <1>5, <1>6, <1>7 DEF YieldTargets

\* The capacity of the queue is respected by the loop's own posts.
LEMMA PostedType ==
    ASSUME NEW q \in Seq(Events), Len(q) <= MaxEventQueue, NEW e \in Events
    PROVE  Posted(q, e) \in Seq(Events) /\ Len(Posted(q, e)) <= MaxEventQueue
<1>1. MaxEventQueue \in Nat
    BY RunTasksAssumption
<1> QED BY <1>1 DEF Posted

\* And by a task's posts.
LEMMA PostAllType ==
    ASSUME NEW posts \in Posts, PostAll(posts),
           queue \in Seq(Events), Len(queue) <= MaxEventQueue
    PROVE  queue' \in Seq(Events) /\ Len(queue') <= MaxEventQueue
<1> DEFINE room == MaxEventQueue - Len(queue)
           n == Min({Len(posts), room})
           taken == SubSeq(posts, 1, n)
<1>1. posts \in Seq(Events) /\ room \in Nat /\ Len(posts) \in Nat /\ MaxEventQueue \in Nat
    BY RunTasksAssumption
<1>2. n \in {Len(posts), room} /\ n <= Len(posts) /\ n <= room
  <2> HIDE DEF room
  <2>1. \E m \in {Len(posts), room} : \A y \in {Len(posts), room} : m <= y
      BY <1>1
  <2>2. n \in {Len(posts), room} /\ \A y \in {Len(posts), room} : n <= y
      BY <2>1 DEF Min
  <2> QED BY <2>2
<1>3. queue' = queue \o taken
    BY DEF PostAll
<1> HIDE DEF n
<1>4. n \in Nat /\ n <= Len(posts)
    BY <1>1, <1>2
<1>5. taken \in Seq(Events) /\ Len(taken) = n
  <2>1. \A i \in 1 .. n : posts[i] \in Events
      BY <1>1, <1>4
  <2> QED BY <1>4, <2>1, SubSeqProperties
<1> HIDE DEF taken
<1>6. queue' \in Seq(Events) /\ Len(queue') = Len(queue) + n
    BY <1>3, <1>5, ConcatProperties
<1> QED BY <1>1, <1>2, <1>6

\* Every step keeps every variable in its type.
LEMMA TypeStep ==
    ASSUME IInv, HistoryInv', TypeOK, [Next]_vars
    PROVE  TypeOK'
<1>0. /\ current \in Tasks /\ lag \in Nat /\ nap \in Nat /\ FrameLimit \in Nat /\ MaxRun \in Nat
      /\ state \in [Tasks -> TaskStates]
      /\ history' \in [Tasks -> Seq(0 .. Oldest)] /\ restarted' \in [Tasks -> Seq(0 .. Oldest)]
    BY RunTasksAssumption DEF IInv, Shape, HistoryInv, Ages
<1>1. CASE Signal
    BY <1>0, <1>1 DEF Signal, TypeOK, taskVars, shutdownVars, loopVars
<1>2. CASE WakeUp
    BY <1>0, <1>2 DEF WakeUp, TypeOK, taskVars, shutdownVars
<1>3. CASE UNCHANGED vars
    BY <1>0, <1>3 DEF vars, TypeOK, taskVars, shutdownVars, loopVars
<1>4. CASE Tick
  <2>1. ASSUME NEW t \in Tasks
        PROVE  state'[t] \in States(t)
    <3>1. state[t] \in States(t)
        BY DEF TypeOK
    <3>2. state'[t] = IF state[t].kind = "sleeping"
                      THEN SleepingUntil(Left(state[t].left)) ELSE state[t]
        BY <1>4 DEF Tick
    <3>3. CASE state[t].kind = "sleeping"
      <4>1. state[t].left \in Delays(t)
          BY <3>1, <3>3, StateFields
      <4>2. Period[t] \in Nat /\ MaxWait \in Nat
          BY RunTasksAssumption
      <4>3. Left(state[t].left) \in Delays(t)
          BY <4>1, <4>2 DEF Delays, Left, Never
      <4> QED BY <3>2, <3>3, <4>3, StateFields
    <3> QED BY <3>1, <3>2, <3>3
  <2>2. deadline' \in Nat \cup {None} /\ nap' \in Nat
      BY <1>0, <1>4, LeftType DEF Tick, TypeOK, None, Never
  <2>3. lag' \in 0 .. MaxRun
      BY <1>0, <1>4 DEF Tick, TypeOK
  <2> QED BY <1>0, <1>4, <2>1, <2>2, <2>3 DEF Tick, TypeOK
<1>5. CASE Iterate
  <2> DEFINE q == SignalledQueue
  <2>1. q \in Seq(Events) /\ Len(q) <= MaxEventQueue
    <3> DEFINE r == IF ShutdownStarts THEN Posted(queue, Shutdown) ELSE queue
    <3>1. r \in Seq(Events) /\ Len(r) <= MaxEventQueue
        BY RunTasksAssumption, PostedType DEF TypeOK
    <3> HIDE DEF r
    <3>2. q = IF "SIGHUP" \in pending THEN Posted(r, Reload) ELSE r
        BY DEF SignalledQueue, r
    <3>3. Posted(r, Reload) \in Seq(Events) /\ Len(Posted(r, Reload)) <= MaxEventQueue
        BY <3>1, RunTasksAssumption, PostedType
    <3> QED BY <3>1, <3>2, <3>3
  <2>2. /\ pending' = {} /\ lag' = 0
        /\ UNCHANGED <<disabled, frames>>
        /\ trigger' \in {trigger, "SIGINT", "SIGTERM"}
        /\ deadline' \in {deadline, manifest.grace}
        /\ manifest' \in Manifests
      BY <1>5 DEF Iterate, PollSignals, reload_manifest, TypeOK
  <2>3. /\ pending' \subseteq Signals /\ lag' \in 0 .. MaxRun
        /\ deadline' \in Nat \cup {None} /\ trigger' \in {"none", "SIGINT", "SIGTERM"}
    <3>1. manifest.grace \in Nat
        BY ManifestType DEF TypeOK
    <3> QED BY <1>0, <2>2, <3>1 DEF TypeOK
  <2> HIDE DEF q
  <2>4. /\ pc' \in {"top", "dispatch", "sleep", "exited"}
        /\ current' \in Tasks /\ nap' \in Nat
    <3>1. IInv'
        BY <1>5, IterateIInv
    <3>2. pc' \in {"top", "dispatch", "sleep", "exited"}
        BY <1>5 DEF Iterate
    <3> QED BY <3>1, <3>2 DEF IInv, Shape
  <2>5. CASE queue' = q /\ UNCHANGED <<state, reason, event_id>>
      BY <1>0, <2>1, <2>2, <2>3, <2>4, <2>5 DEF TypeOK
  <2>6. CASE Refresh(q)
    <3>1. \A t \in Tasks : state'[t] \in States(t)
        BY <2>6, StateFields DEF Refresh, Refreshed, TypeOK
    <3>2. reason' \in [Tasks -> {"first", "deadline", "event"}]
        BY <2>6 DEF Refresh, TypeOK
    <3>3. event_id' \in [Tasks -> Events \cup {NoEvent}]
      <4>1. ASSUME NEW t \in Tasks, Fired(t, q)
            PROVE  state[t].event \in Events
          BY <4>1, StateFields DEF Fired, TypeOK
      <4>2. event_id' = [t \in Tasks |-> IF Fired(t, q) THEN state[t].event ELSE event_id[t]]
          BY <2>6 DEF Refresh
      <4>3. \A t \in Tasks : event_id[t] \in Events \cup {NoEvent}
          BY DEF TypeOK
      <4> QED BY <4>1, <4>2, <4>3
    <3>4. queue' \in Seq(Events) /\ Len(queue') <= MaxEventQueue
      <4>1. queue' = << >> /\ MaxEventQueue \in Nat
          BY <2>6, RunTasksAssumption DEF Refresh
      <4> QED BY <4>1
    <3> QED BY <1>0, <2>2, <2>3, <2>4, <3>1, <3>2, <3>3, <3>4 DEF TypeOK
  <2> QED BY <1>5, <2>5, <2>6 DEF Iterate, q
<1>6. CASE dispatch_one
  <2> DEFINE t == current
  <2>1. /\ pc' = "top" /\ lag' = 0
        /\ UNCHANGED <<event_id, manifest, pending, deadline, trigger, current, nap>>
      BY <1>6 DEF dispatch_one, shutdownVars
  <2>2. queue' \in Seq(Events) /\ Len(queue') <= MaxEventQueue
    <3>1. CASE UNCHANGED queue
        BY <3>1 DEF TypeOK
    <3>2. CASE \E posts \in Posts : PostAll(posts)
        BY <3>2, PostAllType DEF TypeOK
    <3> QED BY <1>6, <3>1, <3>2 DEF dispatch_one
  <2>3. /\ \A u \in Tasks : u # t => state'[u] = state[u]
        /\ reason' \in [Tasks -> {"first", "deadline", "event"}]
        /\ disabled' \in [Tasks -> BOOLEAN]
    <3>1. DispatchEffect(t)
        BY <1>6, DispatchCases
    <3>2. IInv'
        BY <1>6, DispatchIInv
    <3> QED BY <1>0, <3>1, <3>2 DEF DispatchEffect, IInv, Shape
  <2>4. state'[t] \in States(t) /\ frames' \in [Tasks -> 0 .. FrameLimit]
    <3>1. CASE Yields(t)
      <4>1. state'[t] \in YieldTargets(t)
          BY <1>0, <3>1 DEF Yields
      <4>2. Entered(t) \in 0 .. FrameLimit
          BY <1>0, <3>1 DEF Yields, Enters, Entered, TypeOK
      <4> QED BY <1>0, <3>1, <4>1, <4>2, YieldStates DEF Yields, TypeOK
    <3>2. CASE Resets(t)
        BY <1>0, <3>2, StateFields DEF Resets, TypeOK
    <3>3. ASSUME NEW was_error \in BOOLEAN, on_task_exit(t, was_error)
          PROVE  state'[t] \in States(t) /\ frames' \in [Tasks -> 0 .. FrameLimit]
      <4>1. CASE Retire(t)
          BY <1>0, <4>1, StateFields DEF Retire, TypeOK
      <4>2. CASE Restart(t)
          BY <1>0, <4>2, StateFields DEF Restart, TypeOK
      <4> QED BY <3>3, <4>1, <4>2 DEF on_task_exit, Disable
    <3> QED BY <1>6, <3>1, <3>2, <3>3 DEF dispatch_one
  <2>5. \A u \in Tasks : state'[u] \in States(u)
      BY <2>3, <2>4 DEF TypeOK
  <2> QED BY <1>0, <2>1, <2>2, <2>3, <2>4, <2>5 DEF TypeOK
<1> QED BY <1>1, <1>2, <1>3, <1>4, <1>5, <1>6 DEF Next

\* Types, and with them the bounds on the queue, the delays, the frames and the
\* time of a dispatch, hold in every reachable state.
THEOREM TypeTheorem == Spec => []TypeOK
<1>1. Init => TypeOK
  <2> SUFFICES ASSUME Init PROVE TypeOK
      OBVIOUS
  <2>1. /\ 1 \in Tasks /\ 0 \in 0 .. MaxRun /\ 0 \in 0 .. FrameLimit
        /\ 0 <= MaxEventQueue
      BY RunTasksAssumption DEF Tasks
  <2>2. << >> \in Seq(Events) /\ << >> \in Seq(0 .. Oldest) /\ Len(<< >>) = 0
      OBVIOUS
  <2>3. \A t \in Tasks : state[t] \in States(t)
      BY StateFields DEF Init
  <2> QED BY <2>1, <2>2, <2>3 DEF Init, TypeOK
<1>2. IInv /\ HistoryInv' /\ TypeOK /\ [Next]_vars => TypeOK'
    BY TypeStep
<1> QED BY <1>1, <1>2, IInvTheorem, HistoryTheorem, PTL DEF Spec
=============================================================================
