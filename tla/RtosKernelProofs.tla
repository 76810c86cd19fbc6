-------------------------- MODULE RtosKernelProofs --------------------------
(***************************************************************************)
(* For every number of tasks, every restart budget, every set of events    *)
(* and payloads and every clock: the microkernel's invariants, and that it *)
(* implements the cooperative scheduler of fixed priority.                 *)
(***************************************************************************)
EXTENDS RtosKernel, TLAPS

States == [tag : Tags, v : Nat]

USE DEF Tasks, Unlimited, WakeReasons, Tags, States

-----------------------------------------------------------------------------
(***************************************************************************)
(* The constructors of task states, and what an iteration does to a state  *)
(* before it dispatches: it keeps the states of finished and ready tasks,  *)
(* and moves blocked ones to ready or not at all.                          *)
(***************************************************************************)
LEMMA Constructors ==
    /\ \A r \in WakeReasons : Ready(r) \in States /\ IsReady(Ready(r))
                              /\ Ready(r) # Finished
    /\ Finished \in States /\ ~IsReady(Finished)
    /\ \A at \in Nat : /\ SleepingUntil(at) \in States
                       /\ ~IsReady(SleepingUntil(at))
                       /\ SleepingUntil(at) # Finished
    /\ \A e \in Nat : /\ WaitingFor(e) \in States
                      /\ ~IsReady(WaitingFor(e))
                      /\ WaitingFor(e) # Finished
BY DEF Ready, Finished, SleepingUntil, WaitingFor, IsReady

LEMMA Casts ==
    ASSUME NEW p \in Int
    PROVE  as_u64(p) \in Nat /\ as_u8(p) \in Nat
<1>1. Far \in Nat
  BY RtosAssumption DEF Far
<1>2. as_u8(p) \in Nat
  BY DEF as_u8
<1> QED
  BY <1>1, <1>2 DEF as_u64

LEMMA PromotedState ==
    ASSUME NEW s \in States, s.tag = "Finished" => s = Finished
    PROVE  /\ Promoted(s) \in States
           /\ Promoted(s).tag = "Finished" => Promoted(s) = Finished
           /\ Promoted(s) = Finished <=> s = Finished
           /\ IsReady(s) => Promoted(s) = s
           /\ ~IsReady(Promoted(s)) => Promoted(s) = s
           /\ Promoted(s).tag = "SleepingUntil" => Promoted(s) = s
BY DEF Promoted, Due, Ready, IsReady, Finished

LEMMA RefreshedStates ==
    ASSUME TypeOK
    PROVE  /\ Refreshed \in [Tasks -> States]
           /\ \A t \in Tasks :
                 /\ Refreshed[t].tag = "Finished" => Refreshed[t] = Finished
                 /\ Refreshed[t] = Finished <=> state[t] = Finished
                 /\ IsReady(state[t]) => Refreshed[t] = state[t]
                 /\ ~IsReady(Refreshed[t]) => Refreshed[t] = state[t]
<1> SUFFICES ASSUME NEW t \in Tasks
             PROVE  /\ Promoted(state[t]) \in States
                    /\ Promoted(state[t]).tag = "Finished" =>
                           Promoted(state[t]) = Finished
                    /\ Promoted(state[t]) = Finished <=> state[t] = Finished
                    /\ IsReady(state[t]) => Promoted(state[t]) = state[t]
                    /\ ~IsReady(Promoted(state[t])) =>
                           Promoted(state[t]) = state[t]
  BY DEF Refreshed
<1>1. state[t] \in States /\ (state[t].tag = "Finished" => state[t] = Finished)
  BY DEF TypeOK
<1> QED
  BY <1>1, PromotedState

-----------------------------------------------------------------------------
(***************************************************************************)
(* What a dispatch does: the chosen task was ready, and gets a new state   *)
(* that suits its machine; the others keep theirs up to the refresh.       *)
(***************************************************************************)
Suits(s, start, machine) ==
    s # Finished => machine = IF start THEN "Suspended" ELSE "Idle"

LEMMA DispatchEffect ==
    ASSUME TypeOK, NEW i \in Tasks, dispatch(i)
    PROVE  \E s \in States, machine \in {"Idle", "Suspended", "Failed"},
              start \in BOOLEAN :
              /\ s.tag = "Finished" => s = Finished
              /\ Suits(s, start, machine)
              /\ state' = [Refreshed EXCEPT ![i] = s]
              /\ vm' = [vm EXCEPT ![i] = machine]
              /\ started' = [started EXCEPT ![i] = start]
<1>1. CASE Yielded(i)
  <2>1. PICK p \in Payloads :
          \E s \in {SleepingUntil(as_u64(p)), Ready("Timer"),
                    WaitingFor(as_u8(p)), Finished} :
              Settled(i, s, "Suspended")
    BY <1>1 DEF Yielded
  <2>2. PICK s \in {SleepingUntil(as_u64(p)), Ready("Timer"),
                    WaitingFor(as_u8(p)), Finished} :
              Settled(i, s, "Suspended")
    BY <2>1
  <2>3. as_u64(p) \in Nat /\ as_u8(p) \in Nat
    BY Casts, RtosAssumption
  <2>4. s \in States /\ (s.tag = "Finished" => s = Finished)
    BY <2>2, <2>3 DEF SleepingUntil, Ready, WaitingFor, Finished
  <2> QED
    BY <1>1, <2>2, <2>4 DEF Yielded, Settled, Suits
<1>2. CASE WrapsAround(i)
  BY <1>2, Constructors DEF WrapsAround, Settled, Suits, Ready
<1>3. CASE Finishes(i)
  BY <1>3, Constructors DEF Finishes, Settled, Suits
<1>4. CASE Restarts(i)
  BY <1>4, Constructors DEF Restarts, Settled, Suits, Ready
<1>5. CASE GivesUp(i)
  BY <1>5, Constructors DEF GivesUp, Settled, Suits
<1> QED
  BY <1>1, <1>2, <1>3, <1>4, <1>5 DEF dispatch

LEMMA DispatchCounts ==
    ASSUME TypeOK, NEW i \in Tasks, dispatch(i)
    PROVE  /\ restart_count' \in [Tasks -> Nat]
           /\ \A t \in Tasks : restart_count'[t] <= MaxRestarts[t]
           /\ UNCHANGED <<kernel, stop_at, wake_at>>
<1>1. /\ restart_count \in [Tasks -> Nat]
      /\ \A t \in Tasks : restart_count[t] <= MaxRestarts[t]
      /\ MaxRestarts \in [Tasks -> Nat]
  BY RtosAssumption DEF TypeOK
<1>2. CASE Restarts(i)
  BY <1>1, <1>2 DEF Restarts, Settled
<1>3. CASE Yielded(i) \/ WrapsAround(i) \/ Finishes(i) \/ GivesUp(i)
  BY <1>1, <1>3 DEF Yielded, WrapsAround, Finishes, GivesUp, Settled
<1> QED
  BY <1>2, <1>3 DEF dispatch

LEMMA IterationKeeps ==
    ASSUME TypeOK, Iteration
    PROVE  /\ pending_events' = {} /\ next_due' \in Nat
           /\ UNCHANGED <<ticking, clock>>
BY RtosAssumption DEF Iteration, TypeOK

-----------------------------------------------------------------------------
(***************************************************************************)
(* The invariants.                                                         *)
(***************************************************************************)
LEMMA TypeStep == TypeOK /\ [Next]_vars => TypeOK'
<1> SUFFICES ASSUME TypeOK, [Next]_vars PROVE TypeOK'
  OBVIOUS
<1> USE RtosAssumption
<1>1. CASE Tick
  BY <1>1, SMTT(30) DEF Tick, TypeOK, tVars, kVars
<1>2. CASE \E e \in Events : post_event(e)
  BY <1>2 DEF post_event, TypeOK, tVars
<1>3. CASE enable_event_tick
  BY <1>3 DEF enable_event_tick, TypeOK, tVars
<1>4. CASE \E ms \in Budgets : run_until(ms)
  BY <1>4, SMTT(30) DEF run_until, TypeOK, tVars
<1>5. CASE sleep_until
  BY <1>5 DEF sleep_until, TypeOK, tVars
<1>6. ASSUME NEW i \in Tasks, dispatch(i) PROVE TypeOK'
  <2>1. PICK s \in States, machine \in {"Idle", "Suspended", "Failed"},
             start \in BOOLEAN :
              /\ s.tag = "Finished" => s = Finished
              /\ state' = [Refreshed EXCEPT ![i] = s]
              /\ vm' = [vm EXCEPT ![i] = machine]
              /\ started' = [started EXCEPT ![i] = start]
    BY <1>6, DispatchEffect
  <2>2. /\ state' \in [Tasks -> States]
        /\ \A t \in Tasks : state'[t].tag = "Finished" => state'[t] = Finished
    BY <2>1, RefreshedStates
  <2>3. /\ vm' \in [Tasks -> {"Idle", "Suspended", "Failed"}]
        /\ started' \in [Tasks -> BOOLEAN]
    BY <2>1 DEF TypeOK
  <2>4. /\ pending_events' = {} /\ next_due' \in Nat
        /\ UNCHANGED <<ticking, clock>>
    BY <1>6, IterationKeeps DEF dispatch
  <2>5. /\ restart_count' \in [Tasks -> Nat]
        /\ \A t \in Tasks : restart_count'[t] <= MaxRestarts[t]
        /\ UNCHANGED <<kernel, stop_at, wake_at>>
    BY <1>6, DispatchCounts, Zenon
  <2>6. /\ ticking' \in BOOLEAN /\ clock' \in Nat /\ wake_at' \in Nat
        /\ stop_at' \in Nat \cup {Unlimited}
        /\ kernel' \in {"Stopped", "Running", "Asleep"}
    BY <2>4, <2>5, Zenon DEF TypeOK
  <2>7. pending_events' \subseteq Events
    BY <2>4
  <2> QED BY <2>2, <2>3, <2>4, <2>5, <2>6, <2>7 DEF TypeOK, States, Finished
<1>7. CASE Sleeps
  <2>1. /\ pending_events' = {} /\ next_due' \in Nat
        /\ UNCHANGED <<ticking, clock>>
    BY <1>7, IterationKeeps DEF Sleeps, Idles
  <2>2. Deadlines \subseteq Nat
    BY <2>1, RefreshedStates DEF Deadlines
  <2> QED
    BY <1>7, <2>1, <2>2, RefreshedStates DEF Sleeps, Idles, TypeOK, Finished
<1>8. CASE Returns
  <2>1. /\ pending_events' = {} /\ next_due' \in Nat
        /\ UNCHANGED <<ticking, clock>>
    BY <1>8, IterationKeeps DEF Returns, Idles
  <2> QED
    BY <1>8, <2>1, RefreshedStates DEF Returns, Idles, TypeOK, Finished
<1>9. CASE Stops
  BY <1>9 DEF Stops, TypeOK, tVars
<1>10. CASE UNCHANGED vars
  BY <1>10 DEF vars, tVars, kVars, TypeOK
<1> QED
  BY <1>1, <1>2, <1>3, <1>4, <1>5, <1>6, <1>7, <1>8, <1>9, <1>10
  DEF Next, Kernel

LEMMA MachineStep ==
    TypeOK /\ DispatchMatchesMachine /\ [Next]_vars => DispatchMatchesMachine'
<1> SUFFICES ASSUME TypeOK, DispatchMatchesMachine, [Next]_vars
             PROVE  DispatchMatchesMachine'
  OBVIOUS
<1>1. ASSUME NEW i \in Tasks, dispatch(i) PROVE DispatchMatchesMachine'
  <2>1. PICK s \in States, machine \in {"Idle", "Suspended", "Failed"},
             start \in BOOLEAN :
              /\ Suits(s, start, machine)
              /\ state' = [Refreshed EXCEPT ![i] = s]
              /\ vm' = [vm EXCEPT ![i] = machine]
              /\ started' = [started EXCEPT ![i] = start]
    BY <1>1, DispatchEffect
  <2> QED
    BY <2>1, RefreshedStates DEF DispatchMatchesMachine, Runs, Suits, TypeOK
<1>2. CASE Sleeps \/ Returns
  BY <1>2, RefreshedStates DEF Sleeps, Returns, Idles, DispatchMatchesMachine, Runs
<1>3. CASE \/ Tick
           \/ \E e \in Events : post_event(e)
           \/ enable_event_tick
           \/ \E ms \in Budgets : run_until(ms)
           \/ sleep_until \/ Stops \/ UNCHANGED vars
  <2>1. UNCHANGED tVars
    BY <1>3 DEF Tick, post_event, enable_event_tick, run_until, sleep_until,
                Stops, vars
  <2> QED
    BY <2>1 DEF tVars, DispatchMatchesMachine, Runs
<1> QED
  BY <1>1, <1>2, <1>3 DEF Next, Kernel

LEMMA SleepStep ==
    TypeOK /\ SleepJustified /\ [Next]_vars => SleepJustified'
<1> SUFFICES ASSUME TypeOK, SleepJustified, [Next]_vars, kernel' = "Asleep"
             PROVE  /\ pending_events' = {}
                    /\ ticking' => wake_at' <= next_due'
                    /\ \A t \in Tasks :
                          /\ ~IsReady(state'[t])
                          /\ state'[t].tag = "SleepingUntil" =>
                                 wake_at' <= state'[t].v
  BY DEF SleepJustified, IsReady
<1>1. CASE Sleeps
  <2>1. PICK at \in Deadlines : earliest_wakeup(at) /\ wake_at' = at
    BY <1>1 DEF Sleeps
  <2>2. \A d \in Deadlines : wake_at' <= d
    BY <2>1 DEF earliest_wakeup
  <2>3. ticking' => next_due' \in Deadlines
    BY <1>1, IterationKeeps DEF Sleeps, Idles, Deadlines
  <2>4. \A t \in Tasks : Refreshed[t].tag = "SleepingUntil" =>
                             Refreshed[t].v \in Deadlines
    BY DEF Deadlines
  <2>5. state' = Refreshed /\ \A t \in Tasks : ~IsReady(Refreshed[t])
    BY <1>1 DEF Sleeps, Idles
  <2>6. pending_events' = {}
    BY <1>1, IterationKeeps DEF Sleeps, Idles
  <2> QED
    BY <2>2, <2>3, <2>4, <2>5, <2>6
<1>2. CASE Tick \/ UNCHANGED vars
  BY <1>2 DEF Tick, vars, tVars, kVars, SleepJustified
<1>3. ASSUME NEW i \in Tasks, dispatch(i) PROVE FALSE
  BY <1>3, DispatchCounts DEF dispatch, Iteration
<1>4. CASE \/ \E e \in Events : post_event(e)
           \/ enable_event_tick
           \/ \E ms \in Budgets : run_until(ms)
           \/ sleep_until \/ Returns \/ Stops
  BY <1>4 DEF post_event, enable_event_tick, run_until, sleep_until, Returns,
              Stops
<1> QED
  BY <1>1, <1>2, <1>3, <1>4 DEF Next, Kernel

Invariant == TypeOK /\ DispatchMatchesMachine /\ SleepJustified

LEMMA InitInvariant == Init => Invariant
<1> SUFFICES ASSUME Init PROVE Invariant
  OBVIOUS
<1>1. TypeOK
  <2>1. /\ state \in [Tasks -> States]
        /\ \A t \in Tasks : state[t].tag = "Finished" => state[t] = Finished
    BY DEF Init, Ready
  <2>2. /\ restart_count \in [Tasks -> Nat]
        /\ \A t \in Tasks : restart_count[t] <= MaxRestarts[t]
    BY RtosAssumption DEF Init
  <2>3. started \in [Tasks -> BOOLEAN]
    BY DEF Init
  <2>4. vm \in [Tasks -> {"Idle", "Suspended", "Failed"}]
    BY DEF Init
  <2> QED
    BY <2>1, <2>2, <2>3, <2>4 DEF Init, TypeOK
<1>2. DispatchMatchesMachine
  BY DEF Init, DispatchMatchesMachine, Runs
<1>3. SleepJustified
  BY DEF Init, SleepJustified
<1> QED
  BY <1>1, <1>2, <1>3 DEF Invariant

LEMMA Safety == Spec => []Invariant
<1>1. Invariant /\ [Next]_vars => Invariant'
  BY TypeStep, MachineStep, SleepStep DEF Invariant
<1> QED
  BY InitInvariant, <1>1, PTL DEF Spec

\* The task states, the counters and the queue keep their types, and no task is
\* restarted more often than max_restarts, in every run of the kernel.
THEOREM TypeTheorem == Spec => []TypeOK
<1>1. Invariant => TypeOK
  BY DEF Invariant
<1> QED
  BY Safety, <1>1, PTL

\* The dispatch loop calls and resumes a task's machine only as that machine
\* allows, restarts after an error included.
THEOREM DispatchMatchesMachineTheorem == Spec => []DispatchMatchesMachine
<1>1. Invariant => DispatchMatchesMachine
  BY DEF Invariant
<1> QED
  BY Safety, <1>1, PTL

\* While sleep_until pends, no task is ready, no event is queued, and the wake-up
\* is no later than any deadline.
THEOREM SleepJustifiedTheorem == Spec => []SleepJustified
<1>1. Invariant => SleepJustified
  BY DEF Invariant
<1> QED
  BY Safety, <1>1, PTL

-----------------------------------------------------------------------------
(***************************************************************************)
(* The refinement.  An iteration wakes the tasks it promotes; they were    *)
(* blocked, and the runnable tasks after the refresh are those that were   *)
(* runnable and those it wakes.                                            *)
(***************************************************************************)
Promotes == {t \in Tasks : ~IsReady(state[t]) /\ IsReady(Refreshed[t])}

LEMMA Awakening ==
    ASSUME TypeOK
    PROVE  /\ Promotes \in SUBSET Coop!In("Blocked")
           /\ Coop!Woken(Promotes) = [t \in Tasks |-> PhaseOf(Refreshed[t])]
           /\ Coop!In("Runnable") \cup Promotes =
                  {t \in Tasks : IsReady(Refreshed[t])}
<1>1. \A t \in Tasks : t \in Promotes => PhaseOf(state[t]) = "Blocked"
  BY RefreshedStates, Constructors DEF Promotes, PhaseOf
<1>2. \A t \in Tasks :
        (IF t \in Promotes THEN "Runnable" ELSE PhaseOf(state[t]))
            = PhaseOf(Refreshed[t])
  BY RefreshedStates DEF Promotes, PhaseOf
<1>3. \A t \in Tasks : PhaseOf(state[t]) = "Runnable" <=> IsReady(state[t])
  BY DEF PhaseOf
<1> QED
  BY <1>1, <1>2, <1>3, RefreshedStates
  DEF Promotes, Coop!In, Coop!Woken

LEMMA DispatchPhases ==
    ASSUME TypeOK, NEW i \in Tasks, NEW s \in States,
           state' = [Refreshed EXCEPT ![i] = s]
    PROVE  [t \in Tasks |-> PhaseOf(state[t])]'
               = [Coop!Woken(Promotes) EXCEPT ![i] = PhaseOf(s)]
<1>1. Refreshed \in [Tasks -> States]
  BY RefreshedStates
<1>2. \A t \in Tasks : state'[t] = IF t = i THEN s ELSE Refreshed[t]
  BY <1>1
<1>3. [t \in Tasks |-> PhaseOf(state[t])]'
        = [t \in Tasks |-> IF t = i THEN PhaseOf(s) ELSE PhaseOf(Refreshed[t])]
  BY <1>2 DEF PhaseOf, IsReady, Finished
<1> HIDE DEF Promotes
<1>4. Coop!Woken(Promotes) = [t \in Tasks |-> PhaseOf(Refreshed[t])]
  BY Awakening
<1> QED
  BY <1>3, <1>4

LEMMA DispatchMachines ==
    ASSUME TypeOK, NEW i \in Tasks, NEW machine,
           vm' = [vm EXCEPT ![i] = machine]
    PROVE  [t \in Tasks |-> vm[t] # "Suspended"]'
               = [[t \in Tasks |-> vm[t] # "Suspended"] EXCEPT
                      ![i] = (machine # "Suspended")]
BY DEF TypeOK

LEMMA DispatchRefines ==
    ASSUME TypeOK, NEW i \in Tasks, dispatch(i)
    PROVE  Coop!ANext
<1> DEFINE S == Promotes
<1>1. S \in SUBSET Coop!In("Blocked")
  BY Awakening
<1>2. Coop!First(Coop!In("Runnable") \cup S, i)
  BY Awakening DEF Coop!First, dispatch, Chosen
<1>3. ASSUME Yielded(i) \/ WrapsAround(i) \/ Finishes(i)
      PROVE  Coop!Slice(S, i)
  <2>1. PICK s \in States, machine \in {"Idle", "Suspended", "Failed"} :
          /\ PhaseOf(s) # "Done" => machine = "Suspended"
          /\ state' = [Refreshed EXCEPT ![i] = s]
          /\ vm' = [vm EXCEPT ![i] = machine]
    <3>1. CASE Yielded(i)
      <4>1. PICK p \in Payloads :
              \E s \in {SleepingUntil(as_u64(p)), Ready("Timer"),
                        WaitingFor(as_u8(p)), Finished} :
                  Settled(i, s, "Suspended")
        BY <3>1 DEF Yielded
      <4>2. as_u64(p) \in Nat /\ as_u8(p) \in Nat
        BY Casts, RtosAssumption
      <4> QED
        BY <4>1, <4>2, Constructors DEF Settled
    <3>2. CASE WrapsAround(i)
      BY <3>2, Constructors DEF WrapsAround, Settled
    <3>3. CASE Finishes(i)
      BY <3>3, Constructors DEF Finishes, Settled, PhaseOf
    <3> QED
      BY <1>3, <3>1, <3>2, <3>3
  <2>2. PhaseOf(s) \in {"Runnable", "Blocked", "Done"}
    BY DEF PhaseOf
  <2>3. restart_count' = restart_count
    BY <1>3 DEF Yielded, WrapsAround, Finishes
  <2> QED
    BY <2>1, <2>2, <2>3, DispatchPhases, DispatchMachines
    DEF Coop!Slice, Coop!Phases
<1>4. ASSUME Restarts(i) PROVE Coop!Fail(S, i)
  <2>1. /\ state' = [Refreshed EXCEPT ![i] = Ready("FirstRun")]
        /\ vm' = [vm EXCEPT ![i] = "Idle"]
    BY <1>4 DEF Restarts, Settled
  <2>2. /\ Ready("FirstRun") \in States
        /\ PhaseOf(Ready("FirstRun")) = "Runnable"
    BY Constructors DEF PhaseOf
  <2>3. /\ MaxRestarts[i] - restart_count[i] > 0
        /\ [t \in Tasks |-> MaxRestarts[t] - restart_count[t]]'
               = [[t \in Tasks |-> MaxRestarts[t] - restart_count[t]] EXCEPT
                      ![i] = @ - 1]
    <3>1. /\ restart_count[i] < MaxRestarts[i]
          /\ restart_count' = [restart_count EXCEPT ![i] = @ + 1]
      BY <1>4 DEF Restarts
    <3>2. /\ restart_count \in [Tasks -> Nat]
          /\ MaxRestarts \in [Tasks -> Nat]
      BY RtosAssumption DEF TypeOK
    <3>3. \A t \in Tasks : MaxRestarts[t] - restart_count'[t] =
            IF t = i THEN (MaxRestarts[t] - restart_count[t]) - 1
                     ELSE MaxRestarts[t] - restart_count[t]
      BY <3>1, <3>2
    <3> DEFINE L == [t \in Tasks |-> MaxRestarts[t] - restart_count[t]]
    <3>4. L' = [t \in Tasks |-> MaxRestarts[t] - restart_count'[t]]
      OBVIOUS
    <3>5. L' = [t \in Tasks |-> IF t = i THEN L[i] - 1 ELSE L[t]]
      BY <3>3, <3>4
    <3>6. L' = [L EXCEPT ![i] = @ - 1]
      BY <3>5
    <3> QED
      BY <3>1, <3>2, <3>6
  <2>4. [t \in Tasks |-> PhaseOf(state[t])]'
          = [Coop!Woken(S) EXCEPT ![i] = "Runnable"]
    BY <2>1, <2>2, DispatchPhases
  <2>5. [t \in Tasks |-> vm[t] # "Suspended"]'
          = [[t \in Tasks |-> vm[t] # "Suspended"] EXCEPT ![i] = TRUE]
    <3>1. [t \in Tasks |-> vm[t] # "Suspended"]'
            = [[t \in Tasks |-> vm[t] # "Suspended"] EXCEPT
                   ![i] = ("Idle" # "Suspended")]
      BY <2>1, DispatchMachines
    <3>2. ("Idle" # "Suspended") = TRUE
      OBVIOUS
    <3> QED
      BY <3>1, <3>2, Zenon
  <2>6. [t \in Tasks |-> MaxRestarts[t] - restart_count[t]][i] > 0
    BY <2>3
  <2> QED
    BY <2>3, <2>4, <2>5, <2>6 DEF Coop!Fail
<1>5. ASSUME GivesUp(i) PROVE Coop!Fail(S, i)
  <2>1. /\ state' = [Refreshed EXCEPT ![i] = Finished]
        /\ vm' = [vm EXCEPT ![i] = "Failed"]
        /\ restart_count' = restart_count
    BY <1>5 DEF GivesUp, Settled
  <2>2. Finished \in States /\ PhaseOf(Finished) = "Done"
    BY Constructors DEF PhaseOf
  <2>3. MaxRestarts[i] - restart_count[i] = 0
    BY <1>5, RtosAssumption DEF GivesUp, TypeOK
  <2>4. [t \in Tasks |-> PhaseOf(state[t])]'
          = [Coop!Woken(S) EXCEPT ![i] = "Done"]
    BY <2>1, <2>2, DispatchPhases
  <2>5. [t \in Tasks |-> vm[t] # "Suspended"]'
          = [[t \in Tasks |-> vm[t] # "Suspended"] EXCEPT ![i] = TRUE]
    <3>1. [t \in Tasks |-> vm[t] # "Suspended"]'
            = [[t \in Tasks |-> vm[t] # "Suspended"] EXCEPT
                   ![i] = ("Failed" # "Suspended")]
      BY <2>1, DispatchMachines
    <3>2. ("Failed" # "Suspended") = TRUE
      OBVIOUS
    <3> QED
      BY <3>1, <3>2, Zenon
  <2>6. [t \in Tasks |-> MaxRestarts[t] - restart_count[t]][i] = 0
    BY <2>3
  <2>7. [t \in Tasks |-> MaxRestarts[t] - restart_count[t]]'
          = [t \in Tasks |-> MaxRestarts[t] - restart_count[t]]
    BY <2>1
  <2> QED
    BY <2>4, <2>5, <2>6, <2>7 DEF Coop!Fail
<1> QED
  BY <1>1, <1>2, <1>3, <1>4, <1>5 DEF Coop!ANext, dispatch

LEMMA RefinementStep == TypeOK /\ [Next]_vars => [Coop!ANext]_(Coop!aVars)
<1> SUFFICES ASSUME TypeOK, [Next]_vars PROVE [Coop!ANext]_(Coop!aVars)
  OBVIOUS
<1>1. ASSUME NEW i \in Tasks, dispatch(i) PROVE Coop!ANext
  BY <1>1, DispatchRefines
<1>2. CASE Sleeps \/ Returns
  <2>1. state' = Refreshed /\ UNCHANGED <<restart_count, vm>>
    BY <1>2 DEF Sleeps, Returns, Idles
  <2>2. Coop!Wake(Promotes)
    BY <2>1, Awakening DEF Coop!Wake
  <2> QED
    BY <2>2, Awakening DEF Coop!ANext
<1>3. CASE \/ Tick
           \/ \E e \in Events : post_event(e)
           \/ enable_event_tick
           \/ \E ms \in Budgets : run_until(ms)
           \/ sleep_until \/ Stops \/ UNCHANGED vars
  <2>1. UNCHANGED <<state, restart_count, vm>>
    BY <1>3 DEF Tick, post_event, enable_event_tick, run_until, sleep_until,
                Stops, vars, tVars
  <2> QED
    BY <2>1 DEF Coop!aVars
<1> QED
  BY <1>1, <1>2, <1>3 DEF Next, Kernel

\* run_until and dispatch implement the cooperative scheduler: fixed priority by
\* index, no preemption, a restart paid for every failed slice and done for good.
THEOREM RefinementTheorem == Spec => Refinement
<1>1. Init => Coop!AInit
  <2> SUFFICES ASSUME Init PROVE Coop!AInit
    OBVIOUS
  <2>1. [t \in Tasks |-> PhaseOf(state[t])] = [t \in Tasks |-> "Runnable"]
    BY Constructors DEF Init, PhaseOf
  <2>2. [t \in Tasks |-> vm[t] # "Suspended"] = [t \in Tasks |-> TRUE]
    BY DEF Init
  <2>3. [t \in Tasks |-> MaxRestarts[t] - restart_count[t]] = MaxRestarts
    BY RtosAssumption DEF Init
  <2> QED
    BY <2>1, <2>2, <2>3 DEF Coop!AInit
<1> QED
  BY <1>1, RefinementStep, TypeTheorem, PTL DEF Spec, Refinement, Coop!ASpec
=============================================================================
