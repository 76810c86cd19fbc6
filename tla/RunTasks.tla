------------------------------ MODULE RunTasks ------------------------------
(***************************************************************************)
(* The cooperative scheduler of `keleusma run-tasks`                       *)
(* (keleusma-cli/src/runtasks/scheduler.rs).                               *)
(*                                                                         *)
(* One thread runs dispatch_loop.  An iteration reads the clock and the    *)
(* signal flags, re-reads the manifest if asked, wakes tasks, drains the   *)
(* event queue and picks one ready task (Iterate); the task then runs to   *)
(* its next yield (Dispatch), or, with nothing ready, the thread sleeps    *)
(* (WakeUp).  Signals set their flags at any moment and time passes at any *)
(* moment.                                                                 *)
(*                                                                         *)
(* Time is relative: a deadline is the number of milliseconds left until   *)
(* it, 0 once elapsed, and a restart is remembered by its age.  What a     *)
(* script computes is abstracted to what it may post and yield; its VM to  *)
(* the number of invocations of `loop main` on its frame stack.            *)
(***************************************************************************)
EXTENDS Integers, Sequences, SequencesExt, FiniteSetsExt

CONSTANTS
    NumTasks,       \* tasks of the manifest, in manifest order
    Priority,       \* [Tasks -> Int], lower runs first
    Period,         \* [Tasks -> Nat], `period` of each task in ms
    Manifests,      \* the reloadable settings a manifest may hold
    Events,         \* event ids
    Shutdown, Reload,   \* shutdown_requested and reload_requested
    Signals,        \* the signals that may arrive
    MaxEventQueue,  \* MAX_EVENT_QUEUE
    Posts,          \* sequences of events a task may post in one dispatch
    MaxWait,        \* bound on the time a Wait asks for
    MaxRun,         \* bound on the time one dispatch takes (the WCET to yield)
    Oldest,         \* ages are counted up to here, beyond every restart window
    FrameLimit      \* invocations of `loop main` the task's arena can hold

Tasks == 1 .. NumTasks
Terminating == {"SIGINT", "SIGTERM"}
Policies == {"never", "on_error", "always"}
TaskConfigs == [restart: Policies, limit: Nat \ {0}, window: Nat]

ASSUME RunTasksAssumption ==
    /\ NumTasks \in Nat \ {0}
    /\ Priority \in [Tasks -> Int]
    /\ Period \in [Tasks -> Nat]
    /\ Manifests \subseteq [tick: Nat, grace: Nat, task: [Tasks -> TaskConfigs]]
    /\ Manifests # {}
    /\ Shutdown \in Events /\ Reload \in Events
    /\ Signals \subseteq Terminating \cup {"SIGHUP"}
    /\ MaxEventQueue \in Nat \ {0}
    /\ Posts \subseteq Seq(Events)
    /\ MaxWait \in Nat /\ MaxRun \in Nat
    /\ Oldest \in Nat
    /\ \A m \in Manifests : \A t \in Tasks : m.task[t].window < Oldest
    /\ FrameLimit \in Nat \ {0}

VARIABLES
    state,          \* TaskState of each task
    reason,         \* last_wakeup_reason
    disabled,
    history,        \* restart_history, as ages
    frames,         \* invocations of main on the task's VM, 0 for a fresh VM
    event_id,       \* EventAtomics.id, what kernel::last_event_id answers
    manifest,       \* the scheduler section, and the tasks' restart settings
    queue,          \* event_queue
    pending,        \* the signal flags that are set
    deadline,       \* shutdown_deadline
    trigger,        \* triggering_signal
    pc, current,    \* where the loop is, and the task being dispatched
    lag,            \* time since the iteration read the clock
    nap,            \* rest of the thread's sleep
    restarted       \* auxiliary: ages of the restarts that succeeded

taskVars == <<state, reason, disabled, history, frames, event_id>>
shutdownVars == <<deadline, trigger>>
loopVars == <<pc, current, lag, nap>>
vars == <<taskVars, manifest, queue, pending, shutdownVars, loopVars, restarted>>

NotStarted == [kind |-> "not_started"]
Ready == [kind |-> "ready"]
\* left is counted on dispatch_loop's clock.
SleepingUntil(left) == [kind |-> "sleeping", left |-> left]
WaitingForEvent(e) == [kind |-> "waiting", event |-> e]
Finished == [kind |-> "finished"]

Never == -1     \* a deadline past every time the runner reaches
None == -1      \* no shutdown deadline
NoEvent == "0"  \* the initial EventAtomics.id

Init ==
    /\ state = [t \in Tasks |-> NotStarted]
    /\ reason = [t \in Tasks |-> "first"]
    /\ disabled = [t \in Tasks |-> FALSE]
    /\ history = [t \in Tasks |-> << >>]
    /\ frames = [t \in Tasks |-> 0]
    /\ event_id = [t \in Tasks |-> NoEvent]
    /\ manifest \in Manifests
    /\ queue = << >>
    /\ pending = {}
    /\ deadline = None
    /\ trigger = "none"
    /\ pc = "top" /\ current = 1 /\ lag = 0 /\ nap = 0
    /\ restarted = [t \in Tasks |-> << >>]

----------------------------------------------------------------------------
(* The environment.                                                        *)

\* The handlers installed by SignalFlags::install set a flag and return.
Signal ==
    /\ pc # "exited"
    /\ \E s \in Signals : pending' = pending \cup {s}
    /\ UNCHANGED <<taskVars, manifest, queue, shutdownVars, loopVars, restarted>>

Left(d) == IF d > 0 THEN d - 1 ELSE d

Aged(ages) == [k \in DOMAIN ages |-> IF ages[k] < Oldest THEN ages[k] + 1 ELSE Oldest]

\* What is left of a queue of ages, oldest first, once expired entries have been
\* popped from its front until one is met that is not older than w.
Within(ages, w) ==
    LET live == {k \in DOMAIN ages : ages[k] <= w}
    IN  IF live = {} THEN << >> ELSE SubSeq(ages, Min(live), Len(ages))

\* A millisecond passes.  A dispatch ends within MaxRun.
Tick ==
    /\ pc # "exited"
    /\ pc = "dispatch" => lag < MaxRun
    /\ lag' = IF pc = "dispatch" THEN lag + 1 ELSE lag
    /\ nap' = Left(nap)
    /\ deadline' = Left(deadline)
    /\ state' = [t \in Tasks |-> IF state[t].kind = "sleeping"
                                 THEN SleepingUntil(Left(state[t].left))
                                 ELSE state[t]]
    /\ history' = [t \in Tasks |-> Aged(history[t])]
    /\ restarted' = [t \in Tasks |-> Within(Aged(restarted[t]), Oldest - 1)]
    /\ UNCHANGED <<reason, disabled, frames, event_id, manifest, queue, pending,
                   trigger, pc, current>>

----------------------------------------------------------------------------
(* One iteration of dispatch_loop, up to the choice of a task.             *)

\* An event posted by the loop itself is dropped without a word when the
\* queue is full.
Posted(q, e) == IF Len(q) < MaxEventQueue THEN Append(q, e) ELSE q

\* The first SIGINT or SIGTERM starts the shutdown; later ones are swallowed.
ShutdownStarts_Again == pending \cap Terminating # {}
ShutdownStarts_TermOnly == "SIGTERM" \in pending /\ deadline = None
ShutdownStarts == pending \cap Terminating # {} /\ deadline = None

PollSignals ==
    /\ pending' = {}
    /\ trigger' = IF ~ShutdownStarts THEN trigger
                  ELSE IF "SIGINT" \in pending THEN "SIGINT" ELSE "SIGTERM"
    /\ deadline' = IF ShutdownStarts THEN manifest.grace ELSE deadline

\* The queue after the loop's own posts.
SignalledQueue ==
    LET q == IF ShutdownStarts THEN Posted(queue, Shutdown) ELSE queue
    IN  IF "SIGHUP" \in pending THEN Posted(q, Reload) ELSE q

\* SIGHUP re-reads the manifest: the scheduler section and the restart
\* settings of tasks matched by name are applied, everything else is deferred;
\* a manifest that does not parse changes nothing.
reload_manifest ==
    \/ /\ "SIGHUP" \in pending
       /\ manifest' \in Manifests
    \/ UNCHANGED manifest

\* Refresh of one task: deadlines, then drained events, then first starts.
Due_WhenIdle(t) == /\ state[t].kind = "sleeping" /\ state[t].left = 0
                   /\ \A u \in Tasks : state[u] # Ready
Due(t) == state[t].kind = "sleeping" /\ state[t].left = 0
Fired_FirstWaiter(t, q) == /\ state[t].kind = "waiting" /\ state[t].event \in ToSet(q)
                           /\ \A u \in 1 .. t - 1 : state[u] # state[t]
Fired(t, q) == state[t].kind = "waiting" /\ state[t].event \in ToSet(q)
Fresh_Finished(t) == state[t].kind \in {"not_started", "finished"} /\ ~disabled[t]
Fresh_Ready(t) == state[t].kind \in {"not_started", "ready"} /\ ~disabled[t]
Fresh(t) == state[t].kind = "not_started" /\ ~disabled[t]

Refreshed(q) ==
    [t \in Tasks |-> IF Due(t) \/ Fired(t, q) \/ Fresh(t) THEN Ready ELSE state[t]]

Refresh(q) ==
    /\ state' = Refreshed(q)
    /\ reason' = [t \in Tasks |-> IF Due(t) THEN "deadline"
                                  ELSE IF Fired(t, q) THEN "event"
                                  ELSE IF Fresh(t) THEN "first" ELSE reason[t]]
    /\ event_id' = [t \in Tasks |-> IF Fired(t, q) THEN state[t].event ELSE event_id[t]]
    /\ queue' = << >>

ReadySet_Stale(q) == {t \in Tasks : state[t] = Ready /\ ~disabled[t]}
ReadySet(q) == {t \in Tasks : Refreshed(q)[t] = Ready /\ ~disabled[t]}

\* Lowest priority value first, manifest order among equals.
Candidates(q) ==
    {t \in ReadySet(q) : \A u \in ReadySet(q) :
        \/ Priority[t] < Priority[u]
        \/ Priority[t] = Priority[u] /\ t <= u}

all_finished_OrWaiting(q) ==
    \A t \in Tasks : Refreshed(q)[t].kind \in {"finished", "waiting"} \/ disabled[t]

all_finished(q) == \A t \in Tasks : Refreshed(q)[t] = Finished \/ disabled[t]

Limits_Tick(q) == {manifest'.tick}

\* What limits the thread's sleep: the deadlines and the tick.
Limits(q) ==
    {manifest'.tick}
    \cup {Refreshed(q)[t].left : t \in {u \in Tasks :
            /\ ~disabled[u] /\ Refreshed(q)[u].kind = "sleeping"
            /\ Refreshed(q)[u].left # Never}}

Iterate ==
    /\ pc = "top"
    /\ PollSignals
    /\ reload_manifest
    /\ lag' = 0
    /\ LET q == SignalledQueue IN
       \/ /\ deadline' = 0
          /\ pc' = "exited"
          /\ queue' = q
          /\ UNCHANGED <<state, reason, event_id, current, nap>>
       \/ /\ deadline' # 0
          /\ Refresh(q)
          /\ \/ /\ ReadySet(q) # {}
                /\ current' \in Candidates(q)
                /\ pc' = "dispatch"
                /\ UNCHANGED nap
             \/ /\ ReadySet(q) = {} /\ all_finished(q)
                /\ pc' = "exited"
                /\ UNCHANGED <<current, nap>>
             \/ /\ ReadySet(q) = {} /\ ~all_finished(q)
                /\ pc' = "sleep"
                /\ nap' \in Limits(q) /\ \A n \in Limits(q) : nap' <= n
                /\ UNCHANGED current
    /\ UNCHANGED <<disabled, history, frames, restarted>>

WakeUp ==
    /\ pc = "sleep" /\ nap = 0
    /\ pc' = "top"
    /\ UNCHANGED <<taskVars, manifest, queue, pending, shutdownVars, current, lag, nap,
                   restarted>>

----------------------------------------------------------------------------
(* dispatch_one.                                                           *)

\* Mutant: kernel::post_event without its capacity check.
PostAll_Uncapped(posts) == queue' = queue \o posts

\* kernel::post_event drops what does not fit.
PostAll(posts) ==
    queue' = queue \o SubSeq(posts, 1, Min({Len(posts), MaxEventQueue - Len(queue)}))

\* A wakeup reason of "first" starts main with Vm::call, whatever is already on
\* the frame stack; any other reason resumes it.
Calls(t) == reason[t] = "first"

\* Whether the VM could run at all: a call needs room for a frame, a resume a
\* suspended invocation.
Enters(t) == IF Calls(t) THEN frames[t] < FrameLimit ELSE frames[t] > 0
Entered(t) == IF Calls(t) THEN frames[t] + 1 ELSE frames[t]

\* What a (reason, payload) tuple asks for; a Wait's payload is an absolute
\* time, so it may lie in the past, and a negative one becomes a deadline that
\* is never reached.  Any other reason or value finishes the task.
YieldTargets(t) ==
    {SleepingUntil(d) : d \in 0 .. MaxWait}
    \cup {SleepingUntil(Never)}
    \cup {WaitingForEvent(e) : e \in Events}
    \cup {Ready}
    \cup {SleepingUntil(Max({Period[t] - lag, 0}))}
    \cup {Finished}

\* The reason is left as it was: a later dispatch passes it again.
Yields(t) ==
    /\ Enters(t)
    /\ frames' = [frames EXCEPT ![t] = Entered(t)]
    /\ \E s \in YieldTargets(t) : state' = [state EXCEPT ![t] = s]
    /\ UNCHANGED <<reason, disabled, history, restarted>>

\* The end of the stream's iteration, reached only by a resumed task: a
\* `loop main` yields before it resets.
Resets(t) ==
    /\ Enters(t) /\ ~Calls(t)
    /\ state' = [state EXCEPT ![t] = Ready]
    /\ UNCHANGED <<reason, disabled, history, frames, restarted>>

ShouldRestart(t, was_error) ==
    \/ manifest.task[t].restart = "always"
    \/ manifest.task[t].restart = "on_error" /\ was_error

Recent_Exclusive(t) == Within(history[t], manifest.task[t].window - 1)
Recent(t) == Within(history[t], manifest.task[t].window)

Exhausted(t) == Len(Recent(t)) >= manifest.task[t].limit

\* The task never runs again.
Retire(t) ==
    /\ state' = [state EXCEPT ![t] = Finished]
    /\ UNCHANGED <<reason, frames, restarted>>

Disable(t) == Retire(t) /\ disabled' = [disabled EXCEPT ![t] = TRUE]

Restart_KeepsReason(t) ==
    /\ state' = [state EXCEPT ![t] = Ready]
    /\ frames' = [frames EXCEPT ![t] = 0]
    /\ restarted' = [restarted EXCEPT ![t] = Append(@, 0)]
    /\ UNCHANGED <<reason, disabled>>

\* A new VM on the reset arena, to be started with Vm::call.
Restart(t) ==
    /\ state' = [state EXCEPT ![t] = Ready]
    /\ reason' = [reason EXCEPT ![t] = "first"]
    /\ frames' = [frames EXCEPT ![t] = 0]
    /\ restarted' = [restarted EXCEPT ![t] = Append(@, 0)]
    /\ UNCHANGED disabled

\* No restart by policy; too many restarts; or a restart, which fails when the
\* arena's epoch is saturated or the VM cannot be rebuilt.
on_task_exit(t, was_error) ==
    \/ /\ ~ShouldRestart(t, was_error)
       /\ Retire(t)
       /\ UNCHANGED <<disabled, history>>
    \/ /\ ShouldRestart(t, was_error) /\ Exhausted(t)
       /\ history' = [history EXCEPT ![t] = Recent(t)]
       /\ Disable(t)
    \/ /\ ShouldRestart(t, was_error) /\ ~Exhausted(t)
       /\ history' = [history EXCEPT ![t] = Append(Recent(t), 0)]
       /\ Restart(t) \/ Disable(t)

dispatch_one ==
    /\ pc = "dispatch"
    /\ \/ /\ \E posts \in Posts : PostAll(posts)
          /\ \/ Yields(current)
             \/ Resets(current)
             \/ Enters(current) /\ on_task_exit(current, FALSE)
             \/ Enters(current) /\ on_task_exit(current, TRUE)
       \/ /\ ~Enters(current)
          /\ on_task_exit(current, TRUE)
          /\ UNCHANGED queue
    /\ pc' = "top"
    /\ lag' = 0
    /\ UNCHANGED <<event_id, manifest, pending, shutdownVars, current, nap>>

Next == Signal \/ Tick \/ Iterate \/ WakeUp \/ dispatch_one

\* The thread runs, dispatches end, and the clock advances however busy the
\* thread is; no task is obliged to wait, and no signal to arrive.
Fairness ==
    /\ WF_vars(Iterate) /\ WF_vars(WakeUp) /\ WF_vars(dispatch_one)
    /\ SF_vars(Tick)

Spec == Init /\ [][Next]_vars /\ Fairness

----------------------------------------------------------------------------
(* Properties.                                                             *)

States(t) ==
    {NotStarted, Ready, Finished}
    \cup {SleepingUntil(d) : d \in {Never} \cup 0 .. MaxWait \cup 0 .. Period[t]}
    \cup {WaitingForEvent(e) : e \in Events}

\* Every field of Task and every local of dispatch_loop has its type: no task
\* sleeps longer than it may ask for or than its period, and the event queue
\* never exceeds its capacity.
TypeOK ==
    /\ \A t \in Tasks : state[t] \in States(t)
    /\ reason \in [Tasks -> {"first", "deadline", "event"}]
    /\ disabled \in [Tasks -> BOOLEAN]
    /\ history \in [Tasks -> Seq(0 .. Oldest)]
    /\ frames \in [Tasks -> 0 .. FrameLimit]
    /\ event_id \in [Tasks -> Events \cup {NoEvent}]
    /\ manifest \in Manifests
    /\ queue \in Seq(Events) /\ Len(queue) <= MaxEventQueue
    /\ pending \subseteq Signals
    /\ deadline \in Nat \cup {None}
    /\ trigger \in {"none", "SIGINT", "SIGTERM"}
    /\ pc \in {"top", "dispatch", "sleep", "exited"}
    /\ current \in Tasks
    /\ lag \in 0 .. MaxRun
    /\ nap \in Nat
    /\ restarted \in [Tasks -> Seq(0 .. Oldest)]

\* A VM that has not run since it was built is only ever started with
\* Vm::call: a task with a fresh VM never sleeps, never waits, and its wakeup
\* reason is "first".  A stale reason surviving a restart would resume a VM
\* that is not suspended and burn the restart budget.
FreshVmIsCalled ==
    \A t \in Tasks : frames[t] = 0 /\ state[t] \notin {NotStarted, Finished} =>
        state[t] = Ready /\ reason[t] = "first"

\* The runner stops only when the grace period is over or every task is.
ExitJustified ==
    pc = "exited" =>
        \/ deadline = 0
        \/ \A t \in Tasks : state[t] = Finished \/ disabled[t]

\* The thread never sleeps on work: no task that may run is ready and no event
\* is queued, so nothing posted, restarted or reloaded waits for a tick.
NoWorkWhileAsleep ==
    pc = "sleep" =>
        /\ queue = << >>
        /\ \A t \in Tasks : state[t] = Ready => disabled[t]

\* The thread never sleeps past a deadline of a task that may run.
NeverOversleeps ==
    pc = "sleep" =>
        \A t \in Tasks : state[t].kind = "sleeping" /\ state[t].left # Never
                            => nap <= state[t].left

\* A task that was woken and waits for its turn, however many iterations that
\* takes, is dispatched with the reason and the event that woke it: a later
\* event, deadline or reload does not overwrite them.
WakeupStep ==
    \A t \in Tasks :
        state[t] = Ready /\ ~(pc = "dispatch" /\ current = t) =>
            /\ state'[t] = Ready
            /\ reason'[t] = reason[t]
            /\ event_id'[t] = event_id[t]

WakeupStable == [][WakeupStep]_vars

\* A finished task stays finished: no event, deadline, signal or reload revives
\* it, and a disabled one stays disabled.
FinishedStep ==
    \A t \in Tasks :
        /\ state[t] = Finished => state'[t] = Finished
        /\ disabled[t] => disabled'[t] /\ state'[t] = Finished

FinishedIsFinal == [][FinishedStep]_vars

\* Once a shutdown began, the first signal decides the exit code and nothing
\* postpones the deadline: not a second signal, not a reload that changes the
\* grace period.
GraceStep ==
    deadline # None =>
        deadline' # None /\ deadline' <= deadline /\ trigger' = trigger

GraceNeverExtended == [][GraceStep]_vars

\* A task that keeps failing does not restart more than `limit` times within a
\* window: when it restarts, a restart that `limit` others have followed is out
\* of the window.  That holds whatever reloads made of its policy and its limit
\* meanwhile; of its window they may have made a shorter one, which forgets.
RestartStep ==
    \A t \in Tasks :
        Len(restarted'[t]) > Len(restarted[t]) =>
            \A k \in DOMAIN restarted'[t] :
                k + manifest.task[t].limit <= Len(restarted'[t]) =>
                    \E m \in Manifests : restarted'[t][k] > m.task[t].window

RestartRateLimited == [][RestartStep]_vars

\* A SIGINT or SIGTERM ends the runner, even when tasks keep failing, keep
\* yielding or never wake.
ShutdownCompletes == (pending \cap Terminating # {}) ~> (pc = "exited")

\* A task that sleeps until some time is ready again, and a task whose event is
\* queued is too, as long as the runner lives.
WakeupsArrive ==
    \A t \in Tasks :
        /\ (state[t].kind = "sleeping" /\ state[t].left # Never)
              ~> (state[t] = Ready \/ pc = "exited")
        /\ (state[t].kind = "waiting" /\ state[t].event \in ToSet(queue))
              ~> (state[t] = Ready \/ pc = "exited")

----------------------------------------------------------------------------
(* What docs/architecture/RUN_TASKS.md says and the code does not do.      *)

\* "First invocation; the task has not run before."
FirstMeansFirst ==
    pc = "dispatch" /\ reason[current] = "first" => frames[current] = 0
=============================================================================
