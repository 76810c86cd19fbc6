----------------------------- MODULE RtosKernel -----------------------------
(***************************************************************************)
(* The microkernel of src/examples/rtos/src/kernel.rs: a dispatch loop     *)
(* over a fixed list of tasks, each a virtual machine that is called once  *)
(* and then resumed, with sleeping tasks, an event bus, a periodic ticker, *)
(* supervised restarts and a wall-clock budget.                            *)
(*                                                                         *)
(* One iteration of the loop is one step: it reads the clock once, and run *)
(* borrows the kernel for as long as it lasts, so that nobody posts an     *)
(* event in between.  Time passes between the steps.                       *)
(***************************************************************************)
EXTENDS Integers, FiniteSets

CONSTANTS
    NumTasks,
    MaxRestarts,  \* max_restarts of each task
    Events,       \* event ids, of a u8
    Payloads,     \* what a task yields beside its reason, of an i64
    TickEvent,    \* event_id of the ticker
    Period,       \* period_ms of the ticker
    Budgets,      \* the wall-clock budgets run_until is called with
    MaxClock      \* bound: the clock of the model stops here

Tasks == 1 .. NumTasks
\* run_for_ms = None.
Unlimited == -1
\* `payload as u64` of a negative payload, a time that never comes.
Far == 2 * MaxClock + 2

ASSUME RtosAssumption ==
    /\ NumTasks \in Nat
    /\ MaxRestarts \in [Tasks -> Nat]
    /\ Events \subseteq 0 .. 255 /\ TickEvent \in Events
    /\ Payloads \subseteq Int
    /\ Period \in Nat
    /\ MaxClock \in Nat
    /\ Budgets \subseteq Nat \cup {Unlimited}

VARIABLES
    state,          \* TaskState of each task
    started,        \* Task::started
    restart_count,  \* Task::restart_count
    vm,             \* what each virtual machine can do next
    pending_events, \* events queued, as a set: the drain does not count them
    ticking,        \* whether event_tick is set
    next_due,       \* next_due_ms of the ticker
    clock,          \* Platform::now_ms
    stop_at,        \* stop_at_ms of this run, or Unlimited
    kernel,         \* whether run_until runs, sleeps or has returned
    wake_at         \* what sleep_until was asked for

kVars == <<pending_events, ticking, next_due, stop_at, kernel, wake_at>>
tVars == <<state, started, restart_count, vm>>
vars == <<tVars, kVars, clock>>

-----------------------------------------------------------------------------
WakeReasons == {"FirstRun", "Timer", "Event"}
Ready(reason) == [tag |-> reason, v |-> 0]
SleepingUntil(at) == [tag |-> "SleepingUntil", v |-> at]
WaitingFor(e) == [tag |-> "WaitingFor", v |-> e]
Finished == [tag |-> "Finished", v |-> 0]

IsReady(s) == s.tag \in WakeReasons

\* The casts of the payload a task yields.
as_u64(p) == IF p < 0 THEN Far ELSE p
as_u8(p) == p % 256

Init ==
    /\ state = [t \in Tasks |-> Ready("FirstRun")]
    /\ started = [t \in Tasks |-> FALSE]
    /\ restart_count = [t \in Tasks |-> 0]
    /\ vm = [t \in Tasks |-> "Idle"]
    /\ pending_events = {}
    /\ ticking = FALSE
    /\ next_due = 0
    /\ clock = 0
    /\ stop_at = Unlimited
    /\ kernel = "Stopped"
    /\ wake_at = 0

Tick ==
    /\ clock < MaxClock
    /\ clock' = clock + 1
    /\ UNCHANGED <<tVars, kVars>>

\* The host may post while no run borrows the kernel.
post_event(e) ==
    /\ kernel = "Stopped"
    /\ pending_events' = pending_events \cup {e}
    /\ UNCHANGED <<tVars, ticking, next_due, stop_at, kernel, wake_at, clock>>

enable_event_tick ==
    /\ kernel = "Stopped"
    /\ ticking' = TRUE
    /\ next_due' = 0
    /\ UNCHANGED <<tVars, pending_events, stop_at, kernel, wake_at, clock>>

run_until(ms) ==
    /\ kernel = "Stopped"
    /\ stop_at' = IF ms = Unlimited THEN Unlimited ELSE clock + ms
    /\ kernel' = "Running"
    /\ UNCHANGED <<tVars, pending_events, ticking, next_due, wake_at, clock>>

\* The platform's timer expires.
sleep_until ==
    /\ kernel = "Asleep" /\ clock >= wake_at
    /\ kernel' = "Running"
    /\ wake_at' = 0
    /\ UNCHANGED <<tVars, pending_events, ticking, next_due, stop_at, clock>>

-----------------------------------------------------------------------------
(***************************************************************************)
(* The iteration up to the choice of a task: the ticker fires, the queued  *)
(* events wake whoever waits for them and are gone, and the sleepers whose *)
(* deadline has passed are ready.                                          *)
(***************************************************************************)
BudgetSpent == stop_at # Unlimited /\ clock >= stop_at
TickDue == ticking /\ clock >= next_due
Fired == pending_events \cup IF TickDue THEN {TickEvent} ELSE {}

Due(s) == s.tag = "SleepingUntil" /\ s.v <= clock
Promoted_NoTimer(s) ==
    IF s.tag = "WaitingFor" /\ s.v \in Fired THEN Ready("Event") ELSE s
Promoted(s) ==
    IF s.tag = "WaitingFor" /\ s.v \in Fired THEN Ready("Event")
    ELSE IF Due(s) THEN Ready("Timer") ELSE s
Refreshed == [t \in Tasks |-> Promoted(state[t])]

Iteration ==
    /\ kernel = "Running" /\ ~BudgetSpent
    /\ pending_events' = {}
    /\ next_due' = IF TickDue THEN clock + Period ELSE next_due
    /\ UNCHANGED <<ticking, clock>>

\* The first ready task of the list.
Chosen_Any(i) == IsReady(Refreshed[i])
Chosen(i) ==
    /\ IsReady(Refreshed[i])
    /\ \A j \in Tasks : IsReady(Refreshed[j]) => i <= j

\* dispatch: the task's machine is called or resumed.  A machine asked for
\* what it cannot do answers with an error.
Runs(i) == vm[i] = IF started[i] THEN "Suspended" ELSE "Idle"

Settled(i, s, machine) ==
    /\ state' = [Refreshed EXCEPT ![i] = s]
    /\ vm' = [vm EXCEPT ![i] = machine]
    /\ UNCHANGED <<kernel, stop_at, wake_at>>

\* Yielded, with the pair or with something else (None), or another way of
\* being suspended.
Yielded(i) ==
    /\ Runs(i)
    /\ \E p \in Payloads :
          \E s \in {SleepingUntil(as_u64(p)), Ready("Timer"),
                    WaitingFor(as_u8(p)), Finished} :
              Settled(i, s, "Suspended")
    /\ started' = [started EXCEPT ![i] = TRUE]
    /\ UNCHANGED restart_count

\* The body of `loop main` ended; the next resume starts it over.
WrapsAround(i) ==
    /\ Runs(i)
    /\ Settled(i, Ready("Timer"), "Suspended")
    /\ started' = [started EXCEPT ![i] = TRUE]
    /\ UNCHANGED restart_count

Finishes(i) ==
    /\ Runs(i)
    /\ Settled(i, Finished, "Idle")
    /\ started' = [started EXCEPT ![i] = TRUE]
    /\ UNCHANGED restart_count

\* An error: reset_after_error and a fresh start while restarts are left.
Restarts_Resumed(i) ==
    /\ restart_count[i] < MaxRestarts[i]
    /\ restart_count' = [restart_count EXCEPT ![i] = @ + 1]
    /\ Settled(i, Ready("FirstRun"), "Idle")
    /\ started' = [started EXCEPT ![i] = TRUE]
Restarts_Unpaid(i) ==
    /\ restart_count[i] <= MaxRestarts[i]
    /\ restart_count' = [restart_count EXCEPT ![i] = @ + 1]
    /\ Settled(i, Ready("FirstRun"), "Idle")
    /\ started' = [started EXCEPT ![i] = FALSE]
Restarts(i) ==
    /\ restart_count[i] < MaxRestarts[i]
    /\ restart_count' = [restart_count EXCEPT ![i] = @ + 1]
    /\ Settled(i, Ready("FirstRun"), "Idle")
    /\ started' = [started EXCEPT ![i] = FALSE]

GivesUp(i) ==
    /\ restart_count[i] >= MaxRestarts[i]
    /\ Settled(i, Finished, "Failed")
    /\ started' = [started EXCEPT ![i] = TRUE]
    /\ UNCHANGED restart_count

dispatch(i) ==
    /\ Iteration
    /\ Chosen(i)
    /\ Yielded(i) \/ WrapsAround(i) \/ Finishes(i) \/ Restarts(i) \/ GivesUp(i)

-----------------------------------------------------------------------------
\* No task is ready: sleep until the next deadline of a task or of the ticker,
\* or return when there is none.
Deadlines ==
    {Refreshed[t].v : t \in {u \in Tasks : Refreshed[u].tag = "SleepingUntil"}}
    \cup IF ticking THEN {next_due'} ELSE {}
earliest_wakeup_TasksOnly(at) ==
    LET S == {Refreshed[t].v :
                t \in {u \in Tasks : Refreshed[u].tag = "SleepingUntil"}}
        D == IF S # {} THEN S ELSE Deadlines
    IN at \in D /\ \A d \in D : at <= d
earliest_wakeup(at) == at \in Deadlines /\ \A d \in Deadlines : at <= d

Idles ==
    /\ Iteration
    /\ \A t \in Tasks : ~IsReady(Refreshed[t])
    /\ state' = Refreshed
    /\ UNCHANGED <<started, restart_count, vm>>

Sleeps ==
    /\ Idles
    /\ \E at \in Deadlines : earliest_wakeup(at) /\ wake_at' = at
    /\ kernel' = "Asleep"
    /\ UNCHANGED stop_at

Returns ==
    /\ Idles
    /\ Deadlines = {}
    /\ kernel' = "Stopped"
    /\ stop_at' = Unlimited
    /\ UNCHANGED wake_at

\* The budget is spent, at the boundary of an iteration.
Stops ==
    /\ kernel = "Running" /\ BudgetSpent
    /\ kernel' = "Stopped"
    /\ stop_at' = Unlimited
    /\ UNCHANGED <<tVars, pending_events, ticking, next_due, wake_at, clock>>

Kernel ==
    \/ sleep_until
    \/ \E i \in Tasks : dispatch(i)
    \/ Sleeps
    \/ Returns
    \/ Stops

Next ==
    \/ Tick
    \/ \E e \in Events : post_event(e)
    \/ enable_event_tick
    \/ \E ms \in Budgets : run_until(ms)
    \/ Kernel

\* The executor polls the kernel and the clock advances; the host owes nothing.
Spec == Init /\ [][Next]_vars /\ WF_vars(Kernel) /\ WF_vars(Tick)

-----------------------------------------------------------------------------
Tags == WakeReasons \cup {"SleepingUntil", "WaitingFor", "Finished"}

\* Every variable has its type, and no task is restarted beyond its budget.
TypeOK ==
    /\ state \in [Tasks -> [tag : Tags, v : Nat]]
    /\ \A t \in Tasks : state[t].tag = "Finished" => state[t] = Finished
    /\ started \in [Tasks -> BOOLEAN]
    /\ restart_count \in [Tasks -> Nat]
    /\ \A t \in Tasks : restart_count[t] <= MaxRestarts[t]
    /\ vm \in [Tasks -> {"Idle", "Suspended", "Failed"}]
    /\ pending_events \subseteq Events
    /\ ticking \in BOOLEAN
    /\ next_due \in Nat /\ clock \in Nat /\ wake_at \in Nat
    /\ stop_at \in Nat \cup {Unlimited}
    /\ kernel \in {"Stopped", "Running", "Asleep"}

(***************************************************************************)
(* A task that can still run has a machine that can do what the kernel     *)
(* will ask of it: it is called when it is idle, at first and after a      *)
(* restart, and resumed when it is suspended.                              *)
(***************************************************************************)
DispatchMatchesMachine ==
    \A t \in Tasks : state[t] # Finished => Runs(t)

(***************************************************************************)
(* While the kernel sleeps there is nothing it should be doing: no task is *)
(* ready, no event is queued, and it wakes no later than the first         *)
(* deadline of a task and than the ticker.                                 *)
(***************************************************************************)
SleepJustified ==
    kernel = "Asleep" =>
        /\ pending_events = {}
        /\ ticking => wake_at <= next_due
        /\ \A t \in Tasks :
              /\ ~IsReady(state[t])
              /\ state[t].tag = "SleepingUntil" => wake_at <= state[t].v

(***************************************************************************)
(* A sleeping task is woken once its deadline has passed, unless the run   *)
(* ends before: no task of a higher priority that stays ready, and no      *)
(* sleep of the kernel, keeps it from becoming ready.                      *)
(***************************************************************************)
SleepersWake ==
    \A t \in Tasks : \A at \in 0 .. MaxClock :
        state[t] = SleepingUntil(at)
            ~> state[t] # SleepingUntil(at) \/ kernel = "Stopped"

-----------------------------------------------------------------------------
(***************************************************************************)
(* The kernel implements the cooperative scheduler: what the scheduler     *)
(* calls fresh is that the machine is not suspended.  Among ready tasks    *)
(* the one of the lowest index runs, not the one that was due earliest, as *)
(* the header of kernel.rs has it.                                         *)
(***************************************************************************)
PhaseOf(s) ==
    IF IsReady(s) THEN "Runnable" ELSE IF s = Finished THEN "Done" ELSE "Blocked"

Coop == INSTANCE CoopScheduler WITH
    Budget <- MaxRestarts,
    phase <- [t \in Tasks |-> PhaseOf(state[t])],
    fresh <- [t \in Tasks |-> vm[t] # "Suspended"],
    left <- [t \in Tasks |-> MaxRestarts[t] - restart_count[t]]

Refinement == Coop!ASpec
=============================================================================
