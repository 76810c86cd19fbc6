--------------------------- MODULE CoopScheduler ---------------------------
(***************************************************************************)
(* What the RTOS microkernel promises its tasks, without clocks, events or *)
(* virtual machines: a cooperative scheduler of fixed priority with a      *)
(* restart budget.  In one round some blocked tasks become runnable and    *)
(* the runnable task of the lowest index, if there is one, runs a slice.   *)
(* A task that is done stays done; a task is never taken off the processor *)
(* by another; a failed slice is paid for with a restart, and the slice    *)
(* after it starts from the beginning, as the first one does.              *)
(*                                                                         *)
(* The policy is the one of the code (kernel.rs:247) and of MANUAL.md:480, *)
(* "First-ready-wins is the only scheduling policy".  It is not the one of *)
(* kernel.rs:4, "picks the ready task with the earliest pending wakeup":   *)
(* a ready task's wake-up time is not looked at, and nothing here bounds   *)
(* how long a task waits for those before it, as SPEC.md 6.2 does.         *)
(***************************************************************************)
EXTENDS Naturals

CONSTANTS
    Tasks,     \* indices of the tasks, by priority
    Budget     \* restarts each task is given

VARIABLES
    phase,     \* Runnable, Blocked or Done
    fresh,     \* whether the task starts from the beginning when it next runs
    left       \* restarts left

aVars == <<phase, fresh, left>>

Phases == {"Runnable", "Blocked", "Done"}

AInit ==
    /\ phase = [t \in Tasks |-> "Runnable"]
    /\ fresh = [t \in Tasks |-> TRUE]
    /\ left = Budget

In(p) == {t \in Tasks : phase[t] = p}
Woken(S) == [t \in Tasks |-> IF t \in S THEN "Runnable" ELSE phase[t]]
First(S, t) == t \in S /\ \A u \in S : t <= u

\* Blocked tasks become runnable and nothing runs.
Wake(S) ==
    /\ phase' = Woken(S)
    /\ UNCHANGED <<fresh, left>>

\* A slice that ends well: a task that will run again continues from there.
Slice(S, t) ==
    /\ \E p \in Phases, f \in BOOLEAN :
          /\ p # "Done" => ~f
          /\ phase' = [Woken(S) EXCEPT ![t] = p]
          /\ fresh' = [fresh EXCEPT ![t] = f]
    /\ UNCHANGED left

\* A slice that fails.
Fail(S, t) ==
    /\ fresh' = [fresh EXCEPT ![t] = TRUE]
    /\ \/ /\ left[t] > 0
          /\ left' = [left EXCEPT ![t] = @ - 1]
          /\ phase' = [Woken(S) EXCEPT ![t] = "Runnable"]
       \/ /\ left[t] = 0
          /\ phase' = [Woken(S) EXCEPT ![t] = "Done"]
          /\ UNCHANGED left

ANext ==
    \E S \in SUBSET In("Blocked") :
        \/ Wake(S)
        \/ \E t \in Tasks :
              /\ First(In("Runnable") \cup S, t)
              /\ Slice(S, t) \/ Fail(S, t)

ASpec == AInit /\ [][ANext]_aVars
=============================================================================
