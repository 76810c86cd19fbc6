----------------------------- MODULE MCRunTasks -----------------------------
(***************************************************************************)
(* TLC instances of RunTasks: a pair of tasks, the first preferred and     *)
(* restarted on error, and a single task under every signal and a reload   *)
(* that changes its restart policy, its budget and the grace period.       *)
(***************************************************************************)
EXTENDS RunTasks

PairPriority == <<0, 1>>
PairPeriod == <<1, 1>>
OnePriority == <<0>>
OnePeriod == <<2>>

Stays == [restart |-> "never", limit |-> 1, window |-> 1]
OnError == [restart |-> "on_error", limit |-> 1, window |-> 1]
Always == [restart |-> "always", limit |-> 2, window |-> 1]

PairManifests ==
    {[tick |-> 2, grace |-> 1, task |-> <<OnError, Stays>>]}
OneManifests ==
    {[tick |-> 1, grace |-> 1, task |-> <<OnError>>],
     [tick |-> 2, grace |-> 3, task |-> <<Always>>]}

PairPosts == {<<>>, <<"reload">>}
OnePosts == {<<>>, <<"shutdown">>, <<"reload", "shutdown", "reload">>}
=============================================================================
