--------------------------- MODULE MCVmLifecycle ---------------------------
(* Small programs for VmLifecycle.                                         *)
EXTENDS VmLifecycle, TLC

Fn(params, locals, ops) == [params |-> params, locals |-> locals, ops |-> ops]

Push(next) == Simple(0, 1, {next})
Pop(next) == Simple(1, -1, {next})

\* A loop as the compiler emits it: it calls a function that branches, yields
\* the result, drops the reply and resets.
Looping == <<
    Fn(1, 1, <<Stream, Push(3), Call(2, 1), Yield, Pop(6), Reset>>),
    Fn(1, 1, <<Push(2), Simple(1, -1, {3, 4}), Push(5), Push(5), Return>>) >>

\* A function that may end in a trap.
Trapping == << Fn(0, 0, <<Push(2), Simple(1, -1, {3, 5}), Push(4), Return, Trap>>) >>

\* A loop whose body needs, on every iteration, an operand that only the code
\* before Stream pushes.
PushBeforeStream == << Fn(1, 1, <<Push(2), Stream, Pop(4), Push(5), Yield, Pop(7), Reset>>) >>

CompilerCode == ("loop" :> Looping) @@ ("trap" :> Trapping)
HandBuiltCode == ("early" :> PushBeforeStream)

\* The branch in the function the loop calls.
LoopPositions == {<<2, 2>>}
=============================================================================
