----------------------------- MODULE MCChunkRun -----------------------------
(***************************************************************************)
(* Small programs for the verifier and the dispatch loop: compiled ones,   *)
(* of every block type and control construct, and raw bytecode that the    *)
(* verifier has to refuse.                                                 *)
(***************************************************************************)
EXTENDS AttestedRun, Lowering

\* Native 1 is verified and native 2 external, called twice per iteration.
MCNativeBounds == <<[wcet |-> 3, wcmu |-> 4, max |-> -1],
                    [wcet |-> 2, wcmu |-> 1, max |-> 2]>>
\* Around the cap (2) of the limit loops.
MCInputs == {0, 2, 3}

Y == Do(YieldOf(Lit(0)))
B == Do(Build(2))
C == Do(CallOf(1, <<>>))
N == Do(NativeOf(1, FALSE))
X == Do(NativeOf(2, TRUE))
Body(stmts) == Block(stmts, NoTail)
\* if flag { .. }
When(stmts) == Do(IfOf(Body(stmts), NoTail))
Function(kind, stmts) == compile_function(kind, 1, <<Body(stmts)>>)

Builder == compile_function("Func", 0, <<Block(<<Let(Build(2)), N>>, Lit(0))>>)
Yielder == compile_function("Reentrant", 0,
              <<Block(<<B, Y>>, Lit(0)), Block(<<Y, Y>>, Lit(1))>>)

Atoms == {Y, B, C}
Branching ==
    {Do(IfOf(Body(<<a>>), Body(<<b>>))) : a \in Atoms, b \in Atoms}
    \cup {When(<<a>>) : a \in Atoms}
Counted(stmts) == For(Lit(0), Lit(2), Body(stmts))
Limited(stmts) == ForLimit(Lit(0), Param, 2, Body(stmts))
Looping ==
    {Counted(<<a>>) : a \in Atoms \cup {N, X}}
    \cup {Counted(<<When(<<a, Break>>), b>>) : a \in Atoms, b \in {Y, B}}
    \cup {Limited(<<a>>) : a \in Atoms \cup {N}}
    \cup {Limited(<<a, When(<<Break>>)>>) : a \in {Y, B}}
    \cup {Counted(<<Counted(<<a>>)>>) : a \in Atoms}
    \cup {Do(LoopOf(Body(<<a, Break>>))) : a \in {Y, B}}
    \cup {Do(LoopOf(Body(<<Y>>)))}
Matching ==
    {Let(MatchOf(Flag, <<Lit(0), YieldOf(Lit(0))>>)),
     Let(MatchOf(Flag, <<CallOf(1, <<>>), Build(2)>>))}
Compound == Branching \cup Looping \cup Matching
Bodies ==
    {<<s>> : s \in Atoms \cup Compound}
    \cup {<<s, a>> : s \in Compound, a \in {Y, B}}
    \cup {<<Y, s, Let(Build(1)), s>> : s \in {When(<<Y>>), N, Counted(<<B>>)}}

Compiled(kind) == {Function(kind, b) : b \in Bodies}
TwoHeaded ==
    {compile_function(k, 1, <<Body(<<a>>), Body(<<b>>)>>) :
        k \in {"Reentrant", "Stream"}, a \in {Y, B}, b \in {Y, C}}

\* Bytecode no source compiles to: control that falls off the end, a pop of
\* an operand that is not there, a local only the previous iteration wrote,
\* a counter that never advances, a call of itself, a branch that pushes on one
\* side only and a pop that relies on it.
Raw ==
    {Chunk("Func", <<Unary("Const", 0)>>, 0, 0),
     Chunk("Func", <<Unary("PopN", 1), Unary("Const", 0), Nullary("Return")>>,
           0, 1),
     Chunk("Stream", <<Nullary("Stream"), Unary("GetLocal", 1), Nullary("Yield"),
                       Unary("SetLocal", 1), Nullary("Reset")>>, 1, 2),
     Chunk("Stream", <<Unary("Const", 0), Unary("SetLocal", 1), Nullary("Stream"),
                       Unary("GetLocal", 1), Nullary("Yield"),
                       Unary("PopN", 1), Nullary("Reset")>>, 1, 2),
     Chunk("Func", <<Unary("Const", 0), Unary("SetLocal", 0),
                     Unary("Const", 2), Unary("SetLocal", 1),
                     Unary("Loop", 15)>> \o
                   <<Unary("GetLocal", 0), Unary("GetLocal", 1), Nullary("CmpGe"),
                     Unary("BreakIf", 15)>> \o
                   <<Unary("GetLocal", 0), Unary("Const", 0), Nullary("CheckedAdd"),
                     Unary("PopN", 2), Unary("SetLocal", 0), Unary("EndLoop", 5),
                     Unary("Const", 0), Nullary("Return")>>, 0, 2),
     Chunk("Func", <<Op("Call", 2, 0), Nullary("Return")>>, 0, 0),
     Chunk("Func", <<Unary("GetData", 0), Unary("If", 3), Unary("Const", 0),
                     Nullary("EndIf"), Unary("PopN", 1), Unary("Const", 0),
                     Nullary("Return")>>, 0, 1)}

\* A call with three operands after a match, and a loop that yields early in
\* one branch of its body and late in the other.
Three == compile_function("Func", 3, <<Block(<<>>, Lit(0))>>)
MatchThenCall ==
    Function("Func", <<Let(MatchOf(Flag, <<Lit(0), Lit(1)>>)),
                       Do(CallOf(1, <<Lit(0), Lit(0), Lit(0)>>))>>)
Spliced ==
    Function("Reentrant",
             <<Counted(<<Do(IfOf(Body(<<Y, B, B, B>>), Body(<<B, B, B, Y>>)))>>)>>)
MCMatchModules == LET pair == <<Three, MatchThenCall>> IN {pair}

\* A stream that leaves its yield to a callee whose first head has none.
HalfYielder ==
    compile_function("Reentrant", 0, <<Block(<<B>>, Lit(0)), Block(<<Y>>, Lit(1))>>)
MCDelegationModules ==
    LET pair == <<HalfYielder, Function("Stream", <<C>>)>> IN {pair}

\* Every main above a helper that yields, those that call also above one that
\* only allocates.
MCModules ==
    LET mains == Compiled("Func") \cup Compiled("Reentrant")
                 \cup Compiled("Stream") \cup TwoHeaded \cup Raw \cup {Spliced}
    IN {<<Yielder, m>> : m \in mains}
       \cup {<<Builder, m>> : m \in {x \in mains : Has(x, "Call")}}
       \cup MCMatchModules

\* The hypotheses of the proofs are met by all that is compiled here, but for
\* the delegation to a callee that may return without a yield.
ASSUME CompiledAssumption ==
    \A m \in Modules : \/ m[2] \in Raw
                       \/ /\ Lowered(m) /\ LimitsDispatched(m)
                          /\ HasMatch(m) \/ \A c \in DOMAIN m : BlocksJoin(m[c])
                          /\ DelegatesCover(m) \/ m[1] = HalfYielder
=============================================================================
