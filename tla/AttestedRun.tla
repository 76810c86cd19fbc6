---------------------------- MODULE AttestedRun ----------------------------
(***************************************************************************)
(* The dispatch loop on modules that the whole verifier admits, beside     *)
(* what it attests for them: the execution time and the memory of every    *)
(* chunk, the number of resumes before a reset and the call depth.         *)
(***************************************************************************)
EXTENDS ChunkRun, Verifier

\* What Vm::new admits: the verifier accepts the module and the memory of
\* every chunk is bounded.
verify_resource_bounds(m) ==
    /\ topological_call_order(m)
    /\ \A c \in DOMAIN m : module_wcmu_with_bounds(m)[c].ok

\* What the host relies on for a module it has loaded.
Attestation(m) ==
    [wcmu |-> module_wcmu_with_bounds(m),
     wcet |-> module_wcet_with_bounds(m),
     resumes |-> [c \in DOMAIN m |-> max_resumes_before_reset(m, c)],
     depth |-> module_call_depth(m)]

AttestedInit ==
    /\ mod \in {m \in Modules : verify(m) /\ verify_resource_bounds(m)}
    /\ attested = Attestation(mod)
    /\ Fresh

\* Every behaviour is one of ChunkRun: verify includes verify_flow, the bounds
\* the order of calls, and the attestation the call depth.
AttestedSpec == AttestedInit /\ [][Next]_vars /\ WF_vars(run)

-----------------------------------------------------------------------------
(***************************************************************************)
(* The memory bounds.  A frame and everything it has called use at most    *)
(* the operand slots attested for its chunk, so an arena sized by the      *)
(* attestation never refuses a push.  A module with a match expression is  *)
(* left out: the walk drops the value a match leaves (see MatchSlotsSound).*)
(***************************************************************************)
HasMatch(m) ==
    \E c \in DOMAIN m : \E ip \in Positions(m[c]) :
        At(m[c], ip) = Unary("Trap", NoMatchingArm)

SlotsWithinBound ==
    \A k \in DOMAIN frames :
        Len(stack) - frames[k].base <= attested.wcmu[frames[k].chunk].stack

SlotsSound == SlotsWithinBound \/ HasMatch(mod)

\* They take at most the arena bytes attested for it: since its entry or its
\* last reset, whatever its loops, its calls and its natives allocate.
HeapSound ==
    \A k \in DOMAIN frames :
        frames[k].heap <= attested.wcmu[frames[k].chunk].heap

(***************************************************************************)
(* The time bound.  The instructions a chunk itself dispatches, with the   *)
(* one about to be dispatched, cost at most what was attested: per call of *)
(* a Func, per resume of a Reentrant, per iteration of a Stream.  Left out *)
(* are Reentrant chunks with a branching loop clamped to one pass, whose   *)
(* paths may be spliced across a yield.                                    *)
(***************************************************************************)
ClampedBranchingLoop(ch) ==
    /\ ch.kind = "Reentrant" /\ ~TopLevelYields(ch)
    /\ \E ip \in PositionsOf(ch, "Loop") :
          /\ loop_body_all_paths_yield_no_inner_loop(ch, ip + 1, At(ch, ip).a - 1)
          /\ \E q \in ip .. At(ch, ip).a : At(ch, q).o = "If"

Pending(k) ==
    IF Running /\ k = Len(frames) THEN nominal_op_cycles(Next_ip) ELSE 0

WcetSound ==
    \A k \in DOMAIN frames :
        LET bound == attested.wcet[frames[k].chunk]
        IN \/ bound = NoBound
           \/ bound < CostCap /\ frames[k].cost + Pending(k) <= bound
           \/ ClampedBranchingLoop(ChunkOf(frames[k]))

\* The host never has to resume more often between two resets than attested.
ResumesBounded ==
    frames # <<>> => \/ attested.resumes[frames[1].chunk] = NoBound
                     \/ yields <= attested.resumes[frames[1].chunk]

\* A limit loop traps only when its range is longer than its cap: where its
\* variable was last held against the end of its range, before the trap, it is
\* still below it, and a resume in the body has moved neither.  A range exactly
\* as long as the cap completes.
RangeTests(ch) ==
    {ip \in PositionsOf(ch, "CmpGe") :
        /\ {ip - 2, ip - 1} \subseteq PositionsOf(ch, "GetLocal")
        /\ ip + 1 \in PositionsOf(ch, "If")}

LimitTrapJustified ==
    Running /\ Next_ip = Unary("Trap", LoopLimitExceeded) =>
        LET test == Max({ip \in RangeTests(Code) : ip < Frame.ip})
        IN stack[Frame.base + At(Code, test - 2).a + 1]
               < stack[Frame.base + At(Code, test - 1).a + 1]

\* Every call and every resume comes back to the host.
DispatchEnds == Running ~> ~Running

-----------------------------------------------------------------------------
\* What verify.rs says of the memory bound: it is sound for every program
\* that passes verification, one with a match included.
MatchSlotsSound == SlotsWithinBound

-----------------------------------------------------------------------------
(***************************************************************************)
(* What the walk of the operand slots takes for granted of the blocks and  *)
(* verify does not check.  The compiler guarantees it but for the loop a   *)
(* match is lowered to, which leaves with a value: an Else goes to the end *)
(* of its own If, a loop leaves as many operands as it finds, and control  *)
(* ends at Reset.                                                          *)
(***************************************************************************)
BlocksJoin(ch) ==
    LET h == interp_region(ch)
        open == Blocks(ch)
    IN /\ \A e \in PositionsOf(ch, "Else") :
             At(ch, e).a \in Positions(ch) /\ Opener(open, At(ch, e).a) = e
       /\ \A l \in PositionsOf(ch, "Loop") :
             Dead \notin {h[l + 1], h[At(ch, l).a + 1]} =>
                 h[At(ch, l).a + 1] = h[l + 1]
       /\ ch.kind = "Stream" =>
             \A ip \in Positions(ch) : ip > FirstOf(ch, "Reset") => h[ip + 1] = Dead

(***************************************************************************)
(* What the compiler emits behind a limit loop (reclassify, then           *)
(* compile_loop_outcome_dispatch without arms) from position s on: o holds *)
(* the loop's outcome, v its variable and e the end of its range.  Control *)
(* comes to its instructions from its first one only.                      *)
(***************************************************************************)
OutcomeDispatch(o, v, e, s) ==
    <<Unary("GetLocal", o), Unary("Const", 0), Nullary("CmpEq"), Unary("If", s + 11),
      Unary("GetLocal", v), Unary("GetLocal", e), Nullary("CmpGe"), Unary("If", s + 10),
      Unary("Const", 1), Unary("SetLocal", o), Nullary("EndIf"), Nullary("EndIf"),
      Unary("GetLocal", o), Unary("Const", 2), Nullary("CmpEq"), Unary("If", s + 18),
      Unary("Const", 1), Unary("SetLocal", o), Nullary("EndIf"),
      Unary("GetLocal", o), Unary("Const", 0), Nullary("CmpEq"), Unary("If", s + 24),
      Unary("Trap", LoopLimitExceeded)>>

Dispatches(ch, s) ==
    LET code == OutcomeDispatch(At(ch, s).a, At(ch, s + 4).a, At(ch, s + 5).a, s)
    IN /\ \A i \in 0 .. 23 : At(ch, s + i) = code[i + 1]
       /\ \A p \in Positions(ch) : \A i \in 1 .. 23 :
             s + i \in Targets(ch, p) => p \in s .. s + 22

LimitsDispatched(m) ==
    \A c \in DOMAIN m : \A t \in PositionsOf(m[c], "Trap") :
        At(m[c], t).a = LoopLimitExceeded => t >= 23 /\ Dispatches(m[c], t - 23)
=============================================================================
