------------------------------ MODULE Lowering ------------------------------
(***************************************************************************)
(* The shapes src/src/compiler.rs lowers control flow to.  A program is a  *)
(* tree; lowering lays it out as instructions with absolute targets and    *)
(* frame slots that are never reused.  Expressions:                        *)
(*   Lit(v)  Flag  Param  Build(size)  YieldOf(e)  CallOf(c, args)         *)
(*   NativeOf(n, external)  IfOf(then, else)  MatchOf(e, arms)  LoopOf(b)  *)
(* Statements: Let(e)  Do(e)  For(lo, hi, b)  ForLimit(lo, hi, cap, b)     *)
(* Break.  A block is a sequence of statements and a tail expression.      *)
(* Flag stands for a Bool read from the data segment; Param is slot 0.     *)
(***************************************************************************)
EXTENDS Bytecode

\* A block without a tail expression, an if without an else.
NoTail == [k |-> "None"]
Lit(v) == [k |-> "Lit", v |-> v]
Flag == [k |-> "Flag"]
Param == [k |-> "Param"]
Build(size) == [k |-> "Build", size |-> size]
YieldOf(e) == [k |-> "Yield", e |-> e]
CallOf(c, args) == [k |-> "Call", c |-> c, args |-> args]
NativeOf(n, external) == [k |-> "Native", n |-> n, external |-> external]
IfOf(then, else) == [k |-> "If", then |-> then, else |-> else]
MatchOf(e, arms) == [k |-> "Match", e |-> e, arms |-> arms]
LoopOf(body) == [k |-> "Loop", body |-> body]
Block(stmts, tail) == [k |-> "Block", stmts |-> stmts, tail |-> tail]
Let(e) == [k |-> "Let", e |-> e]
Do(e) == [k |-> "Do", e |-> e]
For(lo, hi, body) == [k |-> "For", lo |-> lo, hi |-> hi, body |-> body]
ForLimit(lo, hi, cap, body) ==
    [k |-> "ForLimit", lo |-> lo, hi |-> hi, cap |-> cap, body |-> body]
Break == [k |-> "Break"]

\* PushImmediate(0) pushes Unit, 1 pushes true, 2 pushes false.
PushUnit == Unary("PushImmediate", 0)

\* Outcomes of a limit loop.
LOOP_OUTCOME_LIMIT == 0
LOOP_OUTCOME_OK == 1
LOOP_OUTCOME_BREAK == 2

-----------------------------------------------------------------------------
(***************************************************************************)
(* The compiler's state, threaded through the lowering: the instructions   *)
(* so far, the next free slot and the outcome slots of the loops around    *)
(* (None for a loop that is not a limit loop).                             *)
(***************************************************************************)
None == -1
Here(fc) == Len(fc.ops)
emit(fc, ops) == [fc EXCEPT !.ops = @ \o ops]
declare_local(fc) == [fc EXCEPT !.slot = @ + 1]

\* A Break whose target is not known yet; exit_loop patches it.
Unpatched == Unary("Break", -1)

enter_loop(fc, oc) ==
    [emit(fc, <<Unary("Loop", -1)>>) EXCEPT !.oc = Append(@, oc)]

\* Close the loop opened at position at: the back edge, the loop's exit and
\* every break recorded for it.
exit_loop(fc, at) ==
    LET closed == Append(fc.ops, Unary("EndLoop", at + 1))
        Leaves(p) == \/ p = at + 1
                     \/ /\ p > at + 1 /\ closed[p].a = -1
                        /\ closed[p].o \in {"Break", "BreakIf"}
        Patched(p) == IF Leaves(p) THEN Unary(closed[p].o, Len(closed))
                      ELSE closed[p]
    IN [fc EXCEPT !.ops = <<>> \o [p \in DOMAIN closed |-> Patched(p)],
                  !.oc = Front(@)]

\* A forward branch at position at that lands here.
patch_jump(fc, at) ==
    [fc EXCEPT !.ops[at + 1] = Unary(fc.ops[at + 1].o, Here(fc))]

\* GetLocal; Const; CmpEq; If: the start of a test of a local.
emit_outcome_test(fc, slot, code) ==
    emit(fc, <<Unary("GetLocal", slot), Unary("Const", code),
               Nullary("CmpEq"), Unary("If", -1)>>)

end_if(fc, at) == emit(patch_jump(fc, at), <<Nullary("EndIf")>>)

emit_host_error_default_trap(fc) ==
    LET open == emit(fc, <<Unary("Const", 1), Nullary("CmpEq"),
                           Unary("If", -1), Unary("Trap", HostError)>>)
    IN end_if(open, Here(fc) + 2)

\* v := v + 1, the wrapping increment.
Increment(slot) ==
    <<Unary("GetLocal", slot), Unary("Const", 1), Nullary("CheckedAdd"),
      Unary("PopN", 2), Unary("SetLocal", slot)>>

\* The canonical header the verifier recognises.
Header(slot, end) ==
    <<Unary("GetLocal", slot), Unary("GetLocal", end), Nullary("CmpGe"),
      Unary("BreakIf", -1)>>

-----------------------------------------------------------------------------
RECURSIVE compile(_, _)

RECURSIVE compile_all(_, _)
compile_all(fc, xs) ==
    IF xs = <<>> THEN fc ELSE compile_all(compile(fc, Head(xs)), Tail(xs))

compile_block(fc, b) ==
    LET body == compile_all(fc, b.stmts)
    IN IF b.tail = NoTail THEN emit(body, <<PushUnit>>)
       ELSE compile(body, b.tail)

\* Compile e into a fresh slot; the slot is the one fc has next.
Store(fc, e) ==
    LET c == compile(fc, e)
    IN declare_local(emit(c, <<Unary("SetLocal", c.slot)>>))

compile_if(fc, e) ==
    LET open == emit(compile(fc, Flag), <<Unary("If", -1)>>)
        then == emit(compile_block(open, e.then), <<Unary("Else", -1)>>)
        start == patch_jump(then, Here(open) - 1)
        else == IF e.else = NoTail THEN emit(start, <<PushUnit>>)
                ELSE compile_block(start, e.else)
    IN end_if(else, Here(then) - 1)

\* The arms but the last test the scrutinee for true, the last is a wildcard.
RECURSIVE compile_arms(_, _, _)
compile_arms(fc, temp, arms) ==
    IF Len(arms) = 1
    THEN emit(compile(fc, arms[1]), <<Unpatched, Unary("Trap", NoMatchingArm)>>)
    ELSE LET test == emit(fc, <<Unary("GetLocal", temp),
                                Unary("PushImmediate", 1), Nullary("CmpEq"),
                                Unary("If", -1)>>)
             arm == emit(compile(test, arms[1]), <<Unpatched>>)
         IN compile_arms(end_if(arm, Here(test) - 1), temp, Tail(arms))

compile_match(fc, e) ==
    LET scrutinee == Store(fc, e.e)
        loop == enter_loop(scrutinee, None)
    IN exit_loop(compile_arms(loop, scrutinee.slot - 1, e.arms),
                 Here(scrutinee))

compile_for(fc, s) ==
    LET var == Store(fc, s.lo)
        end == Store(var, s.hi)
        loop == emit(enter_loop(end, None), Header(var.slot - 1, end.slot - 1))
        body == emit(compile_block(loop, s.body), <<Unary("PopN", 1)>>)
    IN exit_loop(emit(body, Increment(var.slot - 1)), Here(end))

SetOutcome(slot, code) == <<Unary("Const", code), Unary("SetLocal", slot)>>

\* if v >= end
RangeEnd(v, end) ==
    <<Unary("GetLocal", v), Unary("GetLocal", end), Nullary("CmpGe"),
      Unary("If", -1)>>

\* A loop stopped by its cap exactly at the end of its range has completed.
reclassify(fc, o, v, end) ==
    LET outer == emit_outcome_test(fc, o, LOOP_OUTCOME_LIMIT)
        inner == emit(outer, RangeEnd(v, end))
    IN end_if(end_if(emit(inner, SetOutcome(o, LOOP_OUTCOME_OK)),
                     Here(inner) - 1), Here(outer) - 1)

\* With no arms: a break completes the loop, a limit traps.
compile_loop_outcome_dispatch(fc, o) ==
    LET broke == emit_outcome_test(fc, o, LOOP_OUTCOME_BREAK)
        stamped == end_if(emit(broke, SetOutcome(o, LOOP_OUTCOME_OK)),
                          Here(broke) - 1)
        limit == emit_outcome_test(stamped, o, LOOP_OUTCOME_LIMIT)
    IN end_if(emit(limit, <<Unary("Trap", LoopLimitExceeded)>>),
              Here(limit) - 1)

compile_for_limit(fc, s) ==
    LET var == Store(fc, s.lo)
        end == Store(var, s.hi)
        ctr == Store(end, Lit(0))
        cap == Store(ctr, Lit(s.cap))
        oc == Store(cap, Lit(LOOP_OUTCOME_LIMIT))
        v == var.slot - 1
        e == end.slot - 1
        o == oc.slot - 1
        loop == emit(enter_loop(oc, o), Header(ctr.slot - 1, cap.slot - 1))
        test == emit(loop, RangeEnd(v, e))
        range == end_if(emit(test, Append(SetOutcome(o, LOOP_OUTCOME_OK),
                                          Unpatched)), Here(test) - 1)
        body == emit(compile_block(range, s.body), <<Unary("PopN", 1)>>)
        done == exit_loop(emit(body, Increment(v) \o Increment(ctr.slot - 1)),
                          Here(oc))
    IN compile_loop_outcome_dispatch(reclassify(done, o, v, e), o)

compile_loop(fc, e) ==
    LET body == emit(compile_block(enter_loop(fc, None), e.body),
                     <<Unary("PopN", 1)>>)
    IN emit(exit_loop(body, Here(fc)), <<PushUnit>>)

compile_break(fc) ==
    LET oc == fc.oc[Len(fc.oc)]
        stamp == IF oc = None THEN <<>>
                 ELSE <<Unary("Const", LOOP_OUTCOME_BREAK), Unary("SetLocal", oc)>>
    IN emit(fc, Append(stamp, Unpatched))

compile_native(fc, e) ==
    emit_host_error_default_trap(
        emit(fc, <<Op(IF e.external THEN "CallExternalNative"
                      ELSE "CallVerifiedNative", e.n, 0)>>))

compile(fc, x) ==
    CASE x.k = "Lit" -> emit(fc, <<Unary("Const", x.v)>>)
      [] x.k = "Flag" -> emit(fc, <<Unary("GetData", 0)>>)
      [] x.k = "Param" -> emit(fc, <<Unary("GetLocal", 0)>>)
      [] x.k = "Build" ->
            emit(fc, <<Unary("Const", 0), Op("NewComposite", 1, x.size)>>)
      [] x.k = "Yield" -> emit(compile(fc, x.e), <<Nullary("Yield")>>)
      [] x.k = "Call" ->
            emit(compile_all(fc, x.args), <<Op("Call", x.c, Len(x.args))>>)
      [] x.k = "Native" -> compile_native(fc, x)
      [] x.k = "If" -> compile_if(fc, x)
      [] x.k = "Match" -> compile_match(fc, x)
      [] x.k = "Loop" -> compile_loop(fc, x)
      [] x.k = "Block" -> compile_block(fc, x)
      [] x.k = "Let" -> Store(fc, x.e)
      [] x.k = "Do" -> emit(compile(fc, x.e), <<Unary("PopN", 1)>>)
      [] x.k = "For" -> compile_for(fc, x)
      [] x.k = "ForLimit" -> compile_for_limit(fc, x)
      [] x.k = "Break" -> compile_break(fc)

-----------------------------------------------------------------------------
(***************************************************************************)
(* Functions: one unguarded head is laid out directly, several heads as a  *)
(* dispatch whose heads but the last are guarded by a Flag.                *)
(***************************************************************************)
RECURSIVE compile_heads(_, _, _)
compile_heads(fc, kind, heads) ==
    LET leave == IF kind = "Stream" THEN <<Unary("PopN", 1), Unpatched>>
                 ELSE <<Nullary("Return")>>
    IN IF Len(heads) = 1
       THEN emit(compile_block(fc, heads[1]),
                 Append(leave, Unary("Trap", NoMatchingHead)))
       ELSE LET guard == emit(compile(fc, Flag), <<Unary("If", -1)>>)
                head == emit(compile_block(guard, heads[1]), leave)
            IN compile_heads(end_if(head, Here(guard) - 1), kind, Tail(heads))

compile_function(kind, params, heads) ==
    LET fc == [ops |-> <<>>, slot |-> params, oc |-> <<>>]
        stream == emit(fc, <<Nullary("Stream")>>)
        single == Len(heads) = 1
        loop == enter_loop(stream, None)
        out == CASE single /\ kind = "Stream" ->
                      emit(compile_block(stream, heads[1]),
                           <<Unary("PopN", 1), Nullary("Reset")>>)
                 [] single -> emit(compile_block(fc, heads[1]),
                                   <<Nullary("Return")>>)
                 [] kind = "Stream" ->
                      emit(exit_loop(compile_heads(loop, kind, heads),
                                     Here(stream)), <<Nullary("Reset")>>)
                 [] OTHER -> compile_heads(fc, kind, heads)
    IN Chunk(kind, out.ops, params, out.slot)
=============================================================================
