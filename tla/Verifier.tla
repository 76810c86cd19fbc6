------------------------------ MODULE Verifier ------------------------------
(***************************************************************************)
(* The load-time verifier of src/src/verify.rs as pure operators on        *)
(* chunks, beside the passes of module Flow: block nesting, the            *)
(* operand-depth pass, and the three resource bounds it attests: execution *)
(* time (WCET), memory (WCMU) and the number of resumes before a reset.    *)
(*                                                                         *)
(* The source walks regions of structured control flow recursively.  Here  *)
(* a walk is a function of the position: of what lies between a position   *)
(* and the end of its region (cycles, bytes, yields) or of what a path to  *)
(* the position leaves (operands).  Each is the sum the recursion computes.*)
(*                                                                         *)
(* Saturating u32 arithmetic is plain arithmetic here: the programs of the *)
(* runs stay far below 2^32.  Text-size terms are left out.  The walks of  *)
(* the bounds leave MAX_REGION_DEPTH out, which the operand-depth pass has *)
(* imposed before.                                                         *)
(***************************************************************************)
EXTENDS Flow

CONSTANT MaxRegionDepth  \* MAX_REGION_DEPTH: nesting the walks accept

ASSUME VerifierAssumption == MaxRegionDepth \in Nat

\* max_invocations = None, the attestation of a verified native.
PerCall == -1
\* extract_loop_iteration_bound and the bounds refuse with this value.
NoBound == -1
Pos(n) == IF n < 0 THEN 0 ELSE n

HasElse(ch, op) == At(ch, op.a - 1).o = "Else"
EndIfOf(ch, op) == At(ch, op.a - 1).a

-----------------------------------------------------------------------------
(***************************************************************************)
(* The iteration bound of a canonical counted loop.                        *)
(***************************************************************************)
\* The literal last stored, textually, into slot before position ip.
trace_const_set_local(ch, ip, slot) ==
    LET sets == {q \in 1 .. ip - 1 : At(ch, q) = Unary("SetLocal", slot)}
    IN IF sets # {} /\ At(ch, Max(sets) - 1).o = "Const"
       THEN At(ch, Max(sets) - 1).a ELSE NoBound

loop_body_advances_induction_Unchecked(ch, loop, var, last) == TRUE
loop_body_advances_induction(ch, loop, var, last) ==
    LET endloop == At(ch, loop).a - 1
        body == loop + 5 .. endloop - 1
        sets == {q \in body : At(ch, q).o = "SetLocal"}
    IN /\ At(ch, endloop).o = "EndLoop"
       /\ endloop - 5 >= loop + 5
       /\ \A q \in sets : At(ch, q).a # last
       /\ {q \in sets : At(ch, q).a = var} = {endloop - 1}
       /\ At(ch, endloop - 5) = Unary("GetLocal", var)
       /\ At(ch, endloop - 4).o = "Const" /\ At(ch, endloop - 4).a > 0
       /\ At(ch, endloop - 3).o = "CheckedAdd"
       /\ At(ch, endloop - 2) = Unary("PopN", 2)

extract_loop_iteration_bound(ch, loop) ==
    IF /\ loop + 4 < Size(ch)
       /\ At(ch, loop + 1).o = "GetLocal" /\ At(ch, loop + 2).o = "GetLocal"
       /\ At(ch, loop + 3).o = "CmpGe" /\ At(ch, loop + 4).o = "BreakIf"
       /\ loop_body_advances_induction(ch, loop, At(ch, loop + 1).a,
                                       At(ch, loop + 2).a)
    THEN LET start == trace_const_set_local(ch, loop, At(ch, loop + 1).a)
             last == trace_const_set_local(ch, loop, At(ch, loop + 2).a)
         IN IF NoBound \in {start, last} THEN NoBound ELSE Pos(last - start)
    ELSE NoBound

loop_body_all_paths_yield_no_inner_loop(ch, from, to) ==
    /\ \A ip \in from .. to - 1 : At(ch, ip).o # "Loop"
    /\ analyze_yield_coverage(ch, from, to, {}) = "yields"

-----------------------------------------------------------------------------
(***************************************************************************)
(* verify: pass 1, blocks nest and every target is in range.               *)
(* Blocks gives for each position the openers of the blocks around it,     *)
(* outermost first; an If whose Else has been seen is represented by that  *)
(* Else.                                                                   *)
(***************************************************************************)
Reopened(ch, ip, open) ==
    CASE At(ch, ip).o \in {"If", "Loop"} -> Append(open, ip)
      [] At(ch, ip).o = "Else" /\ open # <<>> -> Append(Front(open), ip)
      [] At(ch, ip).o \in {"EndIf", "EndLoop"} /\ open # <<>> -> Front(open)
      [] OTHER -> open

Blocks(ch) ==
    LET around[ip \in 0 .. Size(ch)] ==
            IF ip = 0 THEN <<>> ELSE Reopened(ch, ip - 1, around[ip - 1])
    IN around

EnclosingLoop(ch, open) == {q \in Range(open) : At(ch, q).o = "Loop"}

Nests(ch, ip, open) ==
    LET op == At(ch, ip)
        top == Last(open)
        Top(kinds) == open # <<>> /\ At(ch, top).o \in kinds
    IN CASE op.o \in {"If", "Loop"} -> op.a <= Size(ch)
         [] op.o = "Else" ->
               /\ Top({"If"}) /\ At(ch, top).a = ip + 1
               /\ op.a < Size(ch) /\ At(ch, op.a).o = "EndIf"
         [] op.o = "EndIf" ->
               /\ Top({"If", "Else"})
               /\ At(ch, top).o = "If" => At(ch, top).a = ip
         [] op.o = "EndLoop" ->
               Top({"Loop"}) /\ op.a = top + 1 /\ At(ch, top).a = ip + 1
         [] op.o \in {"Break", "BreakIf"} ->
               /\ EnclosingLoop(ch, open) # {}
               /\ op.a = At(ch, Max(EnclosingLoop(ch, open))).a
         [] OTHER -> TRUE

verify_nesting(ch) ==
    LET open == Blocks(ch)
    IN /\ open[Size(ch)] = <<>>
       /\ \A ip \in Positions(ch) : Nests(ch, ip, open[ip])

\* The opener of the innermost block around ip, and the If an Else divides.
Opener(open, ip) == Last(open[ip])
TestOf(ch, open, opener) ==
    IF At(ch, opener).o = "Else" THEN Opener(open, opener) ELSE opener

(***************************************************************************)
(* The operand-depth pass: the absolute depth at each position, Exits when *)
(* no path reaches it.                                                     *)
(***************************************************************************)
Exits == -1
Larger(a, b) == IF a > b THEN a ELSE b
Leaving(ch, loop) ==
    {ip \in PositionsOf(ch, "Break") \cup PositionsOf(ch, "BreakIf") :
        ip > loop /\ At(ch, ip).a = At(ch, loop).a}

\* The depth behind position ip, d being that of the positions up to ip.
DepthBehind(ch, open, d, ip) ==
    LET op == At(ch, ip)
        opener == Opener(open, ip)
        test == d[TestOf(ch, open, opener) + 1]
        Net(q) == d[q + 1] + op_depth_effect(At(ch, q))[2]
        brks == {Net(q) : q \in {b \in Leaving(ch, opener) :
                                    b < ip /\ d[b + 1] # Exits}}
    IN CASE op.o \in {"Else", "EndIf", "EndLoop"} /\ test = Exits -> Exits
         [] op.o = "Else" -> test - 1
         [] op.o = "EndIf" /\ At(ch, opener).o = "If" ->
               Larger(test - 1, d[ip + 1])
         [] op.o = "EndIf" -> Larger(d[opener + 1], d[ip + 1])
         [] op.o = "EndLoop" -> CASE brks # {} -> Max(brks)
                                  [] d[ip + 1] # Exits -> d[ip + 1]
                                  [] OTHER -> test
         [] d[ip + 1] = Exits
            \/ op.o \in {"Trap", "Return", "Reset", "Break"} -> Exits
         [] OTHER -> Net(ip)

verify_depth_region(ch) ==
    LET open == Blocks(ch)
        upto[n \in 0 .. Size(ch)] ==
            IF n = 0 THEN <<0>>
            ELSE LET d == upto[n - 1]
                 IN Append(d, DepthBehind(ch, open, d, n - 1))
    IN upto[Size(ch)]

verify_stack_depth(ch) ==
    LET d == verify_depth_region(ch)
    IN /\ d[Size(ch) + 1] = Exits
       /\ \A ip \in Positions(ch) : d[ip + 1] # Exits =>
             /\ op_depth_effect(At(ch, ip))[1] <= d[ip + 1]
             /\ Len(Blocks(ch)[ip]) <= MaxRegionDepth

verify(m) ==
    /\ verify_flow(m)
    /\ \A c \in DOMAIN m : verify_nesting(m[c]) /\ verify_stack_depth(m[c])

-----------------------------------------------------------------------------
(***************************************************************************)
(* The walk that sums what instructions are charged: cycles, bytes or      *)
(* yields.  For each position it gives what lies between it and the end of *)
(* its region: the largest cost of a path, whether one falls through, and  *)
(* the largest cost at a break of the loop around, own for those of the    *)
(* region itself and inner for those of the arms in it, whose cost counts  *)
(* from the start of their arm.                                            *)
(***************************************************************************)
NoBreak == -1
RegionEnd == [ok |-> TRUE, cost |-> 0, falls |-> TRUE, own |-> NoBreak,
              inner |-> NoBreak]
Stop == [RegionEnd EXCEPT !.falls = FALSE]

\* The walk r, c later.
Behind(c, r) ==
    [r EXCEPT !.cost = @ + c, !.own = IF @ = NoBreak THEN NoBreak ELSE @ + c]
Breaking(c, r) == [r EXCEPT !.own = Larger(@, c)]
BreakCost(r) == Larger(r.own, r.inner)

\* An If, with the two arms or the one.
WalkArms(ch, charge, w, ip) ==
    LET op == At(ch, ip)
        then == w[ip + 1]
        else == IF HasElse(ch, op) THEN w[op.a] ELSE RegionEnd
        arms == IF HasElse(ch, op)
                THEN Larger(then.cost + charge[op.a - 1], else.cost)
                     + charge[EndIfOf(ch, op)]
                ELSE then.cost + charge[op.a]
        over == IF HasElse(ch, op) THEN EndIfOf(ch, op) ELSE op.a
        rest == Behind(charge[ip] + arms,
                       IF then.falls \/ else.falls THEN w[over + 1] ELSE Stop)
    IN [rest EXCEPT !.ok = @ /\ then.ok /\ else.ok,
                    !.inner = Larger(@, Larger(BreakCost(then), BreakCost(else)))]

\* A Loop: its passes, and for cycles the part of a pass up to the break.
LoopCost(kind, pass, n, brk) ==
    IF kind = "wcmu" THEN Larger(pass * n, brk) ELSE pass * n + brk

WalkLoop(ch, charge, kind, w, ip) ==
    LET op == At(ch, ip)
        body == w[ip + 1]
        single == \/ ~body.falls
                  \/ kind = "clamped" /\ loop_body_all_paths_yield_no_inner_loop(
                                              ch, ip + 1, op.a - 1)
        n == IF single THEN 1 ELSE extract_loop_iteration_bound(ch, ip)
        pass == body.cost + IF body.falls THEN charge[op.a - 1] ELSE 0
        brk == Pos(BreakCost(body))
        all == IF single THEN Larger(brk, pass) ELSE LoopCost(kind, pass, n, brk)
        leaves == body.falls \/ BreakCost(body) # NoBreak
        rest == Behind(charge[ip] + all, IF leaves THEN w[op.a] ELSE Stop)
    IN [rest EXCEPT !.ok = @ /\ body.ok /\ n # NoBound]

WalkFrom(ch, charge, kind, to, w, ip) ==
    IF \/ ip \in {to, Size(ch)}
       \/ At(ch, ip).o \in {"Else", "EndIf", "EndLoop"}
    THEN RegionEnd
    ELSE LET c == charge[ip]
         IN CASE At(ch, ip).o = "Break" -> Breaking(c, Behind(c, Stop))
              [] At(ch, ip).o \in {"Trap", "Return"} -> Behind(c, Stop)
              [] At(ch, ip).o = "BreakIf" -> Breaking(c, Behind(c, w[ip + 1]))
              [] At(ch, ip).o = "If" -> WalkArms(ch, charge, w, ip)
              [] At(ch, ip).o = "Loop" -> WalkLoop(ch, charge, kind, w, ip)
              [] OTHER -> Behind(c, w[ip + 1])

\* kind is "wcet", "clamped" (the walk of a Reentrant chunk) or "wcmu".
region_walk(ch, charge, kind, to) ==
    LET w[ip \in 0 .. Size(ch)] == WalkFrom(ch, charge, kind, to, w, ip)
    IN w

-----------------------------------------------------------------------------
(***************************************************************************)
(* The execution time.                                                     *)
(***************************************************************************)
\* The positions of a chunk with the cycles the execution-time walk charges.
chunk_wcet_extra_NoNatives(ch) ==
    [ip \in Positions(ch) |-> nominal_op_cycles(At(ch, ip))]
chunk_wcet_extra(ch) ==
    [ip \in Positions(ch) |->
        nominal_op_cycles(At(ch, ip))
        + IF At(ch, ip).o = "CallVerifiedNative"
          THEN NativeBounds[At(ch, ip).a].wcet ELSE 0]

Externals(ch) ==
    {At(ch, ip).a : ip \in PositionsOf(ch, "CallExternalNative")}
external_native_wcet(ch) ==
    MapThenSumSet(LAMBDA n : NativeBounds[n].wcet * Pos(NativeBounds[n].max),
                  Externals(ch))

wcet_stream_iteration(ch) ==
    LET r == region_walk(ch, chunk_wcet_extra(ch), "wcet",
                         FirstOf(ch, "Reset"))[FirstOf(ch, "Stream") + 1]
    IN IF r.ok THEN r.cost + 2 + external_native_wcet(ch) ELSE NoBound

\* Nesting level of a position: the blocks opened and not closed before it.
BlockDepth(ch, ip) ==
    Cardinality({q \in 0 .. ip - 1 : At(ch, q).o \in {"If", "Loop"}})
    - Cardinality({q \in 0 .. ip - 1 : At(ch, q).o \in {"EndIf", "EndLoop"}})

TopLevelYields(ch) ==
    Has(ch, "Yield") /\ \A y \in PositionsOf(ch, "Yield") : BlockDepth(ch, y) = 0

reentrant_segmented_wcet(ch) ==
    LET ys == PositionsOf(ch, "Yield")
        starts == {0} \cup {y + 1 : y \in ys}
        SegmentEnd(s) == IF \E y \in ys : y >= s
                         THEN Min({y \in ys : y >= s}) + 1 ELSE Size(ch)
        costs == {region_walk(ch, chunk_wcet_extra(ch), "wcet",
                              SegmentEnd(s))[s] : s \in starts}
    IN IF \E r \in costs : ~r.ok THEN NoBound
       ELSE Max({r.cost : r \in costs})

wcet_whole_chunk(ch) ==
    LET segmented == ch.kind = "Reentrant" /\ TopLevelYields(ch)
        r == region_walk(ch, chunk_wcet_extra(ch),
                         IF ch.kind = "Reentrant" THEN "clamped" ELSE "wcet",
                         Size(ch))[0]
        w == IF segmented THEN reentrant_segmented_wcet(ch)
             ELSE IF r.ok THEN r.cost ELSE NoBound
    IN IF w = NoBound THEN NoBound ELSE w + external_native_wcet(ch)

module_wcet_with_bounds(m) ==
    [c \in DOMAIN m |-> IF m[c].kind = "Stream" THEN wcet_stream_iteration(m[c])
                        ELSE wcet_whole_chunk(m[c])]

-----------------------------------------------------------------------------
(***************************************************************************)
(* The memory: operand slots and arena bytes.  callee gives each chunk     *)
(* already analysed its [ok, stack, heap].                                 *)
(***************************************************************************)
\* Bytes one instruction, its native or its callee allocates.
op_iteration_heap_Own(op, callee) == heap_alloc(op)
op_iteration_heap(op, callee) ==
    CASE op.o = "Call" -> callee[op.a].heap
      [] op.o \in Natives ->
            IF NativeBounds[op.a].max = PerCall
            THEN NativeBounds[op.a].wcmu ELSE 0
      [] OTHER -> heap_alloc(op)

\* The slots in use above off while an instruction runs.
DuringPeak_Shallow(op, off, callee) == Pos(off + stack_growth(op))
DuringPeak(op, off, callee) ==
    IF op.o = "Call"
    THEN Pos(Larger(off + callee[op.a].stack - op.b, off + 1))
    ELSE Pos(off + stack_growth(op))

(***************************************************************************)
(* The slots of each position that the walk gets to (live): off counts     *)
(* from the start of its region, up is where that start lies above the     *)
(* locals.  A loop leaves the offset at which it was entered.              *)
(***************************************************************************)
Unwalked == [live |-> FALSE, off |-> 0, up |-> 0]
wcmu_subregion(s, off) == [live |-> s.live, off |-> 0, up |-> s.up + Pos(off)]

SlotsBehind(ch, open, at, ip) ==
    LET op == At(ch, ip)
        s == at[ip + 1]
        opener == Opener(open, ip)
        q == at[TestOf(ch, open, opener) + 1]
        arms == IF At(ch, opener).o = "Else" THEN {at[opener + 1], s} ELSE {s}
        offs == {a.off : a \in {x \in arms : x.live}}
                \cup (IF At(ch, opener).o = "Else" THEN {} ELSE {0})
        net == s.off + stack_growth(op) - stack_shrink(op)
    IN CASE op.o \in {"Break", "Trap", "Return"} -> [s EXCEPT !.live = FALSE]
         [] op.o \in {"If", "Loop"} -> wcmu_subregion(s, net)
         [] op.o = "Else" -> wcmu_subregion(q, q.off - 1)
         [] op.o = "EndIf" -> [q EXCEPT !.live = @ /\ offs # {},
                                        !.off = @ - 1 + Ints(offs)]
         [] op.o = "EndLoop" ->
               [q EXCEPT !.live = /\ @
                                  /\ \/ s.live
                                     \/ \E b \in Leaving(ch, opener) :
                                           b < ip /\ at[b + 1].live]
         [] OTHER -> [s EXCEPT !.off = net]

wcmu_region(ch, from) ==
    LET open == Blocks(ch)
        upto[n \in 0 .. Size(ch)] ==
            IF n = 0 THEN <<[Unwalked EXCEPT !.live = from = 0]>>
            ELSE LET at == upto[n - 1]
                 IN Append(at, IF n < from THEN Unwalked
                               ELSE IF n = from THEN [Unwalked EXCEPT !.live = TRUE]
                               ELSE SlotsBehind(ch, open, at, n - 1))
    IN upto[Size(ch)]

\* Where the walks of memory and yields start and end.
Start(ch) == IF ch.kind = "Stream" THEN FirstOf(ch, "Stream") + 1 ELSE 0
Finish(ch) == IF ch.kind = "Stream" THEN FirstOf(ch, "Reset") ELSE Size(ch)

heap_charge(ch, callee) ==
    [ip \in Positions(ch) |-> op_iteration_heap(At(ch, ip), callee)]

compute_chunk_wcmu(ch, callee) ==
    LET at == wcmu_region(ch, Start(ch))
        walked == {ip \in Start(ch) .. Finish(ch) - 1 : at[ip + 1].live}
        r == region_walk(ch, heap_charge(ch, callee), "wcmu", Finish(ch))[Start(ch)]
        external == MapThenSumSet(
            LAMBDA n : NativeBounds[n].wcmu * Pos(NativeBounds[n].max),
            Externals(ch))
    IN [ok |-> r.ok,
        stack |-> ch.locals
                  + Ints({at[ip + 1].up + DuringPeak(At(ch, ip), at[ip + 1].off,
                                                     callee) : ip \in walked}),
        heap |-> r.cost + external]

\* The topological order visits callees first: as many rounds as calls nest
\* reach every caller.
module_wcmu_with_bounds(m) ==
    LET round[n \in 0 .. module_call_depth(m)] ==
            IF n = 0 THEN [c \in DOMAIN m |-> [ok |-> TRUE, stack |-> 0, heap |-> 0]]
            ELSE LET callee == round[n - 1]
                 IN [c \in DOMAIN m |-> compute_chunk_wcmu(m[c], callee)]
    IN round[module_call_depth(m)]

-----------------------------------------------------------------------------
(***************************************************************************)
(* The number of resumes before the next reset: the execution-time walk    *)
(* with a Yield costing one and a Call costing what its callee yields.     *)
(***************************************************************************)
Reachable(m, c) ==
    LET seen[n \in 0 .. Len(m)] ==
            IF n = 0 THEN {c}
            ELSE LET S == seen[n - 1] IN S \cup UNION {Callees(m[d]) : d \in S}
    IN seen[Len(m)]
MayYield(m, c) == \E d \in Reachable(m, c) : Has(m[d], "Yield")

\* yielded is what each callee yields.
yield_charge(ch, yielded) ==
    [ip \in Positions(ch) |-> CASE At(ch, ip).o = "Yield" -> 1
                                [] At(ch, ip).o = "Call" -> yielded[At(ch, ip).a]
                                [] OTHER -> 0]

yield_walk(ch, yielded, to) ==
    region_walk(ch, yield_charge(ch, yielded), "wcet", to)[0]
region_yield_count(m, yielded, c, to) ==
    IF MayYield(m, c) THEN yield_walk(m[c], yielded, to).cost ELSE 0

\* What a call of each chunk yields.
yield_counts(m) ==
    LET round[n \in 0 .. module_call_depth(m)] ==
            IF n = 0 THEN [c \in DOMAIN m |-> 0]
            ELSE LET yielded == round[n - 1]
                 IN [c \in DOMAIN m |->
                        region_yield_count(m, yielded, c, Size(m[c]))]
    IN round[module_call_depth(m)]

max_resumes_before_reset_Own(m, c) ==
    Cardinality(PositionsOf(m[c], "Yield"))
max_resumes_before_reset(m, c) ==
    LET yielded == yield_counts(m)
    IN IF \E d \in Reachable(m, c) :
             MayYield(m, d) /\ ~yield_walk(m[d], yielded, Size(m[d])).ok
       THEN NoBound
       ELSE region_yield_count(m, yielded, c, Finish(m[c]))
=============================================================================
