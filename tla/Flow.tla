-------------------------------- MODULE Flow --------------------------------
(***************************************************************************)
(* The passes of the load-time verifier that follow control from one       *)
(* instruction to the next: operand ranges, block types, yield coverage    *)
(* and the call graph of src/src/verify.rs, the operand heights of         *)
(* src/src/verify_typed.rs and definite initialisation of                  *)
(* src/src/verify_init.rs.  They decide whether the dispatch loop of       *)
(* ChunkRun may trust a frame's operands and locals, and whether a stream  *)
(* gives control back.                                                     *)
(*                                                                         *)
(* Each analysis is computed in rounds and then read off: a check states   *)
(* what the pass found to hold of the result on every edge, which is what  *)
(* the soundness proofs use, whatever the rounds did.                      *)
(***************************************************************************)
EXTENDS Bytecode

Ints(S) == IF S = {} THEN 0 ELSE Max(S)

check_forward_control_flow_targets(ch) ==
    \A ip \in Positions(ch) :
        At(ch, ip).o \in {"If", "Else", "Loop"} =>
            At(ch, ip).a > ip /\ At(ch, ip).a <= Size(ch)

-----------------------------------------------------------------------------
\* verify_chunk, pass 1: slots, callees and natives are in range.
InRange(ch, m, op) ==
    CASE op.o \in {"GetLocal", "SetLocal"} -> op.a < ch.locals
      [] op.o = "Call" -> op.a \in DOMAIN m /\ op.b <= m[op.a].locals
      [] op.o \in Natives -> op.a \in DOMAIN NativeBounds
      [] OTHER -> TRUE
verify_operands(ch, m) ==
    \A ip \in Positions(ch) : InRange(ch, m, At(ch, ip))

-----------------------------------------------------------------------------
\* Where control goes from ip.
Targets(ch, ip) ==
    LET op == At(ch, ip)
    IN CASE op.o \in {"If", "BreakIf"} -> {ip + 1, op.a}
         [] op.o \in {"Else", "EndLoop", "Break"} -> {op.a}
         [] op.o \in {"Return", "Trap", "Reset"} -> {}
         [] OTHER -> {ip + 1}

successors(ch, ip) == Targets(ch, ip) \cap Positions(ch)

(***************************************************************************)
(* The operand heights.  interp_region walks the instructions in order;    *)
(* the height before one is what the edges from earlier ones bring, Dead   *)
(* when none does.  The element shapes of the abstract stack are left out. *)
(* (After a loop that nothing leaves the source goes on with the height of *)
(* its body; control never gets there.)                                    *)
(***************************************************************************)
Dead == -1

Arrivals(ch, h, ip) ==
    {h[q + 1] + op_depth_effect(At(ch, q))[2] :
        q \in {p \in 0 .. ip - 1 : h[p + 1] # Dead /\ ip \in Targets(ch, p)}}

interp_region(ch) ==
    LET upto[n \in 0 .. Size(ch)] ==
            IF n = 0 THEN <<>>
            ELSE LET h == upto[n - 1]
                     from == IF n = 1 THEN {0} ELSE Arrivals(ch, h, n - 1)
                 IN Append(h, IF from = {} THEN Dead ELSE Max(from))
    IN upto[Size(ch)]

\* No instruction finds fewer operands than it consumes (StackUnderflow).
NoUnderflow(ch, h) ==
    \A ip \in Positions(ch) :
        h[ip + 1] # Dead => op_depth_effect(At(ch, ip))[1] <= h[ip + 1]

\* Edges that meet agree: the arms of a branch and the breaks of a loop
\* (join_stacks), and the back edge with the loop's entry (LoopNotNeutral).
EdgesAgree(ch, h) ==
    /\ h[1] = 0
    /\ \A ip \in Positions(ch) : \A t \in successors(ch, ip) :
          h[ip + 1] # Dead =>
              h[t + 1] = h[ip + 1] + op_depth_effect(At(ch, ip))[2]

\* A loop's body leaves the operands below the loop's entry alone.
check_floor(ch, h) ==
    \A loop \in PositionsOf(ch, "Loop") :
        \A ip \in loop + 1 .. At(ch, loop).a - 2 :
            \/ h[loop + 1] \in {Dead, 0} \/ h[ip + 1] = Dead
            \/ At(ch, ip).o \in {"Return", "Break"}
            \/ h[ip + 1] >= h[loop + 1] + op_depth_effect(At(ch, ip))[1]

typed_check_chunk_Off(ch) == TRUE
typed_check_chunk(ch) ==
    LET h == interp_region(ch)
    IN NoUnderflow(ch, h) /\ EdgesAgree(ch, h) /\ check_floor(ch, h)

\* verify_stack_depth's last check: no path runs off the end of the chunk.
verify_terminal(ch) ==
    LET h == interp_region(ch)
    IN /\ Size(ch) > 0
       /\ \A ip \in Positions(ch) :
             h[ip + 1] # Dead => Targets(ch, ip) \subseteq Positions(ch)

-----------------------------------------------------------------------------
(***************************************************************************)
(* Definite initialisation of locals, stated on the complement of the sets *)
(* the source intersects: the positions some path reaches before it has    *)
(* written slot v.                                                         *)
(***************************************************************************)
\* A reset empties every slot, and a resume refills slot 0 of a stream that
\* has a parameter: slot v is empty after Stream unless it is that one.
EmptyAfterStream(ch, v) == v # 0 \/ ch.params = 0

Writes(ch, ip, v) ==
    \/ At(ch, ip) = Unary("SetLocal", v)
    \/ At(ch, ip).o = "Stream" /\ ~EmptyAfterStream(ch, v)

\* Where v is empty to begin with.
EmptyAt(ch, v) ==
    (IF v < ch.params THEN {} ELSE {0})
    \cup IF EmptyAfterStream(ch, v)
         THEN {ip + 1 : ip \in PositionsOf(ch, "Stream")} ELSE {}

\* The positions that those of S hand v on to unwritten.
Passes(ch, v, S) ==
    UNION {successors(ch, ip) : ip \in {q \in S : ~Writes(ch, q, v)}}

must_analysis(ch, v) ==
    LET seen[n \in 0 .. Size(ch)] ==
            IF n = 0 THEN EmptyAt(ch, v) \cap Positions(ch)
            ELSE LET S == seen[n - 1] IN S \cup Passes(ch, v, S)
    IN seen[Size(ch)]

\* The work list has run dry: no set changes any more.
Settled(ch, v, S) ==
    /\ EmptyAt(ch, v) \cap Positions(ch) \subseteq S
    /\ Passes(ch, v, S) \subseteq S

check_locals_Off(ch) == TRUE
check_locals(ch) ==
    \A v \in 0 .. ch.locals - 1 :
        LET S == must_analysis(ch, v)
        IN /\ Settled(ch, v, S)
           /\ \A ip \in S \cap PositionsOf(ch, "GetLocal") : At(ch, ip).a # v

-----------------------------------------------------------------------------
(***************************************************************************)
(* Yield coverage.  The walk has no case for Return: it goes on behind it, *)
(* as behind Trap and Reset.  (The source walks regions, and answers       *)
(* "silent" below MAX_REGION_DEPTH, where verify_stack_depth refuses.)     *)
(***************************************************************************)
Walks(ch, ip) ==
    IF At(ch, ip).o \in {"Return", "Trap", "Reset"} THEN {ip + 1}
    ELSE Targets(ch, ip)

\* What counts as a yield when the chunks of always do.
YieldSites(ch, always) ==
    PositionsOf(ch, "Yield")
    \cup {ip \in PositionsOf(ch, "Call") : At(ch, ip).a \in always}

\* One step from the positions of S before to, except from those in sites.
WalksOn(ch, to, sites, S) ==
    (UNION {Walks(ch, ip) : ip \in (S \cap 0 .. to - 1) \ sites}) \cap 0 .. to

Walked(ch, from, to, sites) ==
    LET seen[n \in 0 .. Size(ch)] ==
            IF n = 0 THEN {from}
            ELSE LET S == seen[n - 1] IN S \cup WalksOn(ch, to, sites, S)
    IN seen[Size(ch)]

\* "yields" when every path that reaches to has passed a yield, "silent" when
\* some has not, "exits" when none reaches it.
analyze_yield_coverage(ch, from, to, always) ==
    CASE to \in Walked(ch, from, to, YieldSites(ch, always)) -> "silent"
      [] to \notin Walked(ch, from, to, {}) -> "exits"
      [] OTHER -> "yields"

\* Chunks that yield given that those of S do, until no more are found.
Covered(m, S) ==
    {c \in DOMAIN m :
        analyze_yield_coverage(m[c], 0, Size(m[c]), S) = "yields"}
compute_always_yielding(m) ==
    LET round[n \in 0 .. Len(m)] ==
            IF n = 0 THEN {}
            ELSE LET S == round[n - 1] IN S \cup Covered(m, S)
    IN round[Len(m)]

\* Pass 2: what a block type may and must contain.
verify_block_type(ch, always) ==
    /\ IF ch.kind = "Func" THEN ~Has(ch, "Yield")
       ELSE YieldSites(ch, always) # {}
    /\ \A o \in {"Stream", "Reset"} :
          IF ch.kind = "Stream" THEN Cardinality(PositionsOf(ch, o)) = 1
          ELSE ~Has(ch, o)

\* The positions a chunk reaches from one of its own without a yield.
Silent(ch, from, always) ==
    Walked(ch, from, Size(ch), YieldSites(ch, always))
Silence(ch, from, always, S) ==
    from \in S /\ WalksOn(ch, Size(ch), YieldSites(ch, always), S) \subseteq S

\* Pass 3: no path from Stream to Reset is silent.
verify_productivity_Off(ch, always) == TRUE
verify_productivity(ch, always) ==
    ch.kind = "Stream" =>
        LET start == FirstOf(ch, "Stream") + 1
            S == Silent(ch, start, always)
        IN Silence(ch, start, always, S) /\ S \cap PositionsOf(ch, "Reset") = {}

-----------------------------------------------------------------------------
(***************************************************************************)
(* The call graph: the depth of calls below each chunk, callees first.     *)
(***************************************************************************)
CallDepths(m) ==
    LET depth[n \in 0 .. Len(m)] ==
            IF n = 0 THEN [c \in DOMAIN m |-> 1]
            ELSE LET d == depth[n - 1]
                 IN [c \in DOMAIN m |-> 1 + Ints({d[e] : e \in Callees(m[c])})]
    IN depth[Len(m)]

\* Refuses a module with a chunk that reaches itself: no order puts all its
\* callees before it.
topological_call_order(m) ==
    LET d == CallDepths(m)
    IN \A c \in DOMAIN m :
          d[c] \in Nat \ {0} /\ \A e \in Callees(m[c]) : d[e] < d[c]

module_call_depth_Callers(m) == Ints({CallDepths(m)[c] : c \in DOMAIN m}) - 1
module_call_depth(m) == Ints({CallDepths(m)[c] : c \in DOMAIN m})

\* What verify establishes of the edges of a module's chunks.
verify_flow(m) ==
    LET always == compute_always_yielding(m)
    IN \A c \in DOMAIN m :
          /\ check_forward_control_flow_targets(m[c])
          /\ verify_operands(m[c], m)
          /\ verify_block_type(m[c], always)
          /\ verify_productivity(m[c], always)
          /\ verify_terminal(m[c])
          /\ check_locals(m[c])
          /\ typed_check_chunk(m[c])
=============================================================================
