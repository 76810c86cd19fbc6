--------------------------- MODULE ChunkRunProofs ---------------------------
(***************************************************************************)
(* What the verifier's checks of a module's edges (Flow) guarantee of the  *)
(* dispatch loop (ChunkRun), for every module they admit: the operands and *)
(* locals of every frame are where the verifier computed them to be.       *)
(*                                                                         *)
(* The invariant is stated by constant operators whose arguments are the   *)
(* components of a state, so that one lemma serves the state before and    *)
(* the state after a step.                                                 *)
(***************************************************************************)
EXTENDS ChunkRun, SequenceTheorems, WellFoundedInduction, TLAPS

Value == Nat \cup {Empty}
FrameTypes(m) == [chunk : DOMAIN m, ip : Nat, base : Nat, cost : Nat,
                  heap : Nat, yielded : BOOLEAN]

Admitted(m) ==
    /\ m \in Seq(Chunks)
    /\ verify_flow(m) /\ topological_call_order(m) /\ Lowered(m)

\* The stack position where the locals of frame f end and its operands begin.
Rim(m, f) == f.base + m[f.chunk].locals

\* The operands the verifier computed for the position of frame f.
Height(m, f) == interp_region(m[f.chunk])[f.ip + 1]

\* Frame f ends at stack position top, with all operands the verifier counts
\* but the due ones: the result of a call or a yield not delivered yet.
Placed(m, f, top, due) ==
    /\ f.ip \in Positions(m[f.chunk])
    /\ Height(m, f) \in Nat
    /\ due <= Height(m, f)
    /\ Rim(m, f) + Height(m, f) - due = top

\* Its operands are values, and its unwritten locals are where the analysis
\* of initialisation lets them be; slot 0 of a stream that waits for its
\* resume after a reset is the exception.
Filled(m, f, st, top, mode) ==
    /\ \A i \in Rim(m, f) + 1 .. top : st[i] # Empty
    /\ \A v \in 0 .. m[f.chunk].locals - 1 :
          st[f.base + v + 1] = Empty =>
              IF EmptyAfterStream(m[f.chunk], v)
              THEN f.ip \in must_analysis(m[f.chunk], v) ELSE mode = "Reset"

FrameOK(m, f, st, top, due, mode) ==
    Placed(m, f, top, due) /\ Filled(m, f, st, top, mode)

Ceiling(fs, st, k) == IF k = Len(fs) THEN Len(st) ELSE fs[k + 1].base
Due(fs, s, k) == IF k < Len(fs) \/ s = "Yielded" THEN 1 ELSE 0

Mode(fs, s, k) == IF k = Len(fs) /\ s = "Reset" THEN "Reset" ELSE "Running"

\* The frames lie one above the other.
Stacked(m, fs, st) ==
    /\ fs # <<>> => fs[1].base = 0
    /\ \A j, k \in 1 .. Len(fs) : j < k => Rim(m, fs[j]) <= fs[k].base
    /\ \A k \in 1 .. Len(fs) : Rim(m, fs[k]) <= Len(st)

Sound(m, fs, st, s) ==
    \A k \in 1 .. Len(fs) :
        FrameOK(m, fs[k], st, Ceiling(fs, st, k), Due(fs, s, k),
                Mode(fs, s, k))

Machine(m, fs, st, s) ==
    /\ fs \in Seq(FrameTypes(m))
    /\ st \in Seq(Value)
    /\ s \in {"Idle", "Running", "Yielded", "Reset", "Finished", "Error"}
    /\ (fs = <<>>) = (s \in {"Idle", "Finished"})
    /\ fs = <<>> => st = <<>>
    /\ s = "Reset" => m[fs[Len(fs)].chunk].kind = "Stream"
    /\ Stacked(m, fs, st)
    /\ s # "Error" => Sound(m, fs, st, s)

IInv ==
    /\ Admitted(mod)
    /\ yields \in Nat
    /\ Machine(mod, frames, stack, status)

\* Every call below a frame has its place in the attested depth.
DepthInv ==
    /\ attested.depth = module_call_depth(mod)
    /\ \A k \in DOMAIN frames :
          CallDepths(mod)[frames[k].chunk] + k <= attested.depth + 1

\* Frame f, the k-th of the stack, is where it can be without having yielded.
Quiet(m, f, k) ==
    LET ch == m[f.chunk]
        always == compute_always_yielding(m)
    IN /\ ch.kind = "Stream" => f.ip = 0 \/ f.ip \in Silent(ch, 1, always)
       /\ k > 1 /\ f.chunk \in always => f.ip \in Silent(ch, 0, always)

\* A frame that has not yielded is quiet, unless the call it waits for counts
\* as its yield; whoever yields makes its callers yield.
Calm(m, fs, k) ==
    /\ k > 1 => /\ fs[k].chunk \in Callees(m[fs[k - 1].chunk])
                /\ fs[k].yielded => fs[k - 1].yielded
    /\ \/ fs[k].yielded \/ Quiet(m, fs[k], k)
       \/ k < Len(fs) /\ fs[k + 1].chunk \in compute_always_yielding(m)

Hushed(m, fs) == \A k \in 1 .. Len(fs) : Calm(m, fs, k)

QuietInv ==
    /\ DelegatesCover(mod)
    /\ status # "Error" => Hushed(mod, frames)

-----------------------------------------------------------------------------
\* What the verifier's passes say of an instruction and of a chunk.

LEMMA EffectType ==
    ASSUME NEW op \in Instruction
    PROVE  /\ op_depth_effect(op)[1] \in Nat
           /\ op_depth_effect(op)[2] \in Int
           /\ op_depth_effect(op)[1] + op_depth_effect(op)[2] \in Nat
<1>1. op.a \in Nat /\ op.b \in Nat
    BY DEF Instruction
<1>2. op_depth_effect(op) \in
          {<<0, 1>>, <<1, -1>>, <<2, -1>>, <<2, 1>>, <<1, 0>>, <<0, 0>>,
           <<op.a, -op.a>>, <<op.a, 1 - op.a>>, <<op.b, 1 - op.b>>,
           <<op.b, 2 - op.b>>}
    BY Zenon DEF op_depth_effect
<1> QED BY <1>1, <1>2

\* The effect of each instruction.
LEMMA Effects ==
    ASSUME NEW op \in Instruction
    PROVE  /\ op.o \in {"Const", "PushImmediate", "GetLocal", "GetData"} =>
                  op_depth_effect(op) = <<0, 1>>
           /\ op.o \in {"SetLocal", "If", "BreakIf"} =>
                  op_depth_effect(op) = <<1, -1>>
           /\ op.o \in {"CmpGe", "CmpEq"} => op_depth_effect(op) = <<2, -1>>
           /\ op.o = "CheckedAdd" => op_depth_effect(op) = <<2, 1>>
           /\ op.o = "Yield" => op_depth_effect(op) = <<1, 0>>
           /\ op.o = "PopN" => op_depth_effect(op) = <<op.a, -op.a>>
           /\ op.o = "NewComposite" => op_depth_effect(op) = <<op.a, 1 - op.a>>
           /\ op.o = "Call" => op_depth_effect(op) = <<op.b, 1 - op.b>>
           /\ op.o \in Natives => op_depth_effect(op) = <<op.b, 2 - op.b>>
           /\ op.o \in {"Else", "EndIf", "Loop", "EndLoop", "Break", "Stream",
                        "Reset", "Return"} =>
                  op_depth_effect(op) = <<0, 0>>
BY DEF op_depth_effect, Natives

LEMMA ModuleType ==
    ASSUME NEW m \in Seq(Chunks), NEW c \in DOMAIN m
    PROVE  /\ m[c].ops \in Seq(Instruction) /\ m[c].params \in Nat
           /\ m[c].locals \in Nat /\ Size(m[c]) \in Nat
           /\ m[c].kind \in {"Func", "Reentrant", "Stream"}
           /\ \A ip \in Positions(m[c]) :
                 /\ ip \in Nat /\ At(m[c], ip) \in Instruction
                 /\ At(m[c], ip).a \in Nat /\ At(m[c], ip).b \in Nat
                 /\ At(m[c], ip).o \in Opcodes
<1>1. m[c] \in Chunks OBVIOUS
<1>2. m[c].ops \in Seq(Instruction) BY <1>1 DEF Chunks
<1>3. ASSUME NEW ip \in Positions(m[c])
      PROVE  ip \in Nat /\ At(m[c], ip) \in Instruction
  BY <1>2, <1>3 DEF Positions, Size, At
<1>4. \A op \in Instruction : op.a \in Nat /\ op.b \in Nat /\ op.o \in Opcodes
  BY DEF Instruction
<1> QED BY <1>1, <1>2, <1>3, <1>4 DEF Chunks, Size

\* The checks of verify_flow, for one chunk.
LEMMA FlowChecks ==
    ASSUME NEW m, Admitted(m), NEW c \in DOMAIN m
    PROVE  /\ verify_operands(m[c], m)
           /\ verify_block_type(m[c], compute_always_yielding(m))
           /\ verify_productivity(m[c], compute_always_yielding(m))
           /\ verify_terminal(m[c])
           /\ check_locals(m[c])
           /\ typed_check_chunk(m[c])
BY Zenon DEF Admitted, verify_flow

\* Heights along an edge, whatever the interpretation of the chunk did.
LEMMA HeightStep ==
    ASSUME NEW m, Admitted(m), NEW c \in DOMAIN m,
           NEW ip \in Positions(m[c]), interp_region(m[c])[ip + 1] \in Nat
    PROVE  /\ op_depth_effect(At(m[c], ip))[1] <= interp_region(m[c])[ip + 1]
           /\ \A t \in Targets(m[c], ip) :
                 /\ t \in Positions(m[c])
                 /\ interp_region(m[c])[t + 1]
                      = interp_region(m[c])[ip + 1]
                        + op_depth_effect(At(m[c], ip))[2]
<1> DEFINE h == interp_region(m[c])
<1>1. /\ NoUnderflow(m[c], h) /\ EdgesAgree(m[c], h)
      /\ \A p \in Positions(m[c]) :
            h[p + 1] # Dead => Targets(m[c], p) \subseteq Positions(m[c])
    BY FlowChecks, Zenon DEF typed_check_chunk, verify_terminal
<1>2. h[ip + 1] # Dead
    BY DEF Dead
<1> HIDE DEF h
<1>3. op_depth_effect(At(m[c], ip))[1] <= h[ip + 1]
    BY <1>1, <1>2, Zenon DEF NoUnderflow
<1>4. ASSUME NEW t \in Targets(m[c], ip)
      PROVE  /\ t \in Positions(m[c])
             /\ h[t + 1] = h[ip + 1] + op_depth_effect(At(m[c], ip))[2]
  <2>1. t \in Positions(m[c])
      BY <1>1, <1>2
  <2>2. t \in successors(m[c], ip)
      BY <2>1 DEF successors
  <2> QED BY <1>1, <1>2, <2>1, <2>2, Zenon DEF EdgesAgree
<1> QED BY <1>3, <1>4 DEF h

\* A frame enters at position 0 with no operands, and a stream's Reset comes
\* back to position 1 with none.
LEMMA Entry ==
    ASSUME NEW m, Admitted(m), NEW c \in DOMAIN m
    PROVE  /\ 0 \in Positions(m[c]) /\ interp_region(m[c])[1] = 0
           /\ m[c].kind = "Stream" =>
                 /\ FirstOf(m[c], "Stream") = 0
                 /\ 1 \in Positions(m[c]) /\ interp_region(m[c])[2] = 0
                 /\ At(m[c], 0).o = "Stream"
<1>0. m \in Seq(Chunks)
    BY DEF Admitted
<1>1. Size(m[c]) \in Nat /\ Size(m[c]) > 0
    BY <1>0, ModuleType, FlowChecks DEF verify_terminal
<1>2. 0 \in Positions(m[c])
    BY <1>1 DEF Positions
<1>3. interp_region(m[c])[1] = 0
    BY FlowChecks, Zenon DEF typed_check_chunk, EdgesAgree
<1>4. ASSUME m[c].kind = "Stream"
      PROVE  /\ FirstOf(m[c], "Stream") = 0
             /\ 1 \in Positions(m[c]) /\ interp_region(m[c])[2] = 0
             /\ At(m[c], 0).o = "Stream"
  <2>1. At(m[c], 0).o = "Stream"
      BY <1>4 DEF Admitted, Lowered
  <2>2. 0 \in PositionsOf(m[c], "Stream")
      BY <1>2, <2>1 DEF PositionsOf
  <2>3. \A p \in PositionsOf(m[c], "Stream") : p \in Nat
      BY <1>0, <1>1 DEF PositionsOf, Positions
  <2>4. Min(PositionsOf(m[c], "Stream")) = 0
      BY <2>2, <2>3 DEF Min
  <2>5. Targets(m[c], 0) = {0 + 1}
      BY <2>1 DEF Targets
  <2>6. op_depth_effect(At(m[c], 0)) = <<0, 0>>
      BY <1>0, <1>2, <2>1, ModuleType, Effects
  <2>7. 0 + 1 \in Positions(m[c]) /\ interp_region(m[c])[(0 + 1) + 1] = 0
      BY <1>2, <1>3, <2>5, <2>6, HeightStep
  <2> QED BY <2>1, <2>4, <2>7 DEF FirstOf
<1> QED BY <1>2, <1>3, <1>4

\* The set of positions where slot v may be unwritten: where it begins, that
\* it is closed under steps that do not write v, and that none of them reads v.
LEMMA Unwritten ==
    ASSUME NEW m, Admitted(m), NEW c \in DOMAIN m,
           NEW v \in 0 .. m[c].locals - 1
    PROVE  /\ ~(v < m[c].params) => 0 \in must_analysis(m[c], v)
           /\ m[c].kind = "Stream" /\ EmptyAfterStream(m[c], v) =>
                 1 \in must_analysis(m[c], v)
           /\ \A ip \in must_analysis(m[c], v) :
                 ~Writes(m[c], ip, v) =>
                     Targets(m[c], ip) \cap Positions(m[c])
                         \subseteq must_analysis(m[c], v)
           /\ \A ip \in Positions(m[c]) \cap must_analysis(m[c], v) :
                 At(m[c], ip).o = "GetLocal" => At(m[c], ip).a # v
<1> DEFINE S == must_analysis(m[c], v)
<1>1. /\ EmptyAt(m[c], v) \cap Positions(m[c]) \subseteq S
      /\ Passes(m[c], v, S) \subseteq S
      /\ \A ip \in S \cap PositionsOf(m[c], "GetLocal") : At(m[c], ip).a # v
    BY FlowChecks, Zenon DEF check_locals, Settled
<1> HIDE DEF S
<1>2. ~(v < m[c].params) => 0 \in S
  <2>1. ~(v < m[c].params) => 0 \in EmptyAt(m[c], v)
      BY Zenon DEF EmptyAt
  <2> QED BY <1>1, <2>1, Entry
<1>3. ASSUME m[c].kind = "Stream", EmptyAfterStream(m[c], v)
      PROVE  1 \in S
  <2>1. 0 \in PositionsOf(m[c], "Stream") /\ 1 \in Positions(m[c])
      BY <1>3, Entry DEF PositionsOf
  <2>2. 0 + 1 \in EmptyAt(m[c], v)
      BY <1>3, <2>1, Zenon DEF EmptyAt
  <2> QED BY <1>1, <2>1, <2>2
<1>4. ASSUME NEW ip \in S, ~Writes(m[c], ip, v)
      PROVE  Targets(m[c], ip) \cap Positions(m[c]) \subseteq S
  <2>1. successors(m[c], ip) \subseteq Passes(m[c], v, S)
      BY <1>4, Zenon DEF Passes
  <2> QED BY <1>1, <2>1 DEF successors
<1>5. ASSUME NEW ip \in Positions(m[c]) \cap S, At(m[c], ip).o = "GetLocal"
      PROVE  At(m[c], ip).a # v
    BY <1>1, <1>5, Zenon DEF PositionsOf
<1> QED BY <1>2, <1>3, <1>4, <1>5, Zenon DEF S

-----------------------------------------------------------------------------
\* Frames.

LEMMA SequenceFacts ==
    ASSUME NEW S, NEW s \in Seq(S)
    PROVE  /\ Len(s) \in Nat
           /\ \A i \in 1 .. Len(s) : s[i] \in S
           /\ s # <<>> <=> Len(s) > 0
BY EmptySeq

LEMMA FrameFacts ==
    ASSUME NEW m \in Seq(Chunks), NEW f \in FrameTypes(m)
    PROVE  /\ f.chunk \in DOMAIN m /\ f.ip \in Nat /\ f.base \in Nat
           /\ f.cost \in Nat /\ f.heap \in Nat /\ f.yielded \in BOOLEAN
           /\ m[f.chunk].locals \in Nat
           /\ Rim(m, f) = f.base + m[f.chunk].locals
           /\ Rim(m, f) \in Nat /\ f.base <= Rim(m, f)
<1>1. f.chunk \in DOMAIN m
    BY DEF FrameTypes
<1>2. m[f.chunk].locals \in Nat
    BY <1>1, ModuleType
<1> QED BY <1>1, <1>2 DEF FrameTypes, Rim

\* A frame below the top stays as it is when nothing below its end is emptied.
LEMMA KeepFrame ==
    ASSUME NEW m, NEW f, NEW g, NEW st, NEW u, NEW top, NEW due,
           m \in Seq(Chunks), f \in FrameTypes(m), top \in Nat,
           FrameOK(m, f, st, top, due, "Running"),
           g.chunk = f.chunk, g.ip = f.ip, g.base = f.base,
           Rim(m, f) <= top,
           \A i \in 1 .. top : u[i] = Empty => st[i] = Empty
    PROVE  FrameOK(m, g, u, top, due, "Running")
<1>0. /\ f.base \in Nat /\ m[f.chunk].locals \in Nat
      /\ Rim(m, f) = f.base + m[f.chunk].locals /\ Rim(m, g) = Rim(m, f)
    BY FrameFacts DEF Rim
<1>1. Placed(m, g, top, due)
    BY <1>0 DEF FrameOK, Placed, Height
<1>2. Filled(m, g, u, top, "Running")
  <2>1. \A i \in Rim(m, f) + 1 .. top : u[i] # Empty
      BY <1>0 DEF FrameOK, Filled
  <2>2. ASSUME NEW v \in 0 .. m[f.chunk].locals - 1,
               u[f.base + v + 1] = Empty
        PROVE  IF EmptyAfterStream(m[f.chunk], v)
               THEN f.ip \in must_analysis(m[f.chunk], v)
               ELSE "Running" = "Reset"
    <3> DEFINE b == f.base
               l == m[f.chunk].locals
    <3>0. b \in Nat /\ l \in Nat /\ b + l <= top /\ v \in 0 .. l - 1
        BY <1>0
    <3> HIDE DEF b, l
    <3>1. b + v + 1 \in 1 .. top
        BY <3>0
    <3>2. st[f.base + v + 1] = Empty
        BY <2>2, <3>1, Zenon DEF b
    <3> QED BY <3>2, Zenon DEF FrameOK, Filled
  <2> QED BY <1>0, <2>1, <2>2, Zenon DEF Filled
<1> QED BY <1>1, <1>2 DEF FrameOK

\* From frame f and stack st to frame g and stack u along an edge: g ends at
\* top, with due operands to come, none of its operands is Empty, and neither
\* is a local that was not before or that the instruction of effect e wrote.
Follows(m, f, g, st, u, top, due, e) ==
    /\ top \in Nat /\ due \in {0, 1}
    /\ g.chunk = f.chunk /\ g.base = f.base
    /\ g.ip \in Targets(m[f.chunk], f.ip)
    /\ e = op_depth_effect(At(m[f.chunk], f.ip))
    /\ due <= e[1] + e[2] /\ top = Len(st) + e[2] - due
    /\ \A i \in Rim(m, f) + 1 .. top : u[i] # Empty
    /\ \A v \in 0 .. m[f.chunk].locals - 1 :
          u[f.base + v + 1] = Empty =>
              st[f.base + v + 1] = Empty /\ ~Writes(m[f.chunk], f.ip, v)

\* A frame that moves along an edge is where the verifier expects it.
LEMMA MoveFrame ==
    ASSUME NEW m, Admitted(m), NEW f \in FrameTypes(m), NEW g,
           NEW st \in Seq(Value), NEW u, NEW top, NEW due, NEW e,
           FrameOK(m, f, st, Len(st), 0, "Running"),
           Follows(m, f, g, st, u, top, due, e)
    PROVE  FrameOK(m, g, u, top, due, "Running")
<1> DEFINE t == g.ip
<1>f. /\ top \in Nat /\ due \in {0, 1}
      /\ g.chunk = f.chunk /\ g.base = f.base
      /\ t \in Targets(m[f.chunk], f.ip)
      /\ e = op_depth_effect(At(m[f.chunk], f.ip))
      /\ due <= e[1] + e[2] /\ top = Len(st) + e[2] - due
      /\ \A i \in Rim(m, f) + 1 .. top : u[i] # Empty
      /\ \A v \in 0 .. m[f.chunk].locals - 1 :
            u[f.base + v + 1] = Empty =>
                st[f.base + v + 1] = Empty /\ ~Writes(m[f.chunk], f.ip, v)
    BY Zenon DEF Follows
<1> HIDE DEF t
<1> DEFINE c == f.chunk
           h == interp_region(m[c])
<1>0. /\ m \in Seq(Chunks) /\ c \in DOMAIN m /\ f.base \in Nat
      /\ Rim(m, f) \in Nat /\ Rim(m, g) = Rim(m, f)
    BY <1>f, FrameFacts DEF Admitted, Rim
<1>1. f.ip \in Positions(m[c]) /\ h[f.ip + 1] \in Nat
      /\ Rim(m, f) + h[f.ip + 1] - 0 = Len(st)
    BY Zenon DEF FrameOK, Placed, Height
<1>2. At(m[c], f.ip) \in Instruction
    BY <1>0, <1>1, ModuleType
<1>3. e[1] \in Nat /\ e[2] \in Int /\ e[1] + e[2] \in Nat
    BY <1>f, <1>2, EffectType
<1>4. e[1] <= h[f.ip + 1] /\ t \in Positions(m[c])
      /\ h[t + 1] = h[f.ip + 1] + e[2]
  <2>1. /\ op_depth_effect(At(m[c], f.ip))[1] <= h[f.ip + 1]
        /\ \A q \in Targets(m[c], f.ip) :
              /\ q \in Positions(m[c])
              /\ h[q + 1] = h[f.ip + 1] + op_depth_effect(At(m[c], f.ip))[2]
    <3> DEFINE p == f.ip
    <3>1. /\ c \in DOMAIN m /\ p \in Positions(m[c])
          /\ interp_region(m[c])[p + 1] \in Nat
        BY <1>0, <1>1, Zenon
    <3> HIDE DEF c, p
    <3>2. /\ op_depth_effect(At(m[c], p))[1] <= interp_region(m[c])[p + 1]
          /\ \A q \in Targets(m[c], p) :
                /\ q \in Positions(m[c])
                /\ interp_region(m[c])[q + 1] = interp_region(m[c])[p + 1]
                       + op_depth_effect(At(m[c], p))[2]
        BY <3>1, HeightStep, Zenon
    <3> QED BY <3>2, Zenon DEF p
  <2> QED BY <1>f, <2>1, Zenon
<1>5. Placed(m, g, top, due)
  <2> DEFINE r == Rim(m, f)
             x == h[f.ip + 1]
             y == h[t + 1]
             n == e[2]
             p == e[1]
             l == Len(st)
  <2>1. due <= p + n /\ top = l + n - due
      BY <1>f, Zenon
  <2>2. r + x - 0 = l /\ y = x + n /\ p <= x
      BY <1>1, <1>4, Zenon
  <2>3. /\ r \in Nat /\ x \in Nat /\ n \in Int /\ p \in Nat /\ l \in Nat
        /\ p + n \in Nat
      BY <1>0, <1>1, <1>3
  <2> HIDE DEF r, x, y, n, p, l, h
  <2>4. y \in Nat /\ due <= y /\ r + y - due = top
      BY <1>f, <2>1, <2>2, <2>3
  <2>5. Height(m, g) = y /\ Rim(m, g) = r
      BY <1>f, <1>0, Zenon DEF Height, h, y, r, t
  <2> QED BY <1>f, <1>4, <2>4, <2>5 DEF Placed, t
<1> HIDE DEF h
<1>6. Filled(m, g, u, top, "Running")
  <2>1. ASSUME NEW v \in 0 .. m[c].locals - 1, u[f.base + v + 1] = Empty
        PROVE  IF EmptyAfterStream(m[c], v)
               THEN t \in must_analysis(m[c], v) ELSE "Running" = "Reset"
    <3>1. st[f.base + v + 1] = Empty /\ ~Writes(m[c], f.ip, v)
        BY <1>f, <2>1
    <3>2. EmptyAfterStream(m[c], v) /\ f.ip \in must_analysis(m[c], v)
        BY <3>1 DEF FrameOK, Filled
    <3>3. t \in must_analysis(m[c], v)
        BY <1>f, <1>0, <1>4, <3>1, <3>2, Unwritten
    <3> QED BY <3>2, <3>3
  <2> QED BY <1>f, <1>0, <2>1, Zenon DEF Filled, t
<1> QED BY <1>5, <1>6 DEF FrameOK

-----------------------------------------------------------------------------
\* Frame stacks.

\* gs is fs with the top frame moved to position to, their costs aside.
Advanced(m, fs, gs, to) ==
    /\ gs \in Seq(FrameTypes(m)) /\ Len(gs) = Len(fs)
    /\ \A k \in 1 .. Len(fs) :
          /\ gs[k].chunk = fs[k].chunk /\ gs[k].base = fs[k].base
          /\ gs[k].ip = IF k = Len(fs) THEN to ELSE fs[k].ip

LEMMA ChargedAdvances ==
    ASSUME frames \in Seq(FrameTypes(mod)), frames # <<>>,
           NEW to \in Nat, NEW cycles \in Nat
    PROVE  Advanced(mod, frames, Charged(to, cycles), to)
<1> DEFINE n == Len(frames)
           g == [frames[n] EXCEPT !.ip = to, !.cost = Capped(@ + cycles)]
<1>1. n \in Nat /\ n > 0 /\ frames[n] \in FrameTypes(mod)
    BY SequenceFacts
<1>2. Charged(to, cycles) = [frames EXCEPT ![n] = g]
    BY <1>1 DEF Charged, FrameTypes
<1>3. Capped(frames[n].cost + cycles) \in Nat
    BY <1>1, ChunkRunAssumption DEF Capped, FrameTypes
<1>4. /\ g \in FrameTypes(mod) /\ g.chunk = frames[n].chunk
      /\ g.base = frames[n].base /\ g.ip = to
    BY <1>1, <1>3 DEF FrameTypes
<1> HIDE DEF g
<1> QED BY <1>1, <1>2, <1>4 DEF Advanced

LEMMA AllocatedAdvances ==
    ASSUME NEW m, NEW fs, NEW gs, NEW to, NEW bytes \in Nat,
           Advanced(m, fs, gs, to)
    PROVE  Advanced(m, fs, Allocated(gs, bytes), to)
<1> DEFINE hs == Allocated(gs, bytes)
<1>1. /\ gs \in Seq(FrameTypes(m)) /\ Len(gs) = Len(fs) /\ Len(fs) \in Nat
      /\ DOMAIN gs = 1 .. Len(fs)
    BY SequenceFacts DEF Advanced
<1>2. ASSUME NEW k \in 1 .. Len(fs)
      PROVE  /\ hs[k] \in FrameTypes(m)
             /\ hs[k].chunk = gs[k].chunk /\ hs[k].base = gs[k].base
             /\ hs[k].ip = gs[k].ip
  <2>1. gs[k] \in FrameTypes(m)
      BY <1>1, SequenceFacts
  <2>2. hs[k] = [gs[k] EXCEPT !.heap = @ + bytes]
      BY <1>1 DEF Allocated
  <2> HIDE DEF hs
  <2>3. gs[k].heap + bytes \in Nat
      BY <2>1 DEF FrameTypes
  <2> QED BY <2>1, <2>2, <2>3 DEF FrameTypes
<1>3. hs \in Seq(FrameTypes(m)) /\ Len(hs) = Len(fs)
    BY <1>1, <1>2 DEF Allocated
<1> QED BY <1>2, <1>3 DEF Advanced

\* Frames that keep their places keep lying one above the other.
LEMMA KeepStacked ==
    ASSUME NEW m \in Seq(Chunks), NEW fs \in Seq(FrameTypes(m)), NEW gs,
           NEW to, NEW st \in Seq(Value), NEW u \in Seq(Value),
           Stacked(m, fs, st), Advanced(m, fs, gs, to), fs # <<>>,
           Rim(m, fs[Len(fs)]) <= Len(u)
    PROVE  Stacked(m, gs, u)
<1>1. /\ Len(fs) \in Nat /\ Len(fs) > 0 /\ Len(gs) = Len(fs)
      /\ gs \in Seq(FrameTypes(m))
    BY SequenceFacts DEF Advanced
<1>2. ASSUME NEW k \in 1 .. Len(fs)
      PROVE  /\ gs[k].base = fs[k].base /\ Rim(m, gs[k]) = Rim(m, fs[k])
             /\ Rim(m, fs[k]) \in Nat /\ fs[k].base \in Nat
             /\ fs[k].base <= Rim(m, fs[k])
  <2>1. fs[k] \in FrameTypes(m)
      BY SequenceFacts
  <2> QED BY <2>1, FrameFacts DEF Advanced, Rim
<1>3. ASSUME NEW k \in 1 .. Len(fs)
      PROVE  Rim(m, fs[k]) <= Len(u)
  <2>1. CASE k = Len(fs) BY <2>1
  <2>2. CASE k # Len(fs)
    <3>1. Rim(m, fs[k]) <= fs[Len(fs)].base
        BY <1>1, <2>2 DEF Stacked
    <3>2. /\ Rim(m, fs[k]) \in Nat /\ fs[Len(fs)].base \in Nat
          /\ fs[Len(fs)].base <= Rim(m, fs[Len(fs)])
          /\ Rim(m, fs[Len(fs)]) \in Nat
        BY <1>1, <1>2
    <3> QED BY <3>1, <3>2
  <2> QED BY <2>1, <2>2
<1>4. fs[1].base = 0
    BY DEF Stacked
<1>5. \A j, k \in 1 .. Len(fs) : j < k => Rim(m, fs[j]) <= fs[k].base
    BY <1>1 DEF Stacked
<1>6. gs[1].base = 0
    BY <1>1, <1>2, <1>4
<1> QED BY <1>1, <1>2, <1>3, <1>5, <1>6, Zenon DEF Stacked

-----------------------------------------------------------------------------
\* The state as a whole.

\* What a running machine knows of its top frame.
LEMMA TopFrame ==
    ASSUME NEW m, Admitted(m), NEW fs, NEW st, Machine(m, fs, st, "Running")
    PROVE  /\ fs \in Seq(FrameTypes(m)) /\ st \in Seq(Value)
           /\ Len(fs) \in Nat /\ Len(fs) > 0 /\ fs # <<>>
           /\ fs[Len(fs)] \in FrameTypes(m)
           /\ FrameOK(m, fs[Len(fs)], st, Len(st), 0, "Running")
           /\ Stacked(m, fs, st)
<1>1. /\ fs \in Seq(FrameTypes(m)) /\ st \in Seq(Value) /\ fs # <<>>
      /\ Stacked(m, fs, st) /\ Sound(m, fs, st, "Running")
    BY DEF Machine
<1>2. Len(fs) \in Nat /\ Len(fs) > 0 /\ fs[Len(fs)] \in FrameTypes(m)
    BY <1>1, SequenceFacts
<1>3. FrameOK(m, fs[Len(fs)], st, Ceiling(fs, st, Len(fs)),
              Due(fs, "Running", Len(fs)), "Running")
  <2>1. Len(fs) \in 1 .. Len(fs)
      BY <1>2
  <2>2. Mode(fs, "Running", Len(fs)) = "Running"
      BY DEF Mode
  <2>3. FrameOK(m, fs[Len(fs)], st, Ceiling(fs, st, Len(fs)),
                Due(fs, "Running", Len(fs)), Mode(fs, "Running", Len(fs)))
      BY <1>1, <2>1, Zenon DEF Sound
  <2> QED BY <2>2, <2>3, Zenon
<1>4. Ceiling(fs, st, Len(fs)) = Len(st) /\ Due(fs, "Running", Len(fs)) = 0
    BY <1>2 DEF Ceiling, Due
<1> QED BY <1>1, <1>2, <1>3, <1>4

\* A frame below another ends at the base of the next one.
LEMMA LowerFrame ==
    ASSUME NEW m \in Seq(Chunks), NEW fs \in Seq(FrameTypes(m)), NEW st, NEW s,
           Stacked(m, fs, st), Sound(m, fs, st, s),
           NEW k \in 1 .. Len(fs), k # Len(fs)
    PROVE  /\ fs[k] \in FrameTypes(m)
           /\ k + 1 \in 1 .. Len(fs) /\ fs[k + 1].base \in Nat
           /\ FrameOK(m, fs[k], st, fs[k + 1].base, 1, "Running")
           /\ Rim(m, fs[k]) <= fs[k + 1].base
           /\ fs[k + 1].base <= fs[Len(fs)].base
<1>1. Len(fs) \in Nat /\ k + 1 \in 1 .. Len(fs) /\ k < k + 1
    BY SequenceFacts
<1>2. /\ fs[k] \in FrameTypes(m) /\ fs[k + 1] \in FrameTypes(m)
      /\ fs[Len(fs)] \in FrameTypes(m)
    BY <1>1, SequenceFacts
<1>3. FrameOK(m, fs[k], st, Ceiling(fs, st, k), Due(fs, s, k), Mode(fs, s, k))
    BY DEF Sound
<1>4. /\ Ceiling(fs, st, k) = fs[k + 1].base /\ Due(fs, s, k) = 1
      /\ Mode(fs, s, k) = "Running"
    BY <1>1 DEF Ceiling, Due, Mode
<1>5. Rim(m, fs[k]) <= fs[k + 1].base
    BY <1>1 DEF Stacked
<1>6. fs[k + 1].base <= fs[Len(fs)].base
  <2>1. CASE k + 1 = Len(fs)
      BY <1>2, <2>1, FrameFacts
  <2>2. CASE k + 1 # Len(fs)
    <3>1. Rim(m, fs[k + 1]) <= fs[Len(fs)].base
        BY <1>1, <2>2 DEF Stacked
    <3>2. /\ Rim(m, fs[k + 1]) \in Nat /\ fs[k + 1].base \in Nat
          /\ fs[Len(fs)].base \in Nat
          /\ fs[k + 1].base <= Rim(m, fs[k + 1])
        BY <1>2, FrameFacts
    <3> QED BY <3>1, <3>2
  <2> QED BY <2>1, <2>2
<1> QED BY <1>1, <1>2, <1>3, <1>4, <1>5, <1>6, FrameFacts

\* The first n entries of two stacks agree.
SameBelow(st, u, n) == \A i \in 1 .. n : u[i] = st[i]

\* The top frame has moved along an edge; the frames below it see no change.
LEMMA Advance ==
    ASSUME NEW m, Admitted(m), NEW fs, NEW gs, NEW st, NEW u \in Seq(Value),
           NEW t, NEW s \in {"Running", "Yielded", "Reset"},
           Machine(m, fs, st, "Running"), Advanced(m, fs, gs, t),
           FrameOK(m, gs[Len(fs)], u, Len(u), Due(fs, s, Len(fs)),
                   Mode(fs, s, Len(fs))),
           s = "Reset" => m[fs[Len(fs)].chunk].kind = "Stream",
           SameBelow(st, u, fs[Len(fs)].base)
    PROVE  Machine(m, gs, u, s)
<1> DEFINE due == Due(fs, s, Len(fs))
<1>d. due \in {0, 1}
    BY DEF Due
<1> HIDE DEF due
<1>0. /\ fs \in Seq(FrameTypes(m)) /\ st \in Seq(Value)
      /\ Len(fs) \in Nat /\ Len(fs) > 0 /\ fs # <<>>
      /\ fs[Len(fs)] \in FrameTypes(m) /\ Stacked(m, fs, st)
      /\ m \in Seq(Chunks) /\ Sound(m, fs, st, "Running")
    BY TopFrame DEF Admitted, Machine
<1>1. /\ gs \in Seq(FrameTypes(m)) /\ Len(gs) = Len(fs) /\ gs # <<>>
    BY <1>0, SequenceFacts DEF Advanced
<1>2. ASSUME NEW k \in 1 .. Len(fs)
      PROVE  /\ gs[k].chunk = fs[k].chunk /\ gs[k].base = fs[k].base
             /\ k # Len(fs) => gs[k].ip = fs[k].ip
    BY DEF Advanced
<1>3. Rim(m, gs[Len(fs)]) <= Len(u)
  <2>1. gs[Len(fs)] \in FrameTypes(m)
      BY <1>0, <1>1, SequenceFacts
  <2>2. Rim(m, gs[Len(fs)]) \in Nat
      BY <1>0, <2>1, FrameFacts
  <2> DEFINE h == Height(m, gs[Len(fs)])
  <2>3. h \in Nat /\ due <= h /\ Rim(m, gs[Len(fs)]) + h - due = Len(u)
      BY Zenon DEF FrameOK, Placed, due
  <2> HIDE DEF h
  <2> QED BY <1>d, <2>2, <2>3
<1>4. Stacked(m, gs, u)
  <2>1. Rim(m, gs[Len(fs)]) = Rim(m, fs[Len(fs)])
      BY <1>0, <1>2 DEF Rim
  <2> QED BY <1>0, <1>3, <2>1, KeepStacked
<1>5. ASSUME NEW k \in 1 .. Len(gs)
      PROVE  FrameOK(m, gs[k], u, Ceiling(gs, u, k), Due(gs, s, k),
                     Mode(gs, s, k))
  <2>2. CASE k = Len(fs)
    <3>1. Ceiling(gs, u, k) = Len(u) /\ Due(gs, s, k) = due
        BY <1>1, <2>2 DEF Ceiling, Due, due
    <3>2. Mode(gs, s, k) = Mode(fs, s, Len(fs))
        BY <1>1, <2>2, Zenon DEF Mode
    <3> QED BY <2>2, <3>1, <3>2, Zenon DEF due
  <2>3. CASE k # Len(fs)
    <3>0. k \in 1 .. Len(fs)
        BY <1>1
    <3>1. /\ fs[k] \in FrameTypes(m)
          /\ k + 1 \in 1 .. Len(fs) /\ fs[k + 1].base \in Nat
          /\ FrameOK(m, fs[k], st, fs[k + 1].base, 1, "Running")
          /\ Rim(m, fs[k]) <= fs[k + 1].base
          /\ fs[k + 1].base <= fs[Len(fs)].base
        BY <1>0, <2>3, <3>0, LowerFrame
    <3>2. Ceiling(gs, u, k) = fs[k + 1].base /\ Due(gs, s, k) = 1
        BY <1>0, <1>1, <1>2, <2>3, <3>0, <3>1 DEF Ceiling, Due
    <3>3. \A i \in 1 .. fs[k + 1].base : u[i] = Empty => st[i] = Empty
      <4> DEFINE a == fs[k + 1].base
                 b == fs[Len(fs)].base
      <4>1. a \in Nat /\ b \in Nat /\ a <= b
          BY <1>0, <3>1, FrameFacts
      <4>2. \A i \in 1 .. b : u[i] = st[i]
          BY Zenon DEF SameBelow
      <4> HIDE DEF a, b
      <4>3. \A i \in 1 .. a : u[i] = st[i]
          BY <4>1, <4>2
      <4> QED BY <4>3, Zenon DEF a
    <3>4. /\ gs[k].chunk = fs[k].chunk /\ gs[k].base = fs[k].base
          /\ gs[k].ip = fs[k].ip
        BY <1>2, <2>3, <3>0, Zenon
    <3>5. FrameOK(m, gs[k], u, fs[k + 1].base, 1, "Running")
        BY <1>0, <3>1, <3>3, <3>4, KeepFrame, Zenon
    <3>6. Mode(gs, s, k) = "Running"
        BY <1>1, <2>3 DEF Mode
    <3> QED BY <3>2, <3>5, <3>6, Zenon
  <2> QED BY <2>2, <2>3
<1>6. Sound(m, gs, u, s)
    BY <1>5, Zenon DEF Sound
<1>7. m[gs[Len(gs)].chunk].kind = m[fs[Len(fs)].chunk].kind
    BY <1>0, <1>1, <1>2
<1> QED BY <1>1, <1>4, <1>6, <1>7 DEF Machine

\* u is st with the top p operands replaced by n + p values, of which due are
\* still to come.
Operates(st, u, p, n, due) ==
    /\ u \in Seq(Value) /\ due \in {0, 1}
    /\ due <= p + n /\ Len(u) = Len(st) + n - due
    /\ \A i \in 1 .. Len(st) - p : u[i] = st[i]
    /\ \A i \in Len(st) - p + 1 .. Len(u) : u[i] # Empty

\* The same for an instruction that takes and leaves operands but writes no
\* local.
LEMMA AdvanceOperands ==
    ASSUME NEW m, Admitted(m), NEW fs, NEW gs, NEW st, NEW u,
           NEW t, NEW s \in {"Running", "Yielded"}, NEW e, NEW op,
           Machine(m, fs, st, "Running"), Advanced(m, fs, gs, t),
           op = At(m[fs[Len(fs)].chunk], fs[Len(fs)].ip),
           e = op_depth_effect(op), op.o # "SetLocal",
           t \in Targets(m[fs[Len(fs)].chunk], fs[Len(fs)].ip),
           Operates(st, u, e[1], e[2], Due(fs, s, Len(fs)))
    PROVE  Machine(m, gs, u, s)
<1> DEFINE due == Due(fs, s, Len(fs))
<1>o. /\ u \in Seq(Value) /\ due \in {0, 1}
      /\ due <= e[1] + e[2] /\ Len(u) = Len(st) + e[2] - due
      /\ \A i \in 1 .. Len(st) - e[1] : u[i] = st[i]
      /\ \A i \in Len(st) - e[1] + 1 .. Len(u) : u[i] # Empty
    BY Zenon DEF Operates
<1> HIDE DEF due
<1> DEFINE f == fs[Len(fs)]
           ch == m[f.chunk]
           h == Height(m, f)
<1>0. /\ fs \in Seq(FrameTypes(m)) /\ st \in Seq(Value)
      /\ Len(fs) \in Nat /\ Len(fs) > 0 /\ f \in FrameTypes(m)
      /\ FrameOK(m, f, st, Len(st), 0, "Running")
      /\ m \in Seq(Chunks) /\ Stacked(m, fs, st)
    BY TopFrame DEF Admitted
<1>1. /\ f.chunk \in DOMAIN m /\ f.base \in Nat /\ ch.locals \in Nat
      /\ Rim(m, f) = f.base + ch.locals /\ Rim(m, f) \in Nat
      /\ f.base <= Rim(m, f)
    BY <1>0, FrameFacts
<1>2. f.ip \in Positions(ch) /\ h \in Nat /\ Rim(m, f) + h - 0 = Len(st)
    BY <1>0, Zenon DEF FrameOK, Placed
<1>3. op \in Instruction
    BY <1>0, <1>1, <1>2, ModuleType
<1>4. e[1] \in Nat /\ e[2] \in Int /\ e[1] <= h
    BY <1>0, <1>1, <1>2, <1>3, EffectType, HeightStep DEF Height
<1>5. Rim(m, f) <= Len(st) - e[1] /\ Len(st) \in Nat
  <2> HIDE DEF f, ch, h
  <2> DEFINE p == e[1]
  <2>1. p \in Nat /\ p <= h
      BY <1>4
  <2> HIDE DEF p
  <2>2. Rim(m, f) <= Len(st) - p /\ Len(st) \in Nat
      BY <1>0, <1>1, <1>2, <2>1
  <2> QED BY <2>2 DEF p
<1> HIDE DEF h
<1>6. \A i \in Rim(m, f) + 1 .. Len(u) : u[i] # Empty
  <2>1. \A i \in Rim(m, f) + 1 .. Len(st) : st[i] # Empty
      BY <1>0, Zenon DEF FrameOK, Filled
  <2> SUFFICES ASSUME NEW i \in Rim(m, f) + 1 .. Len(u)
               PROVE  u[i] # Empty
      OBVIOUS
  <2> DEFINE p == e[1]
  <2>2. p \in Nat
      BY <1>4
  <2>3. \A j \in 1 .. Len(st) - p : u[j] = st[j]
      BY <1>o, Zenon
  <2>4. \A j \in Len(st) - p + 1 .. Len(u) : u[j] # Empty
      BY <1>o, Zenon
  <2>5. Len(u) \in Nat
      BY <1>o, SequenceFacts
  <2> DEFINE r == Rim(m, f)
             l == Len(st)
             n == Len(u)
  <2>6. r \in Nat /\ l \in Nat /\ n \in Nat /\ r <= l - p /\ i \in r + 1 .. n
      BY <1>1, <1>5, <2>5
  <2> HIDE DEF p, r, l, n
  <2>7. i \in 1 .. l - p \/ i \in l - p + 1 .. n
      BY <2>2, <2>6
  <2>8. i \in 1 .. l - p => i \in r + 1 .. l
      BY <2>2, <2>6
  <2> QED BY <2>1, <2>3, <2>4, <2>7, <2>8 DEF l, n, r
<1>7. ASSUME NEW v \in 0 .. ch.locals - 1, u[f.base + v + 1] = Empty
      PROVE  st[f.base + v + 1] = Empty /\ ~Writes(ch, f.ip, v)
  <2> DEFINE r == Rim(m, f)
             n == Len(st) - e[1]
             b == f.base
             w == ch.locals
  <2>1. /\ b \in Nat /\ r \in Nat /\ n \in Int /\ w \in Nat /\ r = b + w
        /\ r <= n /\ v \in 0 .. w - 1
      BY <1>1, <1>4, <1>5
  <2>2. b + v + 1 \in 1 .. n
    <3> HIDE DEF r, n, b, w
    <3> QED BY <2>1
  <2>3. st[f.base + v + 1] = Empty
      BY <1>o, <1>7, <2>2, Zenon
  <2>4. EmptyAfterStream(ch, v)
      BY <1>0, <2>3, Zenon DEF FrameOK, Filled
  <2>5. op # Unary("SetLocal", v)
      BY DEF Unary, Op
  <2> QED BY <2>3, <2>4, <2>5, Zenon DEF Writes
<1>8. Len(fs) \in 1 .. Len(fs)
    BY <1>0
<1>9. /\ gs[Len(fs)].chunk = f.chunk /\ gs[Len(fs)].base = f.base
      /\ gs[Len(fs)].ip = t
    BY <1>8 DEF Advanced
<1>10. Len(u) \in Nat
    BY <1>o, SequenceFacts
<1>11. Follows(m, f, gs[Len(fs)], st, u, Len(u), due, e)
    BY <1>o, <1>6, <1>7, <1>9, <1>10, Zenon DEF Follows
<1>12. FrameOK(m, gs[Len(fs)], u, Len(u), due, "Running")
  <2> HIDE DEF f, ch
  <2> QED BY <1>0, <1>11, MoveFrame
<1>13. SameBelow(st, u, f.base)
  <2> DEFINE r == Rim(m, f)
             n == Len(st) - e[1]
             b == f.base
  <2>1. b \in Nat /\ r \in Nat /\ n \in Int /\ b <= r /\ r <= n
      BY <1>1, <1>4, <1>5
  <2>2. \A i \in 1 .. n : u[i] = st[i]
      BY <1>o, Zenon
  <2> HIDE DEF r, n, b
  <2>3. \A i \in 1 .. b : u[i] = st[i]
      BY <2>1, <2>2
  <2> QED BY <2>3 DEF b, SameBelow
<1>14. Mode(fs, s, Len(fs)) = "Running"
    BY DEF Mode
<1> QED BY <1>o, <1>12, <1>13, <1>14, Advance DEF due

-----------------------------------------------------------------------------
\* What the instructions leave on the stack.

\* Popping p values and pushing those of w.
LEMMA PopPush ==
    ASSUME NEW st \in Seq(Value), NEW p \in 0 .. Len(st), NEW w \in Seq(Nat)
    PROVE  LET u == SubSeq(st, 1, Len(st) - p) \o w
           IN /\ u \in Seq(Value) /\ Len(u) = Len(st) - p + Len(w)
              /\ \A i \in 1 .. Len(st) - p : u[i] = st[i]
              /\ \A i \in Len(st) - p + 1 .. Len(u) : u[i] # Empty
<1> DEFINE n == Len(st) - p
           s == SubSeq(st, 1, n)
           u == s \o w
<1>1. n \in 0 .. Len(st) /\ Len(st) \in Nat /\ Len(w) \in Nat
    OBVIOUS
<1> HIDE DEF n
<1>2. s \in Seq(Value) /\ Len(s) = n /\ \A i \in 1 .. n : s[i] = st[i]
    BY <1>1
<1>3. w \in Seq(Value) /\ \A i \in 1 .. Len(w) : w[i] # Empty
  <2>1. \A i \in 1 .. Len(w) : w[i] \in Nat
      BY SequenceFacts
  <2>2. \A i \in 1 .. Len(w) : w[i] # Empty
      BY <2>1 DEF Empty
  <2>3. Nat \subseteq Value
      BY DEF Value
  <2>4. w \in Seq(Value)
      BY <2>3
  <2> QED BY <2>2, <2>4
<1> HIDE DEF s
<1>4. u \in Seq(Value) /\ Len(u) = n + Len(w)
    BY <1>2, <1>3, ConcatProperties
<1>5. \A i \in 1 .. n : u[i] = st[i]
    BY <1>1, <1>2, <1>3
<1>6. ASSUME NEW i \in n + 1 .. Len(u)
      PROVE  u[i] # Empty
  <2>1. i - n \in 1 .. Len(w)
      BY <1>1, <1>4
  <2>2. u[i] = w[i - n]
    <3>1. i \in 1 .. Len(s) + Len(w) /\ i > Len(s) /\ i - Len(s) = i - n
        BY <1>1, <1>2, <1>4
    <3>2. u[i] = w[i - Len(s)]
      <4> HIDE DEF u
      <4>1. s \in Seq(Value) /\ w \in Seq(Value) /\ u = s \o w
          BY <1>2, <1>3 DEF u
      <4>2. \A j \in 1 .. Len(s) + Len(w) :
               (s \o w)[j] = IF j <= Len(s) THEN s[j] ELSE w[j - Len(s)]
          BY <4>1, ConcatProperties, Zenon
      <4>3. ~(i <= Len(s))
          BY <1>1, <1>2, <3>1
      <4> QED BY <3>1, <4>1, <4>2, <4>3, Zenon
    <3> QED BY <3>1, <3>2, Zenon
  <2> QED BY <1>3, <2>1, <2>2
<1> QED BY <1>4, <1>5, <1>6 DEF n, s

\* The shapes of the straight instructions' results.
LEMMA Shapes ==
    ASSUME NEW st \in Seq(Value), NEW p \in 0 .. Len(st)
    PROVE  LET low == SubSeq(st, 1, Len(st) - p)
           IN /\ Operates(st, low, p, -p, 0)
              /\ p = 1 => Operates(st, low, p, 0, 1)
              /\ \A x \in Nat : /\ Operates(st, Append(low, x), p, 1 - p, 0)
                                /\ p = 2 => Operates(st, low \o <<x, Other, Other>>,
                                                     2, 1, 0)
                                /\ Operates(st, low \o <<Other, x>>, p, 2 - p, 0)
<1> DEFINE low == SubSeq(st, 1, Len(st) - p)
           l == Len(st)
<1>0. l \in Nat /\ p \in Int /\ Other \in Nat /\ p >= 0 /\ p <= l
    BY DEF Other
<1>1. /\ Operates(st, low, p, -p, 0)
      /\ p = 1 => Operates(st, low, p, 0, 1)
  <2>1. /\ low \in Seq(Value) /\ Len(low) = l - p
        /\ \A i \in 1 .. l - p : low[i] = st[i]
      BY <1>0
  <2> HIDE DEF low, l
  <2> QED BY <1>0, <2>1 DEF Operates, l
<1>2. ASSUME NEW x \in Nat
      PROVE  /\ Operates(st, Append(low, x), p, 1 - p, 0)
             /\ p = 2 => Operates(st, low \o <<x, Other, Other>>, 2, 1, 0)
             /\ Operates(st, low \o <<Other, x>>, p, 2 - p, 0)
  <2>1. /\ <<x>> \in Seq(Nat) /\ Len(<<x>>) = 1
        /\ <<Other, x>> \in Seq(Nat) /\ Len(<<Other, x>>) = 2
        /\ <<x, Other, Other>> \in Seq(Nat) /\ Len(<<x, Other, Other>>) = 3
      BY <1>0
  <2>2. ASSUME NEW w \in Seq(Nat), NEW k \in Nat, Len(w) = k
        PROVE  Operates(st, low \o w, p, k - p, 0)
    <3> DEFINE u == low \o w
    <3>1. /\ u \in Seq(Value) /\ Len(u) = l - p + Len(w)
          /\ \A i \in 1 .. l - p : u[i] = st[i]
          /\ \A i \in l - p + 1 .. Len(u) : u[i] # Empty
        BY PopPush
    <3> HIDE DEF u
    <3>2. Len(u) = Len(st) + (k - p) - 0 /\ 0 <= p + (k - p)
        BY <1>0, <2>2, <3>1
    <3>3. Operates(st, u, p, k - p, 0)
        BY <3>1, <3>2 DEF Operates
    <3> QED BY <3>3 DEF u
  <2>3. Append(low, x) = low \o <<x>>
      BY <1>0
  <2>4. 3 - 2 = 1
      OBVIOUS
  <2> HIDE DEF low
  <2> QED BY <2>1, <2>2, <2>3, <2>4
<1> QED BY <1>1, <1>2

LEMMA Push ==
    ASSUME NEW st \in Seq(Value)
    PROVE  /\ Operates(st, st, 0, 0, 0)
           /\ \A x \in Nat : Operates(st, Append(st, x), 0, 1, 0)
<1>1. Len(st) \in Nat /\ \A x \in Nat : x # Empty
    BY DEF Empty
<1>2. ASSUME NEW x \in Nat
      PROVE  /\ Append(st, x) \in Seq(Value) /\ Len(Append(st, x)) = Len(st) + 1
             /\ \A i \in 1 .. Len(st) : Append(st, x)[i] = st[i]
             /\ Append(st, x)[Len(st) + 1] = x
    BY DEF Value
<1> QED BY <1>1, <1>2 DEF Operates

-----------------------------------------------------------------------------
\* The steps of the dispatch loop, one by one.

\* What a dispatched instruction finds.
LEMMA Dispatched ==
    ASSUME IInv, status = "Running"
    PROVE  /\ Admitted(mod) /\ mod \in Seq(Chunks)
           /\ Machine(mod, frames, stack, "Running")
           /\ frames \in Seq(FrameTypes(mod)) /\ frames # <<>>
           /\ stack \in Seq(Value) /\ Len(stack) \in Nat
           /\ Len(frames) \in Nat /\ Len(frames) > 0
           /\ Frame \in FrameTypes(mod) /\ Frame = frames[Len(frames)]
           /\ Frame.chunk \in DOMAIN mod /\ Code = mod[Frame.chunk]
           /\ Frame.ip \in Positions(Code) /\ Frame.ip \in Nat
           /\ Frame.ip + 1 \in Nat
           /\ Next_ip \in Instruction /\ Next_ip = At(Code, Frame.ip)
           /\ Next_ip.a \in Nat /\ Next_ip.b \in Nat /\ Next_ip.o \in Opcodes
           /\ FrameOK(mod, Frame, stack, Len(stack), 0, "Running")
           /\ Rim(mod, Frame) \in Nat /\ Frame.base \in Nat
           /\ Frame.base <= Rim(mod, Frame)
           /\ Rim(mod, Frame) = Frame.base + Code.locals /\ Code.locals \in Nat
           /\ op_depth_effect(Next_ip)[1] \in 0 .. Len(stack) - Rim(mod, Frame)
           /\ op_depth_effect(Next_ip)[1] \in 0 .. Len(stack)
           /\ \A i \in Rim(mod, Frame) + 1 .. Len(stack) : stack[i] \in Nat
<1>1. /\ Admitted(mod) /\ mod \in Seq(Chunks)
      /\ Machine(mod, frames, stack, "Running")
    BY DEF IInv, Admitted
<1>2. /\ frames \in Seq(FrameTypes(mod)) /\ frames # <<>>
      /\ stack \in Seq(Value) /\ Len(frames) \in Nat /\ Len(frames) > 0
      /\ Frame \in FrameTypes(mod)
      /\ FrameOK(mod, Frame, stack, Len(stack), 0, "Running")
    BY <1>1, TopFrame DEF Frame
<1>3. /\ Frame.chunk \in DOMAIN mod /\ Frame.base \in Nat /\ Frame.ip \in Nat
      /\ Rim(mod, Frame) \in Nat /\ Frame.base <= Rim(mod, Frame)
      /\ Rim(mod, Frame) = Frame.base + Code.locals /\ Code.locals \in Nat
    BY <1>1, <1>2, FrameFacts DEF Code, ChunkOf
<1>4. Code = mod[Frame.chunk] /\ Next_ip = At(Code, Frame.ip)
    BY DEF Code, ChunkOf, Next_ip
<1> DEFINE h == Height(mod, Frame)
           r == Rim(mod, Frame)
           p == op_depth_effect(Next_ip)[1]
<1>5. Frame.ip \in Positions(Code) /\ h \in Nat /\ r + h - 0 = Len(stack)
    BY <1>2, <1>4, Zenon DEF FrameOK, Placed
<1>6. /\ Next_ip \in Instruction
      /\ Next_ip.a \in Nat /\ Next_ip.b \in Nat /\ Next_ip.o \in Opcodes
    BY <1>1, <1>3, <1>4, <1>5, ModuleType
<1>7. p \in Nat /\ p <= h
    BY <1>1, <1>3, <1>4, <1>5, <1>6, EffectType, HeightStep DEF Height
<1>8. Len(stack) \in Nat
    BY <1>2, SequenceFacts
<1>9. p \in 0 .. Len(stack) - r /\ p \in 0 .. Len(stack)
  <2>1. r \in Nat
      BY <1>3
  <2> HIDE DEF p, h, r
  <2> QED BY <1>5, <1>7, <1>8, <2>1
<1>10. ASSUME NEW i \in r + 1 .. Len(stack)
       PROVE  stack[i] \in Nat
  <2>1. stack[i] # Empty
      BY <1>2, Zenon DEF FrameOK, Filled
  <2>2. i \in 1 .. Len(stack)
      BY <1>3, <1>8
  <2>3. stack[i] \in Value
      BY <1>2, <2>2, SequenceFacts
  <2> QED BY <2>1, <2>3 DEF Value
<1>11. Frame.ip + 1 \in Nat
    BY <1>3
<1> HIDE DEF h
<1> QED BY <1>1, <1>2, <1>3, <1>4, <1>5, <1>6, <1>8, <1>9, <1>10, <1>11, Zenon
        DEF Frame

\* The invariant of the next state, from its parts.
LEMMA Primed ==
    ASSUME IInv, mod' = mod, yields' \in Nat,
           Machine(mod, frames', stack', status')
    PROVE  IInv'
BY DEF IInv

LEMMA SteppedAdvances ==
    ASSUME IInv, status = "Running", NEW to \in Nat
    PROVE  Advanced(mod, frames, Stepped(to), to)
<1>1. frames \in Seq(FrameTypes(mod)) /\ frames # <<>>
    BY Dispatched
<1>2. nominal_op_cycles(Next_ip) \in Nat
    BY DEF nominal_op_cycles
<1> QED BY <1>1, <1>2, ChargedAdvances DEF Stepped

\* An instruction that works on its operands and goes on along an edge.
LEMMA OperandStep ==
    ASSUME IInv, status = "Running", NEW t, NEW p, NEW n,
           NEW gs, NEW u, NEW s \in {"Running", "Yielded"},
           t \in Targets(Code, Frame.ip),
           op_depth_effect(Next_ip) = <<p, n>>, Next_ip.o # "SetLocal",
           Operates(stack, u, p, n, IF s = "Yielded" THEN 1 ELSE 0),
           Advanced(mod, frames, gs, t)
    PROVE  Machine(mod, gs, u, s)
<1>1. /\ Admitted(mod) /\ Machine(mod, frames, stack, "Running")
      /\ Frame = frames[Len(frames)] /\ Code = mod[Frame.chunk]
      /\ Next_ip = At(Code, Frame.ip) /\ Len(frames) \in Nat
    BY Dispatched
<1>2. Due(frames, s, Len(frames)) = IF s = "Yielded" THEN 1 ELSE 0
    BY <1>1 DEF Due
<1> DEFINE e == op_depth_effect(Next_ip)
<1>3. e[1] = p /\ e[2] = n
    OBVIOUS
<1> HIDE DEF e
<1>4. Operates(stack, u, e[1], e[2], Due(frames, s, Len(frames)))
    BY <1>2, <1>3
<1>5. e = op_depth_effect(Next_ip)
    BY DEF e
<1> QED BY <1>1, <1>4, <1>5, AdvanceOperands

\* Marking every frame as having yielded.
LEMMA MarkYielded ==
    ASSUME NEW m, NEW fs \in Seq(FrameTypes(m)), NEW gs, NEW t,
           Advanced(m, fs, gs, t)
    PROVE  Advanced(m, fs, [k \in DOMAIN fs |-> [gs[k] EXCEPT !.yielded = TRUE]],
                    t)
<1> DEFINE hs == [k \in DOMAIN fs |-> [gs[k] EXCEPT !.yielded = TRUE]]
<1>1. /\ gs \in Seq(FrameTypes(m)) /\ Len(gs) = Len(fs) /\ Len(fs) \in Nat
      /\ DOMAIN fs = 1 .. Len(fs)
    BY SequenceFacts DEF Advanced
<1>2. ASSUME NEW k \in 1 .. Len(fs)
      PROVE  /\ hs[k] \in FrameTypes(m) /\ hs[k].chunk = gs[k].chunk
             /\ hs[k].ip = gs[k].ip /\ hs[k].base = gs[k].base
  <2>1. gs[k] \in FrameTypes(m)
      BY <1>1, SequenceFacts
  <2>2. hs[k] = [gs[k] EXCEPT !.yielded = TRUE]
      BY <1>1
  <2> QED BY <2>1, <2>2 DEF FrameTypes
<1>3. hs \in Seq(FrameTypes(m)) /\ Len(hs) = Len(fs)
    BY <1>1, <1>2
<1> HIDE DEF hs
<1>4. Advanced(m, fs, hs, t)
    BY <1>2, <1>3 DEF Advanced
<1> QED BY <1>4 DEF hs

LEMMA JumpIInv == IInv /\ JumpOp => IInv'
<1> SUFFICES ASSUME IInv, JumpOp PROVE IInv'
    OBVIOUS
<1>1. /\ status = "Running" /\ Next_ip.o \in {"Else", "EndLoop", "Break"}
      /\ frames' = Stepped(Next_ip.a) /\ status' = "Running"
      /\ stack' = stack /\ mod' = mod /\ yields' = yields /\ yields \in Nat
    BY DEF JumpOp, Dispatching, IInv
<1>2. /\ Next_ip.a \in Nat /\ Next_ip \in Instruction /\ stack \in Seq(Value)
      /\ Next_ip = At(Code, Frame.ip)
    BY <1>1, Dispatched, Zenon
<1>3. Next_ip.a \in Targets(Code, Frame.ip)
    BY <1>1, <1>2 DEF Targets
<1>4. op_depth_effect(Next_ip) = <<0, 0>>
    BY <1>1, <1>2, Effects
<1>5. Advanced(mod, frames, frames', Next_ip.a)
    BY <1>1, <1>2, SteppedAdvances
<1>6. Operates(stack, stack', 0, 0, 0)
    BY <1>1, <1>2, Push
<1>7. Machine(mod, frames', stack', "Running")
    BY <1>1, <1>3, <1>4, <1>5, <1>6, OperandStep
<1> QED BY <1>1, <1>7, Primed

LEMMA MarkerIInv == IInv /\ MarkerOp => IInv'
<1> SUFFICES ASSUME IInv, MarkerOp PROVE IInv'
    OBVIOUS
<1> DEFINE t == Frame.ip + 1
<1>1. /\ status = "Running" /\ Next_ip.o \in {"EndIf", "Loop", "Stream"}
      /\ frames' = Stepped(t) /\ status' = "Running"
      /\ stack' = stack /\ mod' = mod /\ yields' = yields /\ yields \in Nat
    BY DEF MarkerOp, Dispatching, IInv
<1>2. /\ t \in Nat /\ Next_ip \in Instruction /\ stack \in Seq(Value)
      /\ Next_ip = At(Code, Frame.ip)
    BY <1>1, Dispatched, Zenon
<1>3. t \in Targets(Code, Frame.ip)
    BY <1>1, <1>2 DEF Targets
<1> HIDE DEF t
<1>4. op_depth_effect(Next_ip) = <<0, 0>>
    BY <1>1, <1>2, Effects
<1>5. Advanced(mod, frames, frames', t)
    BY <1>1, <1>2, SteppedAdvances
<1>6. Operates(stack, stack', 0, 0, 0)
    BY <1>1, <1>2, Push
<1>7. Machine(mod, frames', stack', "Running")
    BY <1>1, <1>3, <1>4, <1>5, <1>6, OperandStep
<1> QED BY <1>1, <1>7, Primed

LEMMA BranchIInv == IInv /\ BranchOp => IInv'
<1> SUFFICES ASSUME IInv, BranchOp PROVE IInv'
    OBVIOUS
<1> DEFINE t == IF (Next_ip.o = "If") = (Top = 0) THEN Next_ip.a
                ELSE Frame.ip + 1
<1>1. /\ status = "Running" /\ Next_ip.o \in {"If", "BreakIf"}
      /\ frames' = Stepped(t) /\ status' = "Running"
      /\ stack' = Pop(1) /\ mod' = mod /\ yields' = yields /\ yields \in Nat
    BY DEF BranchOp, Dispatching, IInv
<1>2. /\ t \in {Next_ip.a, Frame.ip + 1} /\ Frame.ip + 1 \in Nat
      /\ Next_ip \in Instruction /\ stack \in Seq(Value)
      /\ Next_ip = At(Code, Frame.ip) /\ Next_ip.a \in Nat /\ Frame.ip \in Nat
      /\ op_depth_effect(Next_ip)[1] \in 0 .. Len(stack)
    BY <1>1, Dispatched, Zenon
<1> HIDE DEF t
<1>3. t \in Targets(Code, Frame.ip) /\ t \in Nat
    BY <1>1, <1>2 DEF Targets
<1>4. op_depth_effect(Next_ip) = <<1, -1>>
    BY <1>1, <1>2, Effects
<1>5. Advanced(mod, frames, frames', t)
    BY <1>1, <1>3, SteppedAdvances
<1>6. Operates(stack, stack', 1, -1, 0)
    BY <1>1, <1>2, <1>4, Shapes DEF Pop
<1>7. Machine(mod, frames', stack', "Running")
    BY <1>1, <1>3, <1>4, <1>5, <1>6, OperandStep
<1> QED BY <1>1, <1>7, Primed

LEMMA NativeIInv == IInv /\ NativeOp => IInv'
<1> SUFFICES ASSUME IInv, NativeOp PROVE IInv'
    OBVIOUS
<1> DEFINE t == Frame.ip + 1
           b == Next_ip.b
           bound == NativeBounds[Next_ip.a]
           gs == Charged(t, nominal_op_cycles(Next_ip) + bound.wcet)
<1>1. /\ status = "Running" /\ Next_ip.o \in Natives
      /\ frames' = Allocated(gs, bound.wcmu) /\ status' = "Running"
      /\ \E failed \in {0, 1} : stack' = Pop(b) \o <<Other, failed>>
      /\ mod' = mod /\ yields' = yields /\ yields \in Nat
    BY DEF NativeOp, Dispatching, IInv
<1>2. /\ Next_ip \in Instruction /\ stack \in Seq(Value)
      /\ Next_ip = At(Code, Frame.ip) /\ t \in Nat
      /\ op_depth_effect(Next_ip)[1] \in 0 .. Len(stack)
      /\ frames \in Seq(FrameTypes(mod)) /\ frames # <<>> /\ Admitted(mod)
      /\ Frame.chunk \in DOMAIN mod /\ Code = mod[Frame.chunk]
      /\ Frame.ip \in Positions(Code)
    BY <1>1, Dispatched, Zenon
<1>3. t \in Targets(Code, Frame.ip)
    BY <1>1, <1>2 DEF Targets, Natives
<1>4. op_depth_effect(Next_ip) = <<b, 2 - b>>
    BY <1>1, <1>2, Effects
<1>5. bound.wcet \in Nat /\ bound.wcmu \in Nat
  <2>1. InRange(Code, mod, Next_ip)
      BY <1>2, FlowChecks DEF verify_operands
  <2>2. Next_ip.a \in DOMAIN NativeBounds
      BY <1>1, <2>1 DEF InRange, Natives
  <2> QED BY <2>2, NativeAssumption
<1>6. nominal_op_cycles(Next_ip) + bound.wcet \in Nat
    BY <1>5 DEF nominal_op_cycles
<1>7. Advanced(mod, frames, gs, t)
  <2> HIDE DEF t, bound
  <2> QED BY <1>2, <1>6, ChargedAdvances
<1>8. Advanced(mod, frames, frames', t)
  <2> HIDE DEF t, bound, gs
  <2> QED BY <1>1, <1>5, <1>7, AllocatedAdvances
<1> HIDE DEF t, bound, gs, b
<1>9. Operates(stack, stack', b, 2 - b, 0)
  <2>1. PICK failed \in {0, 1} : stack' = Pop(b) \o <<Other, failed>>
      BY <1>1
  <2>2. b \in 0 .. Len(stack) /\ failed \in Nat
      BY <1>2, <1>4
  <2> QED BY <1>2, <2>1, <2>2, Shapes DEF Pop
<1>10. Next_ip.o # "SetLocal"
    BY <1>1 DEF Natives
<1>11. Machine(mod, frames', stack', "Running")
    BY <1>1, <1>3, <1>4, <1>8, <1>9, <1>10, OperandStep
<1> QED BY <1>1, <1>11, Primed

LEMMA YieldIInv == IInv /\ YieldOp => IInv'
<1> SUFFICES ASSUME IInv, YieldOp PROVE IInv'
    OBVIOUS
<1> DEFINE t == Frame.ip + 1
           gs == Stepped(t)
<1>1. /\ status = "Running" /\ Next_ip.o = "Yield" /\ stack' = Pop(1)
      /\ frames' = [k \in DOMAIN frames |-> [gs[k] EXCEPT !.yielded = TRUE]]
      /\ status' = "Yielded" /\ mod' = mod
      /\ yields' = yields + 1 /\ yields \in Nat
    BY DEF YieldOp, Dispatching, IInv
<1>2. /\ Next_ip \in Instruction /\ stack \in Seq(Value)
      /\ Next_ip = At(Code, Frame.ip) /\ t \in Nat
      /\ op_depth_effect(Next_ip)[1] \in 0 .. Len(stack)
      /\ Admitted(mod) /\ Machine(mod, frames, stack, "Running")
      /\ frames \in Seq(FrameTypes(mod)) /\ Len(frames) \in Nat
    BY <1>1, Dispatched, Zenon
<1>3. t \in Targets(Code, Frame.ip)
    BY <1>1, <1>2 DEF Targets
<1>4. op_depth_effect(Next_ip) = <<1, 0>>
    BY <1>1, <1>2, Effects
<1>5. Advanced(mod, frames, gs, t)
  <2> HIDE DEF t
  <2> QED BY <1>1, <1>2, SteppedAdvances
<1> HIDE DEF t, gs
<1>6. Operates(stack, stack', 1, 0, 1)
    BY <1>1, <1>2, <1>4, Shapes DEF Pop
<1>7. Advanced(mod, frames, frames', t)
    BY <1>1, <1>2, <1>5, MarkYielded
<1>8. Machine(mod, frames', stack', "Yielded")
    BY <1>1, <1>3, <1>4, <1>6, <1>7, OperandStep
<1> QED BY <1>1, <1>8, Primed

\* The operand checks of one instruction.
LEMMA InRangeFacts ==
    ASSUME NEW m, Admitted(m), NEW c \in DOMAIN m, NEW ip \in Positions(m[c])
    PROVE  LET op == At(m[c], ip)
           IN /\ op.o \in {"GetLocal", "SetLocal"} => op.a < m[c].locals
              /\ op.o = "Call" => op.a \in DOMAIN m /\ op.b <= m[op.a].locals
<1>1. InRange(m[c], m, At(m[c], ip))
    BY FlowChecks, Zenon DEF verify_operands
<1> DEFINE op == At(m[c], ip)
           ch == m[c]
<1> HIDE DEF op, ch
<1>2. InRange(ch, m, op)
    BY <1>1 DEF op, ch
<1>3. op.o \in {"GetLocal", "SetLocal"} => op.a < ch.locals
    BY <1>2 DEF InRange, Natives
<1>4. op.o = "Call" => op.a \in DOMAIN m /\ op.b <= m[op.a].locals
    BY <1>2 DEF InRange, Natives
<1> QED BY <1>3, <1>4 DEF op, ch

\* A local that is read has been written.
LEMMA ReadWritten ==
    ASSUME IInv, status = "Running", Next_ip.o = "GetLocal"
    PROVE  stack[Frame.base + Next_ip.a + 1] \in Nat
<1> DEFINE v == Next_ip.a
           i == Frame.base + v + 1
<1>1. /\ Admitted(mod) /\ Frame.chunk \in DOMAIN mod /\ Code = mod[Frame.chunk]
      /\ Frame.ip \in Positions(Code) /\ Next_ip = At(Code, Frame.ip)
      /\ FrameOK(mod, Frame, stack, Len(stack), 0, "Running")
      /\ v \in Nat /\ Frame.base \in Nat /\ Code.locals \in Nat
      /\ Rim(mod, Frame) = Frame.base + Code.locals
      /\ op_depth_effect(Next_ip)[1] \in 0 .. Len(stack) - Rim(mod, Frame)
      /\ Rim(mod, Frame) \in Nat /\ Len(stack) \in Nat /\ stack \in Seq(Value)
    BY Dispatched, Zenon
<1>3. v < Code.locals
    BY <1>1, InRangeFacts
<1>4. v \in 0 .. Code.locals - 1
    BY <1>1, <1>3
<1>5. Rim(mod, Frame) <= Len(stack)
    BY <1>1
<1>6. i \in 1 .. Len(stack)
    BY <1>1, <1>3, <1>5
<1>7. stack[i] # Empty
  <2> SUFFICES ASSUME stack[i] = Empty PROVE FALSE
      OBVIOUS
  <2>1. Frame.ip \in must_analysis(Code, v)
      BY <1>1, <1>4 DEF FrameOK, Filled
  <2> QED BY <1>1, <1>4, <2>1, Unwritten
<1> HIDE DEF i
<1>8. stack[i] \in Value
    BY <1>1, <1>6, SequenceFacts
<1> QED BY <1>7, <1>8 DEF Value, i

\* The straight instructions but SetLocal change only operands.
LEMMA StraightShape ==
    ASSUME IInv, status = "Running", Next_ip.o \in Straight \ {"SetLocal"},
           NEW u \in Result(Next_ip)
    PROVE  \E p, n : /\ op_depth_effect(Next_ip) = <<p, n>>
                     /\ Operates(stack, u, p, n, 0)
<1> DEFINE op == Next_ip
           l == Len(stack)
<1>1. /\ op \in Instruction /\ stack \in Seq(Value) /\ op.a \in Nat
      /\ l \in Nat /\ Rim(mod, Frame) \in Nat
      /\ op_depth_effect(op)[1] \in 0 .. l - Rim(mod, Frame)
      /\ op_depth_effect(op)[1] \in 0 .. l
      /\ \A i \in Rim(mod, Frame) + 1 .. l : stack[i] \in Nat
    BY Dispatched, Zenon
<1>2. CASE op.o = "Const"
  <2>1. u = Append(stack, op.a)
      BY <1>2 DEF Result
  <2>2. op_depth_effect(op) = <<0, 1>>
      BY <1>1, <1>2, Effects
  <2>3. Operates(stack, u, 0, 1, 0)
      BY <1>1, <2>1, Push
  <2> QED BY <2>2, <2>3, Zenon
<1>3. CASE op.o = "PushImmediate"
  <2>1. u = Append(stack, <<Other, 1, 0>>[op.a + 1])
      BY <1>3 DEF Result
  <2>2. op_depth_effect(op) = <<0, 1>>
      BY <1>1, <1>3, Effects
  <2>3. op.a \in 0 .. 2
      BY <1>1, <1>3 DEF Instruction
  <2>4. <<Other, 1, 0>>[op.a + 1] \in Nat
      BY <2>3 DEF Other
  <2>5. Operates(stack, u, 0, 1, 0)
      BY <1>1, <2>1, <2>4, Push
  <2> QED BY <2>2, <2>5, Zenon
<1>4. CASE op.o = "GetLocal"
  <2>1. u = Append(stack, stack[Frame.base + op.a + 1])
      BY <1>4 DEF Result
  <2>2. op_depth_effect(op) = <<0, 1>>
      BY <1>1, <1>4, Effects
  <2>3. Operates(stack, u, 0, 1, 0)
      BY <1>1, <1>4, <2>1, Push, ReadWritten
  <2> QED BY <2>2, <2>3, Zenon
<1>5. CASE op.o = "GetData"
  <2>1. u \in {Append(stack, v) : v \in {0, 1}}
      BY <1>5 DEF Result
  <2>2. op_depth_effect(op) = <<0, 1>>
      BY <1>1, <1>5, Effects
  <2>3. Operates(stack, u, 0, 1, 0)
      BY <1>1, <2>1, Push
  <2> QED BY <2>2, <2>3, Zenon
<1>6. CASE op.o \in {"CmpGe", "CmpEq"}
  <2>1. u \in {Append(Pop(2), v) : v \in {0, 1}}
      BY <1>6 DEF Result
  <2>2. op_depth_effect(op) = <<2, -1>>
      BY <1>1, <1>6, Effects
  <2>3. 2 \in 0 .. l /\ 1 - 2 = -1
      BY <1>1, <2>2
  <2>4. \A v \in Nat : Operates(stack, Append(Pop(2), v), 2, 1 - 2, 0)
      BY <1>1, <2>3, Shapes DEF Pop
  <2>5. Operates(stack, u, 2, -1, 0)
      BY <2>1, <2>3, <2>4
  <2> QED BY <2>2, <2>5, Zenon
<1>7. CASE op.o = "CheckedAdd"
  <2>1. u = Pop(2) \o <<stack[l - 1] + stack[l], Other, Other>>
      BY <1>7 DEF Result, Top
  <2>2. op_depth_effect(op) = <<2, 1>>
      BY <1>1, <1>7, Effects
  <2>3. 2 \in 0 .. l /\ 2 \in 0 .. l - Rim(mod, Frame)
      BY <1>1, <2>2
  <2>4. stack[l - 1] \in Nat /\ stack[l] \in Nat
      BY <1>1, <2>3
  <2> DEFINE x == stack[l - 1] + stack[l]
  <2>5. x \in Nat
      BY <2>4
  <2> HIDE DEF x
  <2>6. Operates(stack, Pop(2) \o <<x, Other, Other>>, 2, 1, 0)
      BY <1>1, <2>3, <2>5, Shapes DEF Pop
  <2> QED BY <2>1, <2>2, <2>6, Zenon DEF x
<1>8. CASE op.o = "PopN"
  <2>1. u = Pop(op.a)
      BY <1>8 DEF Result
  <2>2. op_depth_effect(op) = <<op.a, -op.a>>
      BY <1>1, <1>8, Effects
  <2>3. op.a \in 0 .. l
      BY <1>1, <2>2
  <2>4. Operates(stack, u, op.a, -op.a, 0)
      BY <1>1, <2>1, <2>3, Shapes DEF Pop
  <2> QED BY <2>2, <2>4, Zenon
<1>9. CASE op.o = "NewComposite"
  <2>1. u = Append(Pop(op.a), Other)
      BY <1>9 DEF Result
  <2>2. op_depth_effect(op) = <<op.a, 1 - op.a>>
      BY <1>1, <1>9, Effects
  <2>3. op.a \in 0 .. l /\ Other \in Nat
      BY <1>1, <2>2 DEF Other
  <2>4. Operates(stack, u, op.a, 1 - op.a, 0)
      BY <1>1, <2>1, <2>3, Shapes DEF Pop
  <2> QED BY <2>2, <2>4, Zenon
<1> QED BY <1>2, <1>3, <1>4, <1>5, <1>6, <1>7, <1>8, <1>9 DEF Straight

\* The stack with its top value moved to position j.
LEMMA MoveTop ==
    ASSUME NEW st \in Seq(Value), NEW j \in 1 .. Len(st) - 1,
           st[Len(st)] \in Nat
    PROVE  LET u == [SubSeq(st, 1, Len(st) - 1) EXCEPT ![j] = st[Len(st)]]
           IN /\ u \in Seq(Value) /\ Len(u) = Len(st) - 1
              /\ u[j] # Empty
              /\ \A i \in 1 .. Len(st) - 1 : i # j => u[i] = st[i]
<1> DEFINE n == Len(st) - 1
           low == SubSeq(st, 1, n)
           x == st[Len(st)]
<1>1. n \in Nat /\ j \in 1 .. n /\ n <= Len(st) /\ x \in Value /\ x # Empty
    BY DEF Value, Empty
<1>2. low \in Seq(Value) /\ Len(low) = n /\ \A i \in 1 .. n : low[i] = st[i]
    BY <1>1
<1> HIDE DEF n, low, x
<1>3. LET u == [low EXCEPT ![j] = x]
      IN /\ u \in Seq(Value) /\ Len(u) = n /\ u[j] = x
         /\ \A i \in 1 .. n : i # j => u[i] = st[i]
    BY <1>1, <1>2
<1> QED BY <1>1, <1>3 DEF n, low, x

\* SetLocal moves the top operand into a local of the frame.
LEMMA SetLocalMachine ==
    ASSUME IInv, status = "Running", Next_ip.o = "SetLocal",
           NEW u \in Result(Next_ip), NEW gs,
           Advanced(mod, frames, gs, Frame.ip + 1)
    PROVE  Machine(mod, gs, u, "Running")
<1> DEFINE a == Next_ip.a
           l == Len(stack)
           r == Rim(mod, Frame)
           b == Frame.base
           w == Code.locals
           g == gs[Len(frames)]
           e == op_depth_effect(Next_ip)
<1>1. /\ Admitted(mod) /\ Frame.chunk \in DOMAIN mod /\ Code = mod[Frame.chunk]
      /\ Frame.ip \in Positions(Code) /\ Next_ip = At(Code, Frame.ip)
      /\ FrameOK(mod, Frame, stack, Len(stack), 0, "Running")
      /\ a \in Nat /\ b \in Nat /\ w \in Nat
      /\ r = b + w /\ e[1] \in 0 .. l - r
      /\ r \in Nat /\ l \in Nat /\ stack \in Seq(Value)
      /\ Next_ip \in Instruction /\ Frame = frames[Len(frames)]
      /\ \A i \in r + 1 .. l : stack[i] \in Nat
      /\ Frame \in FrameTypes(mod) /\ Len(frames) \in Nat /\ Len(frames) > 0
      /\ Machine(mod, frames, stack, "Running")
    BY Dispatched, Zenon
<1>2. e = <<1, -1>>
    BY <1>1, Effects
<1>3. a < w
    BY <1>1, InRangeFacts
<1> DEFINE j == b + a + 1
<1>6. u = [SubSeq(stack, 1, l - 1) EXCEPT ![j] = stack[l]]
    BY DEF Result, Pop, Top
<1> HIDE DEF a, l, r, b, w, g, e
<1>4. 1 <= l - r /\ l \in r + 1 .. l
    BY <1>1, <1>2
<1>5. stack[l] \in Nat /\ j \in 1 .. r /\ j \in 1 .. l - 1 /\ j > b
    BY <1>1, <1>3, <1>4
<1> HIDE DEF j
<1>8. /\ u \in Seq(Value) /\ Len(u) = l - 1 /\ u[j] # Empty
      /\ \A i \in 1 .. l - 1 : i # j => u[i] = stack[i]
    BY <1>1, <1>5, <1>6, MoveTop DEF l
<1>10. \A i \in r + 1 .. Len(u) : u[i] # Empty
  <2> SUFFICES ASSUME NEW i \in r + 1 .. Len(u) PROVE u[i] # Empty
      OBVIOUS
  <2>1. i \in 1 .. l - 1 /\ i # j /\ i \in r + 1 .. l
      BY <1>1, <1>5, <1>8
  <2>2. u[i] = stack[i] /\ stack[i] \in Nat
      BY <1>1, <1>8, <2>1, Zenon
  <2> QED BY <2>2 DEF Empty
<1>11. ASSUME NEW v \in 0 .. Code.locals - 1, u[Frame.base + v + 1] = Empty
       PROVE  /\ stack[Frame.base + v + 1] = Empty
              /\ ~Writes(Code, Frame.ip, v)
  <2>0. v \in 0 .. w - 1 /\ u[b + v + 1] = Empty
      BY <1>11 DEF b, w
  <2>1. b + v + 1 \in 1 .. l - 1
    <3>1. b \in Nat /\ w \in Nat /\ l \in Nat /\ r = b + w /\ 1 <= l - r
        BY <1>1, <1>4, Zenon
    <3>2. v \in Int /\ 0 <= v /\ v <= w - 1
        BY <2>0, <3>1
    <3> QED BY <3>1, <3>2
  <2>2. v # a
      BY <1>8, <2>0 DEF j
  <2>3. b + v + 1 # j
      BY <1>1, <2>0, <2>2 DEF j
  <2>4. stack[b + v + 1] = Empty
      BY <1>8, <2>0, <2>1, <2>3
  <2>5. ~Writes(Code, Frame.ip, v)
    <3>1. /\ At(Code, Frame.ip) = Next_ip /\ Next_ip.o = "SetLocal"
          /\ Next_ip.a # v
        BY <1>1, <2>2 DEF a
    <3>2. Unary("SetLocal", v).a = v
        BY DEF Unary, Op
    <3> QED BY <3>1, <3>2 DEF Writes
  <2> QED BY <2>4, <2>5 DEF b
<1>12. /\ g.chunk = Frame.chunk /\ g.base = Frame.base /\ g.ip = Frame.ip + 1
  <2>1. Len(frames) \in 1 .. Len(frames)
      BY <1>1
  <2> QED BY <1>1, <2>1 DEF Advanced, g
<1>13. g.ip \in Targets(mod[Frame.chunk], Frame.ip)
    BY <1>1, <1>12 DEF Targets
<1>14. Follows(mod, Frame, g, stack, u, Len(u), 0, e)
  <2>1. /\ Len(u) \in Nat /\ 0 \in {0, 1}
        /\ 0 <= e[1] + e[2] /\ Len(u) = Len(stack) + e[2] - 0
      BY <1>1, <1>2, <1>4, <1>8 DEF l
  <2>2. e = op_depth_effect(At(mod[Frame.chunk], Frame.ip))
      BY <1>1 DEF e
  <2> QED BY <1>1, <1>10, <1>11, <1>12, <1>13, <2>1, <2>2, Zenon DEF Follows, r
<1>15. FrameOK(mod, g, u, Len(u), 0, "Running")
    BY <1>1, <1>14, MoveFrame
<1>16. /\ Due(frames, "Running", Len(frames)) = 0
       /\ Mode(frames, "Running", Len(frames)) = "Running"
    BY <1>1 DEF Due, Mode
<1>17. SameBelow(stack, u, Frame.base)
  <2>1. \A i \in 1 .. b : i \in 1 .. l - 1 /\ i # j
      BY <1>1, <1>4, <1>5
  <2> QED BY <1>8, <2>1 DEF SameBelow, b
<1>18. FrameOK(mod, gs[Len(frames)], u, Len(u),
               Due(frames, "Running", Len(frames)),
               Mode(frames, "Running", Len(frames)))
    BY <1>15, <1>16, Zenon DEF g
<1>19. SameBelow(stack, u, frames[Len(frames)].base)
    BY <1>1, <1>17, Zenon
<1>20. /\ Admitted(mod) /\ Machine(mod, frames, stack, "Running")
       /\ u \in Seq(Value)
    BY <1>1, <1>8, Zenon
<1> QED BY <1>18, <1>19, <1>20, Advance

LEMMA StraightIInv == IInv /\ StraightOp => IInv'
<1> SUFFICES ASSUME IInv, StraightOp PROVE IInv'
    OBVIOUS
<1> DEFINE t == Frame.ip + 1
<1>1. /\ status = "Running" /\ Next_ip.o \in Straight
      /\ frames' = Allocated(Stepped(t), heap_alloc(Next_ip))
      /\ stack' \in Result(Next_ip) /\ status' = "Running"
      /\ mod' = mod /\ yields' = yields /\ yields \in Nat
    BY DEF StraightOp, Dispatching, IInv
<1>2. /\ Next_ip = At(Code, Frame.ip) /\ t \in Nat /\ Next_ip.b \in Nat
    BY <1>1, Dispatched, Zenon
<1>3. t \in Targets(Code, Frame.ip)
    BY <1>1, <1>2 DEF Targets, Straight
<1>4. heap_alloc(Next_ip) \in Nat
    BY <1>2 DEF heap_alloc
<1>5. Advanced(mod, frames, frames', t)
  <2> HIDE DEF t
  <2>1. Advanced(mod, frames, Stepped(t), t)
      BY <1>1, <1>2, SteppedAdvances
  <2> QED BY <1>1, <1>4, <2>1, AllocatedAdvances
<1>6. Machine(mod, frames', stack', "Running")
  <2>1. CASE Next_ip.o = "SetLocal"
      BY <1>1, <1>5, <2>1, SetLocalMachine
  <2>2. CASE Next_ip.o # "SetLocal"
    <3>1. PICK p, n : /\ op_depth_effect(Next_ip) = <<p, n>>
                      /\ Operates(stack, stack', p, n, 0)
        BY <1>1, <2>2, StraightShape
    <3> HIDE DEF t
    <3> QED BY <1>1, <1>3, <1>5, <2>2, <3>1, OperandStep
  <2> QED BY <2>1, <2>2
<1> QED BY <1>1, <1>6, Primed

-----------------------------------------------------------------------------
\* Calls and returns.

LEMMA NewFrameType ==
    ASSUME NEW m, NEW c \in DOMAIN m, NEW base \in Nat
    PROVE  /\ NewFrame(c, base) \in FrameTypes(m)
           /\ NewFrame(c, base).chunk = c /\ NewFrame(c, base).ip = 0
           /\ NewFrame(c, base).base = base
           /\ ~NewFrame(c, base).yielded
BY DEF NewFrame, FrameTypes

\* A frame starts with its arguments in its first locals.
LEMMA EnterFrame ==
    ASSUME NEW m, Admitted(m), NEW c \in DOMAIN m, NEW base, base \in Nat,
           NEW u, u \in Seq(Value), Len(u) = base + m[c].locals,
           \A v \in 0 .. m[c].params - 1 : u[base + v + 1] # Empty
    PROVE  FrameOK(m, NewFrame(c, base), u, Len(u), 0, "Running")
<1> DEFINE f == NewFrame(c, base)
<1>1. /\ m \in Seq(Chunks) /\ m[c].params \in Nat /\ m[c].locals \in Nat
      /\ Len(u) \in Nat
    BY ModuleType, SequenceFacts DEF Admitted
<1>2. f.chunk = c /\ f.ip = 0 /\ f.base = base
    BY NewFrameType
<1>3. Rim(m, f) = Len(u)
    BY <1>2 DEF Rim
<1>4. 0 \in Positions(m[c]) /\ interp_region(m[c])[0 + 1] = 0
    BY Entry
<1> HIDE DEF f
<1>5. Placed(m, f, Len(u), 0)
  <2>1. Height(m, f) = 0
      BY <1>2, <1>4, Zenon DEF Height
  <2> QED BY <1>1, <1>2, <1>3, <1>4, <2>1 DEF Placed
<1>6. Filled(m, f, u, Len(u), "Running")
  <2>1. \A i \in Rim(m, f) + 1 .. Len(u) : u[i] # Empty
      BY <1>1, <1>3
  <2>2. ASSUME NEW v \in 0 .. m[c].locals - 1, u[base + v + 1] = Empty
        PROVE  EmptyAfterStream(m[c], v) /\ 0 \in must_analysis(m[c], v)
    <3>1. ~(v < m[c].params)
      <4>1. v < m[c].params => v \in 0 .. m[c].params - 1
          BY <1>1
      <4> QED BY <2>2, <4>1
    <3>2. EmptyAfterStream(m[c], v)
        BY <1>1, <3>1 DEF EmptyAfterStream
    <3> QED BY <3>1, <3>2, Unwritten
  <2> QED BY <1>2, <2>1, <2>2, Zenon DEF Filled
<1> QED BY <1>5, <1>6 DEF FrameOK, f

\* A frame on top of the one that called it.
LEMMA PushFrame ==
    ASSUME NEW m, Admitted(m), NEW fs, NEW gs, NEW st, NEW t, NEW nf, NEW u,
           Machine(m, fs, st, "Running"), Advanced(m, fs, gs, t),
           nf \in FrameTypes(m), u \in Seq(Value),
           FrameOK(m, gs[Len(fs)], u, nf.base, 1, "Running"),
           FrameOK(m, nf, u, Len(u), 0, "Running"),
           SameBelow(st, u, fs[Len(fs)].base)
    PROVE  Machine(m, Append(gs, nf), u, "Running")
<1> DEFINE n == Len(fs)
           hs == Append(gs, nf)
<1>0. /\ fs \in Seq(FrameTypes(m)) /\ st \in Seq(Value) /\ n \in Nat /\ n > 0
      /\ fs[n] \in FrameTypes(m) /\ Stacked(m, fs, st)
      /\ m \in Seq(Chunks) /\ Sound(m, fs, st, "Running")
    BY TopFrame DEF Admitted, Machine
<1>1. gs \in Seq(FrameTypes(m)) /\ Len(gs) = n
    BY DEF Advanced
<1>2. /\ hs \in Seq(FrameTypes(m)) /\ Len(hs) = n + 1 /\ hs # <<>>
      /\ hs[n + 1] = nf /\ \A k \in 1 .. n : hs[k] = gs[k]
  <2>1. /\ hs \in Seq(FrameTypes(m)) /\ Len(hs) = Len(gs) + 1 /\ hs # <<>>
        /\ hs[Len(gs) + 1] = nf /\ \A k \in 1 .. Len(gs) : hs[k] = gs[k]
      BY <1>1, AppendProperties
  <2> HIDE DEF hs
  <2> QED BY <1>1, <2>1, Zenon
<1> HIDE DEF n, hs
<1>3. \A k \in 1 .. n : /\ hs[k].chunk = fs[k].chunk /\ hs[k].base = fs[k].base
                        /\ k # n => hs[k].ip = fs[k].ip
    BY <1>2, Zenon DEF Advanced, n
<1>4. \A k \in 1 .. n + 1 : /\ hs[k] \in FrameTypes(m) /\ hs[k].base \in Nat
                            /\ Rim(m, hs[k]) \in Nat /\ hs[k].base <= Rim(m, hs[k])
    BY <1>0, <1>2, SequenceFacts, FrameFacts
<1>5. \A k \in 1 .. n : Rim(m, hs[k]) = Rim(m, fs[k])
    BY <1>3 DEF Rim
<1>6. Rim(m, hs[n]) <= nf.base /\ Rim(m, nf) <= Len(u) /\ nf.base \in Nat
  <2>1. n \in 1 .. n + 1 /\ n + 1 \in 1 .. n + 1 /\ n \in 1 .. n
      BY <1>0
  <2>2. /\ Rim(m, hs[n]) \in Nat /\ nf.base \in Nat /\ Rim(m, nf) \in Nat
        /\ Len(u) \in Nat /\ hs[n] = gs[n]
      BY <1>2, <1>4, <2>1, SequenceFacts
  <2> DEFINE h == Height(m, gs[n])
             g == Height(m, nf)
  <2>3. /\ h \in Nat /\ 1 <= h /\ Rim(m, gs[n]) + h - 1 = nf.base
        /\ g \in Nat /\ Rim(m, nf) + g - 0 = Len(u)
      BY Zenon DEF FrameOK, Placed, n
  <2> HIDE DEF h, g
  <2> QED BY <2>2, <2>3
<1>7. Stacked(m, hs, u)
  <2>1. ASSUME NEW j \in 1 .. n + 1, NEW k \in 1 .. n + 1, j < k
        PROVE  Rim(m, hs[j]) <= hs[k].base
    <3>1. CASE k # n + 1
      <4>1. j \in 1 .. n /\ k \in 1 .. n
          BY <1>0, <2>1, <3>1
      <4> QED BY <1>0, <1>3, <1>5, <2>1, <4>1 DEF Stacked, n
    <3>2. CASE k = n + 1 /\ j = n
        BY <1>2, <1>6, <3>2
    <3>3. CASE k = n + 1 /\ j # n
      <4>1. j \in 1 .. n /\ n \in 1 .. n /\ j < n /\ n \in 1 .. n + 1
          BY <1>0, <2>1, <3>3
      <4>2. Rim(m, fs[j]) <= fs[n].base
          BY <1>0, <4>1, Zenon DEF Stacked, n
      <4>3. Rim(m, hs[j]) <= hs[n].base
          BY <1>3, <1>5, <4>1, <4>2
      <4>4. /\ Rim(m, hs[j]) \in Nat /\ hs[n].base \in Nat /\ Rim(m, hs[n]) \in Nat
            /\ hs[n].base <= Rim(m, hs[n])
          BY <1>4, <4>1
      <4> QED BY <1>2, <1>6, <3>3, <4>3, <4>4
    <3> QED BY <1>0, <2>1, <3>1, <3>2, <3>3
  <2>2. ASSUME NEW k \in 1 .. n + 1
        PROVE  Rim(m, hs[k]) <= Len(u)
    <3>1. CASE k = n + 1
        BY <1>2, <1>6, <3>1
    <3>2. CASE k # n + 1
      <4>1. n + 1 \in 1 .. n + 1 /\ k < n + 1
          BY <1>0, <3>2
      <4>2. Rim(m, hs[k]) <= nf.base
          BY <1>2, <2>1, <4>1, Zenon
      <4>3. /\ Rim(m, hs[k]) \in Nat /\ Rim(m, nf) \in Nat
            /\ nf.base <= Rim(m, nf) /\ Len(u) \in Nat
          BY <1>2, <1>4, <4>1, SequenceFacts
      <4> QED BY <1>6, <4>2, <4>3
    <3> QED BY <3>1, <3>2
  <2>3. hs[1].base = 0
    <3>1. fs # <<>> /\ 1 \in 1 .. n
        BY <1>0, SequenceFacts DEF n
    <3> QED BY <1>0, <1>3, <3>1, Zenon DEF Stacked
  <2> QED BY <1>2, <2>1, <2>2, <2>3, Zenon DEF Stacked
<1>8. ASSUME NEW k \in 1 .. n + 1
      PROVE  FrameOK(m, hs[k], u, Ceiling(hs, u, k), Due(hs, "Running", k),
                     Mode(hs, "Running", k))
  <2>0. Mode(hs, "Running", k) = "Running"
      BY DEF Mode
  <2>1. CASE k = n + 1
    <3>1. Ceiling(hs, u, k) = Len(u) /\ Due(hs, "Running", k) = 0
        BY <1>0, <1>2, <2>1 DEF Ceiling, Due
    <3> QED BY <1>2, <2>0, <2>1, <3>1, Zenon
  <2>2. CASE k = n
    <3>1. Ceiling(hs, u, k) = nf.base /\ Due(hs, "Running", k) = 1
        BY <1>0, <1>2, <2>2 DEF Ceiling, Due
    <3>2. n \in 1 .. n
        BY <1>0
    <3> QED BY <1>2, <2>0, <2>2, <3>1, <3>2, Zenon DEF n
  <2>3. CASE k # n /\ k # n + 1
    <3>0. k \in 1 .. n /\ k # Len(fs)
        BY <1>0, <2>3 DEF n
    <3>1. /\ fs[k] \in FrameTypes(m)
          /\ k + 1 \in 1 .. n /\ fs[k + 1].base \in Nat
          /\ FrameOK(m, fs[k], st, fs[k + 1].base, 1, "Running")
          /\ Rim(m, fs[k]) <= fs[k + 1].base
          /\ fs[k + 1].base <= fs[n].base
        BY <1>0, <3>0, LowerFrame DEF n
    <3>2. Ceiling(hs, u, k) = fs[k + 1].base /\ Due(hs, "Running", k) = 1
        BY <1>0, <1>2, <1>3, <2>3, <3>0, <3>1 DEF Ceiling, Due
    <3>3. \A i \in 1 .. fs[k + 1].base : u[i] = Empty => st[i] = Empty
      <4> DEFINE a == fs[k + 1].base
                 b == fs[n].base
      <4>1. a \in Nat /\ b \in Nat /\ a <= b
          BY <1>0, <3>1, FrameFacts
      <4>2. \A i \in 1 .. b : u[i] = st[i]
          BY Zenon DEF SameBelow, n
      <4> HIDE DEF a, b
      <4>3. \A i \in 1 .. a : u[i] = st[i]
          BY <4>1, <4>2
      <4> QED BY <4>3, Zenon DEF a
    <3>4. /\ hs[k].chunk = fs[k].chunk /\ hs[k].base = fs[k].base
          /\ hs[k].ip = fs[k].ip
        BY <1>3, <2>3, <3>0, Zenon
    <3>5. FrameOK(m, hs[k], u, fs[k + 1].base, 1, "Running")
      <4> DEFINE x == fs[k + 1].base
                 f == fs[k]
                 g == hs[k]
      <4>1. /\ m \in Seq(Chunks) /\ f \in FrameTypes(m) /\ x \in Nat
            /\ FrameOK(m, f, st, x, 1, "Running") /\ Rim(m, f) <= x
            /\ g.chunk = f.chunk /\ g.ip = f.ip /\ g.base = f.base
            /\ \A i \in 1 .. x : u[i] = Empty => st[i] = Empty
          BY <1>0, <3>1, <3>3, <3>4, Zenon
      <4> HIDE DEF x, f, g
      <4>2. FrameOK(m, g, u, x, 1, "Running")
          BY <4>1, KeepFrame, Zenon
      <4> QED BY <4>2, Zenon DEF x, g
    <3> QED BY <2>0, <3>2, <3>5, Zenon
  <2> QED BY <2>1, <2>2, <2>3
<1>9. Sound(m, hs, u, "Running")
    BY <1>2, <1>8, Zenon DEF Sound
<1>10. Machine(m, hs, u, "Running")
    BY <1>2, <1>7, <1>9 DEF Machine
<1> QED BY <1>10 DEF hs

\* Fill pushes Empty, and nothing when the arguments fill the locals.
LEMMA FillType ==
    ASSUME NEW n \in Nat
    PROVE  /\ Fill(n) \in Seq(Value) /\ Len(Fill(n)) = n
           /\ \A i \in 1 .. n : Fill(n)[i] = Empty
BY DEF Fill, Value

\* A stack with n unwritten locals above it.
LEMMA FillAbove ==
    ASSUME NEW st, NEW n, st \in Seq(Value), n \in Nat
    PROVE  /\ st \o Fill(n) \in Seq(Value)
           /\ Len(st \o Fill(n)) = Len(st) + n
           /\ \A i \in 1 .. Len(st) : (st \o Fill(n))[i] = st[i]
<1>1. Fill(n) \in Seq(Value) /\ Len(Fill(n)) = n
    BY FillType
<1>2. Len(st) \in Nat
    BY SequenceFacts
<1> DEFINE w == Fill(n)
<1> HIDE DEF w
<1>3. /\ st \o w \in Seq(Value) /\ Len(st \o w) = Len(st) + Len(w)
      /\ \A i \in 1 .. Len(st) + Len(w) :
            (st \o w)[i] = IF i <= Len(st) THEN st[i] ELSE w[i - Len(st)]
    BY <1>1, ConcatProperties, Zenon DEF w
<1>4. \A i \in 1 .. Len(st) : (st \o w)[i] = st[i]
  <2> SUFFICES ASSUME NEW i \in 1 .. Len(st) PROVE (st \o w)[i] = st[i]
      OBVIOUS
  <2>1. i \in 1 .. Len(st) + Len(w) /\ i <= Len(st)
      BY <1>1, <1>2 DEF w
  <2> QED BY <1>3, <2>1, Zenon
<1> QED BY <1>1, <1>3, <1>4, Zenon DEF w

LEMMA CallIInv == IInv /\ CallOp => IInv'
<1> SUFFICES ASSUME IInv, CallOp PROVE IInv'
    OBVIOUS
<1> DEFINE t == Frame.ip + 1
           c == Next_ip.a
           p == Next_ip.b
           l == Len(stack)
           r == Rim(mod, Frame)
           w == mod[c].locals
           gs == Stepped(t)
           base == l - p
           nf == NewFrame(c, base)
           g == gs[Len(frames)]
           e == op_depth_effect(Next_ip)
           u == stack \o Fill(w - p)
<1>1. /\ status = "Running" /\ Next_ip.o = "Call"
      /\ stack' = u /\ frames' = Append(gs, nf) /\ status' = "Running"
      /\ mod' = mod /\ yields' = yields /\ yields \in Nat
    BY Zenon DEF CallOp, Dispatching, IInv
<1>2. /\ Admitted(mod) /\ Frame.chunk \in DOMAIN mod /\ Code = mod[Frame.chunk]
      /\ Frame.ip \in Positions(Code) /\ Next_ip = At(Code, Frame.ip)
      /\ FrameOK(mod, Frame, stack, Len(stack), 0, "Running")
      /\ c \in Nat /\ p \in Nat /\ r \in Nat /\ l \in Nat /\ t \in Nat
      /\ stack \in Seq(Value) /\ mod \in Seq(Chunks)
      /\ Next_ip \in Instruction /\ Frame = frames[Len(frames)]
      /\ Frame \in FrameTypes(mod) /\ Len(frames) \in Nat /\ Len(frames) > 0
      /\ Machine(mod, frames, stack, "Running") /\ e[1] \in 0 .. l - r
      /\ Frame.base \in Nat /\ Frame.base <= r
      /\ Code.locals \in Nat /\ r = Frame.base + Code.locals
      /\ \A i \in r + 1 .. l : stack[i] \in Nat
    BY <1>1, Dispatched, Zenon
<1>3. t \in Targets(Code, Frame.ip)
    BY <1>1, <1>2 DEF Targets
<1>4. e = <<p, 1 - p>>
    BY <1>1, <1>2, Effects
<1>5. c \in DOMAIN mod /\ p <= w
    BY <1>1, <1>2, InRangeFacts
<1>6. mod[c].params \in Nat /\ w \in Nat
    BY <1>2, <1>5, ModuleType
<1>7. p = mod[c].params
  <2>1. Frame.ip \in PositionsOf(mod[Frame.chunk], "Call")
      BY <1>1, <1>2 DEF PositionsOf
  <2>2. \A ip \in PositionsOf(mod[Frame.chunk], "Call") :
           At(mod[Frame.chunk], ip).b = mod[At(mod[Frame.chunk], ip).a].params
      BY <1>2, Zenon DEF Admitted, Lowered
  <2> QED BY <1>2, <2>1, <2>2
<1>8. Advanced(mod, frames, gs, t)
  <2> HIDE DEF t
  <2> QED BY <1>1, <1>2, SteppedAdvances
<1>9. g.chunk = Frame.chunk /\ g.base = Frame.base /\ g.ip = t
  <2>1. Len(frames) \in 1 .. Len(frames)
      BY <1>2
  <2> HIDE DEF t, gs
  <2> QED BY <1>2, <1>8, <2>1 DEF Advanced
<1> HIDE DEF t, c, p, l, r, w, gs, g, e
<1>10. base \in Nat /\ r <= base /\ base <= l /\ base + w = l + (w - p)
       /\ w - p \in Nat /\ base + p = l
  <2>1. e[1] = p /\ e[1] \in 0 .. l - r /\ w \in Nat /\ p <= w
      BY <1>2, <1>4, <1>5, <1>6
  <2>2. l \in Nat /\ r \in Nat
      BY <1>2
  <2> QED BY <2>1, <2>2
<1>n. /\ l \in Nat /\ r \in Nat /\ p \in Nat /\ base \in Nat
      /\ r <= base /\ base <= l /\ base + p = l /\ l - p = base
    BY <1>2, <1>10, Zenon
<1> HIDE DEF base, u
<1>11. /\ u \in Seq(Value) /\ Len(u) = base + w
       /\ \A i \in 1 .. l : u[i] = stack[i]
  <2>1. /\ u \in Seq(Value) /\ Len(u) = Len(stack) + (w - p)
        /\ \A i \in 1 .. Len(stack) : u[i] = stack[i]
      BY <1>2, <1>10, FillAbove DEF u
  <2> QED BY <1>10, <2>1, Zenon DEF l
<1>12. nf \in FrameTypes(mod) /\ nf.base = base /\ nf.chunk = c
    BY <1>5, <1>10, NewFrameType
<1>13. FrameOK(mod, nf, u, Len(u), 0, "Running")
  <2>1. ASSUME NEW v \in 0 .. mod[c].params - 1
        PROVE  u[base + v + 1] # Empty
    <3>1. v \in 0 .. p - 1
        BY <1>7
    <3>2. base + v + 1 \in r + 1 .. l /\ base + v + 1 \in 1 .. l
        BY <1>n, <3>1
    <3>3. u[base + v + 1] = stack[base + v + 1] /\ stack[base + v + 1] \in Nat
        BY <1>2, <1>11, <3>2, Zenon
    <3> QED BY <3>3 DEF Empty
  <2>2. Len(u) = base + mod[c].locals
      BY <1>11 DEF w
  <2> QED BY <1>2, <1>5, <1>10, <1>11, <2>1, <2>2, EnterFrame
<1>14. Follows(mod, Frame, g, stack, u, base, 1, e)
  <2>1. /\ base \in Nat /\ 1 \in {0, 1}
        /\ 1 <= e[1] + e[2] /\ base = Len(stack) + e[2] - 1
    <3>1. e[1] = p /\ e[2] = 1 - p
        BY <1>4
    <3>2. 1 <= p + (1 - p) /\ base = l + (1 - p) - 1
        BY <1>n
    <3> QED BY <1>n, <3>1, <3>2 DEF l
  <2>2. e = op_depth_effect(At(mod[Frame.chunk], Frame.ip))
      BY <1>2, Zenon DEF e
  <2>3. ASSUME NEW i \in r + 1 .. base
        PROVE  u[i] # Empty
    <3>1. i \in 1 .. l /\ i \in r + 1 .. l
        BY <1>n
    <3>2. u[i] = stack[i] /\ stack[i] \in Nat
        BY <1>2, <1>11, <3>1, Zenon
    <3> QED BY <3>2 DEF Empty
  <2>4. ASSUME NEW v \in 0 .. mod[Frame.chunk].locals - 1,
               u[Frame.base + v + 1] = Empty
        PROVE  /\ stack[Frame.base + v + 1] = Empty
               /\ ~Writes(mod[Frame.chunk], Frame.ip, v)
    <3> DEFINE b == Frame.base
               z == mod[Frame.chunk].locals
    <3>1. b \in Nat /\ z \in Nat /\ r = b + z /\ v \in 0 .. z - 1
        BY <1>2, Zenon
    <3> HIDE DEF b, z
    <3>2. b + v + 1 \in 1 .. l
        BY <1>n, <3>1
    <3>3. stack[Frame.base + v + 1] = Empty
        BY <1>11, <2>4, <3>2, Zenon DEF b
    <3>4. ~Writes(mod[Frame.chunk], Frame.ip, v)
      <4>1. /\ At(mod[Frame.chunk], Frame.ip) = Next_ip /\ Next_ip.o = "Call"
            /\ Unary("SetLocal", v).o = "SetLocal"
          BY <1>1, <1>2 DEF Unary, Op
      <4> QED BY <4>1 DEF Writes
    <3> QED BY <3>3, <3>4
  <2>5. g.ip \in Targets(mod[Frame.chunk], Frame.ip)
      BY <1>2, <1>3, <1>9, Zenon
  <2> QED BY <1>9, <2>1, <2>2, <2>3, <2>4, <2>5, Zenon DEF Follows, r
<1>15. FrameOK(mod, g, u, base, 1, "Running")
    BY <1>2, <1>14, MoveFrame
<1>16. SameBelow(stack, u, Frame.base)
  <2> DEFINE b == Frame.base
  <2>1. b \in Nat /\ b <= r
      BY <1>2, Zenon
  <2> HIDE DEF b
  <2>2. \A i \in 1 .. b : i \in 1 .. l
      BY <1>n, <2>1
  <2> QED BY <1>11, <2>2, Zenon DEF SameBelow, b
<1>17. Machine(mod, Append(gs, nf), u, "Running")
  <2>1. FrameOK(mod, gs[Len(frames)], u, nf.base, 1, "Running")
      BY <1>12, <1>15, Zenon DEF g
  <2>2. SameBelow(stack, u, frames[Len(frames)].base)
      BY <1>2, <1>16, Zenon
  <2>3. Admitted(mod) /\ Machine(mod, frames, stack, "Running") /\ u \in Seq(Value)
      BY <1>2, <1>11, Zenon
  <2> HIDE DEF nf
  <2> QED BY <1>8, <1>12, <1>13, <2>1, <2>2, <2>3, PushFrame
<1> QED BY <1>1, <1>17, Primed

\* A machine with nothing to run.
LEMMA NoMachine ==
    ASSUME NEW m, NEW s \in {"Idle", "Finished"}
    PROVE  Machine(m, <<>>, <<>>, s)
<1>1. <<>> \in Seq(FrameTypes(m)) /\ <<>> \in Seq(Value)
    BY EmptySeq
<1>2. Stacked(m, <<>>, <<>>) /\ Sound(m, <<>>, <<>>, s)
    BY DEF Stacked, Sound
<1>3. /\ (<<>> = <<>>) = (s \in {"Idle", "Finished"})
      /\ s # "Reset"
      /\ s \in {"Idle", "Running", "Yielded", "Reset", "Finished", "Error"}
    OBVIOUS
<1> QED BY <1>1, <1>2, <1>3, Zenon DEF Machine

\* The caller gets its frame back, with the result on top of it.
LEMMA PopFrame ==
    ASSUME NEW m, Admitted(m), NEW fs, NEW st, NEW u, NEW n,
           Machine(m, fs, st, "Running"), n = Len(fs) - 1, n # 0,
           u \in Seq(Value), Len(u) = fs[Len(fs)].base + 1,
           SameBelow(st, u, fs[Len(fs)].base), u[Len(u)] # Empty
    PROVE  Machine(m, SubSeq(fs, 1, n), u, "Running")
<1> DEFINE hs == SubSeq(fs, 1, n)
           b == fs[n + 1].base
<1>0. /\ fs \in Seq(FrameTypes(m)) /\ st \in Seq(Value) /\ n \in Nat /\ n > 0
      /\ Stacked(m, fs, st) /\ Len(fs) = n + 1
      /\ m \in Seq(Chunks) /\ Sound(m, fs, st, "Running")
  <2>1. /\ fs \in Seq(FrameTypes(m)) /\ st \in Seq(Value)
        /\ Len(fs) \in Nat /\ Len(fs) > 0
        /\ Stacked(m, fs, st)
        /\ m \in Seq(Chunks) /\ Sound(m, fs, st, "Running")
      BY TopFrame DEF Admitted, Machine
  <2> QED BY <2>1
<1>1. /\ hs \in Seq(FrameTypes(m)) /\ Len(hs) = n
      /\ \A k \in 1 .. n : hs[k] = fs[k]
    BY <1>0
<1>2. hs # <<>>
    BY <1>0, <1>1, SequenceFacts
<1> HIDE DEF hs
<1>3. /\ \A k \in 1 .. n : fs[k] \in FrameTypes(m) /\ Rim(m, fs[k]) \in Nat
      /\ b \in Nat
  <2>1. \A k \in 1 .. n + 1 : fs[k] \in FrameTypes(m)
      BY <1>0, SequenceFacts
  <2>2. n + 1 \in 1 .. n + 1 /\ \A k \in 1 .. n : k \in 1 .. n + 1
      BY <1>0
  <2> QED BY <1>0, <2>1, <2>2, FrameFacts
<1>4. Len(u) = b + 1 /\ SameBelow(st, u, b)
    BY <1>0, Zenon
<1>5. \A k \in 1 .. n : Rim(m, fs[k]) <= b
  <2>1. \A k \in 1 .. n : k \in 1 .. Len(fs) /\ Len(fs) \in 1 .. Len(fs) /\ k < Len(fs)
      BY <1>0
  <2> QED BY <1>0, <2>1, Zenon DEF Stacked
<1>6. Stacked(m, hs, u)
  <2>1. \A k \in 1 .. n : Rim(m, hs[k]) <= Len(u)
    <3> SUFFICES ASSUME NEW k \in 1 .. n PROVE Rim(m, hs[k]) <= Len(u)
        OBVIOUS
    <3>1. Rim(m, fs[k]) \in Nat /\ Rim(m, fs[k]) <= b /\ hs[k] = fs[k]
        BY <1>1, <1>3, <1>5
    <3> HIDE DEF b
    <3> QED BY <1>3, <1>4, <3>1
  <2>2. \A j, k \in 1 .. n : j < k => Rim(m, hs[j]) <= hs[k].base
    <3>1. \A k \in 1 .. n : k \in 1 .. Len(fs)
        BY <1>0
    <3> QED BY <1>0, <1>1, <3>1, Zenon DEF Stacked
  <2>3. hs[1].base = 0
    <3>1. fs # <<>> /\ 1 \in 1 .. n
        BY <1>0, SequenceFacts
    <3> QED BY <1>0, <1>1, <3>1, Zenon DEF Stacked
  <2> QED BY <1>1, <2>1, <2>2, <2>3, Zenon DEF Stacked
<1>7. ASSUME NEW k \in 1 .. n
      PROVE  FrameOK(m, hs[k], u, Ceiling(hs, u, k), Due(hs, "Running", k),
                     Mode(hs, "Running", k))
  <2>0. Mode(hs, "Running", k) = "Running"
      BY DEF Mode
  <2>1. k \in 1 .. Len(fs) /\ k # Len(fs)
      BY <1>0
  <2>2. /\ fs[k] \in FrameTypes(m)
        /\ k + 1 \in 1 .. Len(fs) /\ fs[k + 1].base \in Nat
        /\ FrameOK(m, fs[k], st, fs[k + 1].base, 1, "Running")
        /\ Rim(m, fs[k]) <= fs[k + 1].base
        /\ fs[k + 1].base <= b
      BY <1>0, <2>1, LowerFrame
  <2>3. \A i \in 1 .. fs[k + 1].base : u[i] = st[i]
    <3> DEFINE a == fs[k + 1].base
    <3>1. a \in Nat /\ a <= b
        BY <2>2
    <3> HIDE DEF a, b
    <3>2. \A i \in 1 .. a : i \in 1 .. b
        BY <1>3, <3>1
    <3> QED BY <1>4, <3>2, Zenon DEF SameBelow, a
  <2>4. CASE k # n
    <3>1. Ceiling(hs, u, k) = fs[k + 1].base /\ Due(hs, "Running", k) = 1
      <4>1. k + 1 \in 1 .. n /\ k < n
          BY <1>0, <2>4
      <4> QED BY <1>1, <2>4, <4>1 DEF Ceiling, Due
    <3>2. \A i \in 1 .. fs[k + 1].base : u[i] = Empty => st[i] = Empty
        BY <2>3, Zenon
    <3>3. FrameOK(m, fs[k], u, fs[k + 1].base, 1, "Running")
        BY <1>0, <2>2, <3>2, KeepFrame, Zenon
    <3> QED BY <1>1, <2>0, <3>1, <3>3, Zenon
  <2>5. CASE k = n
    <3>1. Ceiling(hs, u, k) = b + 1 /\ Due(hs, "Running", k) = 0
        BY <1>0, <1>1, <1>4, <2>5 DEF Ceiling, Due
    <3>2. FrameOK(m, fs[k], st, b, 1, "Running")
        BY <2>2, <2>5, Zenon
    <3> DEFINE f == fs[k]
               h == Height(m, f)
               r == Rim(m, f)
               w == m[f.chunk].locals
    <3>3. /\ h \in Nat /\ r + h - 1 = b /\ 1 <= h /\ f.ip \in Positions(m[f.chunk])
        BY <3>2, Zenon DEF FrameOK, Placed
    <3>4. r \in Nat /\ f.base \in Nat /\ w \in Nat /\ r = f.base + w
        BY <1>0, <2>2, FrameFacts
    <3>5. r <= b
        BY <2>2, <2>5, Zenon
    <3> HIDE DEF h, b, r
    <3>6. Placed(m, f, b + 1, 0)
      <4>1. r + h - 0 = b + 1 /\ 0 <= h
          BY <1>3, <3>3, <3>4
      <4> QED BY <3>3, <4>1, Zenon DEF Placed, h, r
    <3>7. \A i \in r + 1 .. b + 1 : u[i] # Empty
      <4> SUFFICES ASSUME NEW i \in r + 1 .. b + 1 PROVE u[i] # Empty
          OBVIOUS
      <4>1. CASE i = b + 1
          BY <1>4, <4>1
      <4>2. CASE i # b + 1
        <5>1. i \in r + 1 .. b /\ i \in 1 .. b
            BY <1>3, <3>4, <4>2
        <5>2. st[i] # Empty
            BY <3>2, <5>1, Zenon DEF FrameOK, Filled, r
        <5>3. u[i] = st[i]
            BY <1>4, <5>1, Zenon DEF SameBelow
        <5> QED BY <5>2, <5>3, Zenon
      <4> QED BY <4>1, <4>2
    <3>8. ASSUME NEW v \in 0 .. w - 1, u[f.base + v + 1] = Empty
          PROVE  IF EmptyAfterStream(m[f.chunk], v)
                 THEN f.ip \in must_analysis(m[f.chunk], v)
                 ELSE "Running" = "Reset"
      <4> DEFINE x == f.base
      <4>1. x \in Nat /\ w \in Nat /\ r = x + w
          BY <3>4
      <4> HIDE DEF x, w
      <4>2. x + v + 1 \in 1 .. b
          BY <1>3, <3>5, <4>1
      <4>3. st[f.base + v + 1] = Empty
          BY <1>4, <3>8, <4>2, Zenon DEF SameBelow, x
      <4> QED BY <3>2, <4>3, Zenon DEF FrameOK, Filled, w
    <3>9. Filled(m, f, u, b + 1, "Running")
        BY <3>7, <3>8, Zenon DEF Filled, r
    <3>10. FrameOK(m, f, u, b + 1, 0, "Running")
        BY <3>6, <3>9, Zenon DEF FrameOK
    <3> QED BY <1>1, <2>0, <3>1, <3>10, Zenon
  <2> QED BY <2>4, <2>5
<1>8. Sound(m, hs, u, "Running")
    BY <1>1, <1>7, Zenon DEF Sound
<1>9. Machine(m, hs, u, "Running")
    BY <1>1, <1>2, <1>6, <1>8 DEF Machine
<1> QED BY <1>9 DEF hs

LEMMA ReturnIInv == IInv /\ ReturnOp => IInv'
<1> SUFFICES ASSUME IInv, ReturnOp PROVE IInv'
    OBVIOUS
<1> DEFINE n == Len(frames) - 1
           l == Len(stack)
           b == Frame.base
           u == SubSeq(stack, 1, b) \o <<Top>>
<1>1. /\ status = "Running" /\ Next_ip.o = "Return"
      /\ frames' = SubSeq(frames, 1, n)
      /\ status' = IF Len(frames) = 1 THEN "Finished" ELSE "Running"
      /\ stack' = SubSeq(stack, 1, b) \o IF Len(frames) = 1 THEN <<>> ELSE <<Top>>
      /\ mod' = mod /\ yields' = yields /\ yields \in Nat
    BY DEF ReturnOp, Dispatching, IInv
<1>2. /\ Admitted(mod) /\ Frame.chunk \in DOMAIN mod /\ Code = mod[Frame.chunk]
      /\ Frame.ip \in Positions(Code) /\ Next_ip = At(Code, Frame.ip)
      /\ FrameOK(mod, Frame, stack, Len(stack), 0, "Running")
      /\ Rim(mod, Frame) \in Nat /\ l \in Nat /\ b \in Nat /\ b <= Rim(mod, Frame)
      /\ stack \in Seq(Value) /\ Frame = frames[Len(frames)]
      /\ frames \in Seq(FrameTypes(mod)) /\ frames # <<>>
      /\ Len(frames) \in Nat /\ Len(frames) > 0
      /\ Machine(mod, frames, stack, "Running")
      /\ \A i \in Rim(mod, Frame) + 1 .. l : stack[i] \in Nat
    BY <1>1, Dispatched, Zenon
<1>3. CASE Len(frames) = 1
  <2>1. b = 0
      BY <1>2, <1>3 DEF Machine, Stacked
  <2>2. stack' = <<>> /\ frames' = <<>> /\ status' = "Finished"
      BY <1>1, <1>2, <1>3, <2>1
  <2>3. Machine(mod, <<>>, <<>>, "Finished")
      BY NoMachine
  <2> QED BY <1>1, <2>2, <2>3, Primed
<1>4. CASE Len(frames) # 1
  <2>1. Rim(mod, Frame) + 1 <= l
    <3> DEFINE h == Height(mod, Frame)
               r == Rim(mod, Frame)
    <3>1. h \in Nat /\ r + h - 0 = l
        BY <1>2, Zenon DEF FrameOK, Placed
    <3>2. h # 0
      <4>1. Frame.ip \in PositionsOf(mod[Frame.chunk], "Return")
          BY <1>1, <1>2 DEF PositionsOf
      <4> QED BY <1>2, <4>1, Zenon DEF Admitted, Lowered, Height
    <3>3. r \in Nat
        BY <1>2
    <3> HIDE DEF h, r
    <3>4. r + 1 <= l
        BY <1>2, <3>1, <3>2, <3>3
    <3> QED BY <3>4 DEF r
  <2>2. Top \in Nat /\ b \in 0 .. l
      BY <1>2, <2>1 DEF Top
  <2> DEFINE p == l - b
  <2>3. p \in 0 .. l /\ l - p = b /\ l - p + 1 = b + 1
      BY <1>2, <2>2
  <2>4. <<Top>> \in Seq(Nat) /\ Len(<<Top>>) = 1
      BY <2>2
  <2> HIDE DEF l, b, p
  <2>5. /\ u \in Seq(Value) /\ Len(u) = b + 1
        /\ \A i \in 1 .. b : u[i] = stack[i]
        /\ \A i \in b + 1 .. Len(u) : u[i] # Empty
    <3> DEFINE z == SubSeq(stack, 1, l - p) \o <<Top>>
    <3>1. /\ z \in Seq(Value) /\ Len(z) = l - p + Len(<<Top>>)
          /\ \A i \in 1 .. l - p : z[i] = stack[i]
          /\ \A i \in l - p + 1 .. Len(z) : z[i] # Empty
        BY <1>2, <2>3, <2>4, PopPush DEF l
    <3> QED BY <2>3, <2>4, <3>1, Zenon
  <2>6. u[Len(u)] # Empty
    <3>1. Len(u) \in b + 1 .. Len(u)
        BY <1>2, <2>5
    <3> QED BY <2>5, <3>1, Zenon
  <2> HIDE DEF u
  <2>7. stack' = u /\ status' = "Running"
      BY <1>1, <1>4, Zenon DEF u
  <2>8. SameBelow(stack, u, frames[Len(frames)].base)
      BY <1>2, <2>5, Zenon DEF SameBelow, b
  <2>9. Len(u) = frames[Len(frames)].base + 1
      BY <1>2, <2>5, Zenon DEF b
  <2>10. n = Len(frames) - 1 /\ n # 0
      BY <1>2, <1>4
  <2>11. Admitted(mod) /\ Machine(mod, frames, stack, "Running")
      BY <1>2, Zenon
  <2> HIDE DEF n
  <2>12. Machine(mod, SubSeq(frames, 1, n), u, "Running")
      BY <2>5, <2>6, <2>8, <2>9, <2>10, <2>11, PopFrame
  <2> QED BY <1>1, <2>7, <2>12, Primed
<1> QED BY <1>3, <1>4


-----------------------------------------------------------------------------
\* Resets, traps.

\* The frames of a reset: the top one starts over at t.
Rewound(fs, t) ==
    [k \in DOMAIN fs |->
        IF k = Len(fs)
        THEN [fs[k] EXCEPT !.ip = t, !.cost = 0, !.heap = 0, !.yielded = FALSE]
        ELSE [fs[k] EXCEPT !.heap = 0]]

\* The mark of the yields is taken off the top frame only.
Unmarked(fs, gs) ==
    \A k \in 1 .. Len(fs) : /\ k = Len(fs) => ~gs[k].yielded
                            /\ k # Len(fs) => gs[k].yielded = fs[k].yielded

LEMMA RewoundAdvances ==
    ASSUME NEW m, NEW fs, NEW t, fs \in Seq(FrameTypes(m)), t \in Nat
    PROVE  /\ Advanced(m, fs, Rewound(fs, t), t)
           /\ Unmarked(fs, Rewound(fs, t))
<1> DEFINE n == Len(fs)
           hs == Rewound(fs, t)
<1>0. DOMAIN fs = 1 .. n /\ n \in Nat
    BY SequenceFacts
<1>a. hs = [k \in 1 .. n |->
              IF k = Len(fs)
              THEN [fs[k] EXCEPT !.ip = t, !.cost = 0, !.heap = 0,
                                 !.yielded = FALSE]
              ELSE [fs[k] EXCEPT !.heap = 0]]
    BY <1>0, Zenon DEF Rewound
<1> HIDE DEF hs
<1>1. ASSUME NEW k \in 1 .. n
      PROVE  /\ hs[k] \in FrameTypes(m)
             /\ hs[k].chunk = fs[k].chunk /\ hs[k].base = fs[k].base
             /\ hs[k].ip = IF k = n THEN t ELSE fs[k].ip
             /\ k = n => ~hs[k].yielded
             /\ k # n => hs[k].yielded = fs[k].yielded
  <2> DEFINE f == fs[k]
             x == hs[k]
  <2>1. f \in FrameTypes(m)
      BY SequenceFacts
  <2>2. x = IF k = n
            THEN [f EXCEPT !.ip = t, !.cost = 0, !.heap = 0, !.yielded = FALSE]
            ELSE [f EXCEPT !.heap = 0]
      BY <1>a, Zenon
  <2> HIDE DEF f, x
  <2>3. CASE k = n
    <3>1. x = [f EXCEPT !.ip = t, !.cost = 0, !.heap = 0, !.yielded = FALSE]
        BY <2>2, <2>3, Zenon
    <3>2. /\ x \in FrameTypes(m) /\ x.chunk = f.chunk
          /\ x.base = f.base /\ x.ip = t
        BY <2>1, <3>1 DEF FrameTypes
    <3>3. ~x.yielded
        BY <2>1, <3>1 DEF FrameTypes
    <3> QED BY <2>3, <3>2, <3>3, Zenon DEF f, x
  <2>4. CASE k # n
    <3>1. x = [f EXCEPT !.heap = 0]
        BY <2>2, <2>4, Zenon
    <3>2. /\ x \in FrameTypes(m) /\ x.chunk = f.chunk
          /\ x.base = f.base /\ x.ip = f.ip
        BY <2>1, <3>1 DEF FrameTypes
    <3>3. x.yielded = f.yielded
        BY <2>1, <3>1, Zenon DEF FrameTypes
    <3> QED BY <2>4, <3>2, <3>3, Zenon DEF f, x
  <2> QED BY <2>3, <2>4
<1>2. DOMAIN hs = 1 .. n
    BY <1>a
<1>3. hs \in [1 .. n -> FrameTypes(m)]
  <2>1. hs = [k \in 1 .. n |-> hs[k]]
      BY <1>a
  <2> QED BY <1>1, <1>2, <2>1, Zenon
<1>4. hs \in Seq(FrameTypes(m))
    BY <1>0, <1>3, SeqDef, Zenon
<1>5. Len(hs) = n
    BY <1>0, <1>2, <1>4
<1> QED BY <1>1, <1>4, <1>5, Zenon DEF Advanced, Unmarked, hs

\* Only a stream resets, to the instruction behind the Stream it starts with.
LEMMA ResetsStream ==
    ASSUME IInv, status = "Running", Next_ip.o = "Reset"
    PROVE  /\ Code.kind = "Stream" /\ FirstOf(Code, "Stream") = 0
           /\ 1 \in Positions(Code) /\ interp_region(Code)[2] = 0
           /\ At(Code, 0).o = "Stream"
<1>1. /\ Admitted(mod) /\ Frame.chunk \in DOMAIN mod /\ Code = mod[Frame.chunk]
      /\ Frame.ip \in Positions(Code) /\ Next_ip = At(Code, Frame.ip)
    BY Dispatched, Zenon
<1>2. Code.kind = "Stream"
  <2>1. Frame.ip \in PositionsOf(Code, "Reset")
      BY <1>1 DEF PositionsOf
  <2>2. Code.kind # "Stream" => ~Has(Code, "Reset")
      BY <1>1, FlowChecks DEF verify_block_type
  <2> QED BY <2>1, <2>2 DEF Has
<1> QED BY <1>1, <1>2, Entry

LEMMA ResetIInv == IInv /\ ResetOp => IInv'
<1> SUFFICES ASSUME IInv, ResetOp PROVE IInv'
    OBVIOUS
<1> DEFINE n == Len(frames)
           b == Frame.base
           w == Code.locals
           low == SubSeq(stack, 1, b)
           u == low \o Fill(w)
           t == FirstOf(Code, "Stream") + 1
<1>1. /\ status = "Running" /\ Next_ip.o = "Reset" /\ stack' = u
      /\ frames' = [k \in DOMAIN frames |->
                      IF k = n
                      THEN [frames[k] EXCEPT !.ip = t, !.cost = 0, !.heap = 0,
                                             !.yielded = FALSE]
                      ELSE [frames[k] EXCEPT !.heap = 0]]
      /\ status' = "Reset" /\ mod' = mod /\ yields' = 0
    BY DEF ResetOp, Dispatching
<1>2. /\ Admitted(mod) /\ Frame.chunk \in DOMAIN mod /\ Code = mod[Frame.chunk]
      /\ Frame.ip \in Positions(Code) /\ Next_ip = At(Code, Frame.ip)
      /\ stack \in Seq(Value) /\ Frame = frames[n] /\ Frame \in FrameTypes(mod)
      /\ frames \in Seq(FrameTypes(mod)) /\ frames # <<>>
      /\ n \in Nat /\ n > 0 /\ Machine(mod, frames, stack, "Running")
      /\ Rim(mod, Frame) \in Nat /\ Len(stack) \in Nat
      /\ op_depth_effect(Next_ip)[1] \in 0 .. Len(stack) - Rim(mod, Frame)
      /\ b \in Nat /\ w \in Nat /\ b <= Rim(mod, Frame)
      /\ mod \in Seq(Chunks)
    BY <1>1, Dispatched, Zenon
<1>3. Code.kind = "Stream" /\ FirstOf(Code, "Stream") = 0
      /\ 1 \in Positions(Code) /\ interp_region(Code)[2] = 0
    BY <1>1, ResetsStream
<1>4. FirstOf(Code, "Stream") = 0 /\ t = 1
      /\ 1 \in Positions(Code) /\ interp_region(Code)[1 + 1] = 0
    BY <1>3
<1> HIDE DEF t
<1>5. Advanced(mod, frames, frames', t)
  <2>1. frames' = Rewound(frames, t) /\ t \in Nat
      BY <1>1, <1>4, Zenon DEF Rewound
  <2> QED BY <1>2, <2>1, RewoundAdvances, Zenon
<1>6. b <= Len(stack)
    BY <1>2
<1>7. low \in Seq(Value) /\ Len(low) = b /\ \A i \in 1 .. b : low[i] = stack[i]
    BY <1>2, <1>6
<1> HIDE DEF low, b, w, n
<1>8. /\ u \in Seq(Value) /\ Len(u) = b + w
      /\ \A i \in 1 .. b : u[i] = stack[i]
  <2>1. /\ u \in Seq(Value) /\ Len(u) = Len(low) + w
        /\ \A i \in 1 .. Len(low) : u[i] = low[i]
      BY <1>2, <1>7, FillAbove
  <2> QED BY <1>7, <2>1, Zenon
<1> HIDE DEF u
<1> DEFINE g == frames'[n]
<1>9. g.chunk = Frame.chunk /\ g.base = b /\ g.ip = 1
  <2>1. n \in 1 .. n
      BY <1>2
  <2> QED BY <1>2, <1>4, <1>5, <2>1 DEF Advanced, n, b
<1> HIDE DEF g
<1>10. FrameOK(mod, g, u, Len(u), 0, "Reset")
  <2>1. Rim(mod, g) = Len(u)
      BY <1>2, <1>8, <1>9 DEF Rim, w
  <2>2. Placed(mod, g, Len(u), 0)
    <3>1. Height(mod, g) = 0
        BY <1>2, <1>4, <1>9, Zenon DEF Height
    <3>2. Len(u) \in Nat
        BY <1>8, SequenceFacts
    <3> QED BY <1>2, <1>4, <1>9, <2>1, <3>1, <3>2 DEF Placed
  <2>3. Filled(mod, g, u, Len(u), "Reset")
    <3>1. \A i \in Rim(mod, g) + 1 .. Len(u) : u[i] # Empty
        BY <1>2, <1>8, <2>1
    <3>2. \A v \in 0 .. mod[g.chunk].locals - 1 :
             EmptyAfterStream(mod[g.chunk], v) =>
                 g.ip \in must_analysis(mod[g.chunk], v)
      <4>1. mod[g.chunk].kind = "Stream" /\ g.chunk \in DOMAIN mod
          BY <1>2, <1>3, <1>9
      <4> QED BY <1>2, <1>9, <4>1, Unwritten
    <3> QED BY <3>1, <3>2, Zenon DEF Filled
  <2> QED BY <2>2, <2>3, Zenon DEF FrameOK
<1>11. Machine(mod, frames', stack', "Reset")
  <2>1. Due(frames, "Reset", Len(frames)) = 0
        /\ Mode(frames, "Reset", Len(frames)) = "Reset"
      BY <1>2 DEF Due, Mode, n
  <2>2. FrameOK(mod, frames'[Len(frames)], u, Len(u),
                Due(frames, "Reset", Len(frames)),
                Mode(frames, "Reset", Len(frames)))
      BY <1>10, <2>1, Zenon DEF g, n
  <2>3. SameBelow(stack, u, frames[Len(frames)].base)
      BY <1>2, <1>8, Zenon DEF SameBelow, b, n
  <2>4. mod[frames[Len(frames)].chunk].kind = "Stream"
      BY <1>2, <1>3, Zenon DEF n
  <2>5. /\ Admitted(mod) /\ Machine(mod, frames, stack, "Running")
        /\ u \in Seq(Value)
      BY <1>2, <1>8, Zenon
  <2> QED BY <1>1, <1>5, <2>2, <2>3, <2>4, <2>5, Advance
<1> QED BY <1>1, <1>11, Primed

LEMMA TrapIInv == IInv /\ TrapOp => IInv'
<1> SUFFICES ASSUME IInv, TrapOp PROVE IInv'
    OBVIOUS
<1> DEFINE p == op_depth_effect(Next_ip)[1]
           t == Frame.ip + 1
           l == Len(stack)
           r == Rim(mod, Frame)
<1>1. /\ status = "Running" /\ Next_ip.o = "Trap"
      /\ stack' = SubSeq(stack, 1, l - p) /\ frames' = Stepped(t)
      /\ status' = "Error" /\ mod' = mod /\ yields' = yields /\ yields \in Nat
    BY DEF TrapOp, Dispatching, IInv, Pop
<1>2. /\ Admitted(mod) /\ stack \in Seq(Value) /\ Frame = frames[Len(frames)]
      /\ frames \in Seq(FrameTypes(mod)) /\ frames # <<>> /\ l \in Nat
      /\ Machine(mod, frames, stack, "Running") /\ mod \in Seq(Chunks)
      /\ r \in Nat /\ p \in 0 .. l - r /\ p \in 0 .. l /\ t \in Nat
      /\ Len(frames) > 0 /\ Len(frames) \in Nat
    BY <1>1, Dispatched, Zenon
<1> HIDE DEF p, t, l, r
<1>3. Advanced(mod, frames, frames', t)
    BY <1>1, <1>2, SteppedAdvances
<1>4. stack' \in Seq(Value) /\ Len(stack') = l - p
    BY <1>1, <1>2 DEF l
<1>5. r <= Len(stack')
    BY <1>2, <1>4
<1> DEFINE fs == frames'
           u == stack'
<1>6. Stacked(mod, fs, u)
  <2>1. Stacked(mod, frames, stack)
      BY <1>2 DEF Machine
  <2>2. Rim(mod, frames[Len(frames)]) <= Len(u)
      BY <1>2, <1>5, Zenon DEF r
  <2> HIDE DEF u, fs
  <2> QED BY <1>2, <1>3, <1>4, <2>1, <2>2, KeepStacked DEF fs, u
<1>7. fs \in Seq(FrameTypes(mod)) /\ fs # <<>>
  <2>1. fs \in Seq(FrameTypes(mod)) /\ Len(fs) = Len(frames)
      BY <1>3 DEF Advanced
  <2> HIDE DEF fs
  <2> QED BY <1>2, <2>1, SequenceFacts
<1> HIDE DEF fs, u
<1>8. Machine(mod, fs, u, "Error")
    BY <1>4, <1>6, <1>7 DEF Machine, u
<1> QED BY <1>1, <1>8, Primed DEF fs, u


-----------------------------------------------------------------------------
\* The host's calls.

\* A frame on an empty stack.
LEMMA FirstFrame ==
    ASSUME NEW m, Admitted(m), NEW f, NEW u, f \in FrameTypes(m),
           u \in Seq(Value), f.base = 0,
           FrameOK(m, f, u, Len(u), 0, "Running")
    PROVE  Machine(m, <<f>>, u, "Running")
<1> DEFINE fs == <<f>>
<1>1. /\ fs \in Seq(FrameTypes(m)) /\ Len(fs) = 1 /\ fs # <<>> /\ fs[1] = f
    OBVIOUS
<1> HIDE DEF fs
<1>2. /\ Rim(m, f) \in Nat /\ Len(u) \in Nat
    BY FrameFacts, SequenceFacts DEF Admitted
<1>3. Rim(m, f) <= Len(u)
  <2> DEFINE h == Height(m, f)
  <2>1. h \in Nat /\ Rim(m, f) + h - 0 = Len(u)
      BY Zenon DEF FrameOK, Placed
  <2> HIDE DEF h
  <2> QED BY <1>2, <2>1
<1>4. Stacked(m, fs, u)
    BY <1>1, <1>3 DEF Stacked
<1>5. /\ Ceiling(fs, u, 1) = Len(u) /\ Due(fs, "Running", 1) = 0
      /\ Mode(fs, "Running", 1) = "Running"
    BY <1>1 DEF Ceiling, Due, Mode
<1>6. Sound(m, fs, u, "Running")
  <2> SUFFICES ASSUME NEW k \in 1 .. Len(fs)
               PROVE  FrameOK(m, fs[k], u, Ceiling(fs, u, k),
                              Due(fs, "Running", k), Mode(fs, "Running", k))
      BY Zenon DEF Sound
  <2>1. k = 1
      BY <1>1
  <2> QED BY <1>1, <1>5, <2>1, Zenon
<1>7. Machine(m, fs, u, "Running")
    BY <1>1, <1>4, <1>6 DEF Machine
<1> QED BY <1>7 DEF fs

LEMMA CallFunctionIInv ==
    ASSUME IInv, NEW c \in DOMAIN mod, call_function(c)
    PROVE  IInv'
<1> DEFINE q == mod[c].params
           w == mod[c].locals
           nf == NewFrame(c, 0)
<1>1. /\ Admitted(mod) /\ mod \in Seq(Chunks) /\ Lowered(mod)
      /\ frames = <<>> /\ stack = <<>>
  <2>1. /\ Admitted(mod) /\ mod \in Seq(Chunks) /\ Lowered(mod)
        /\ status \in {"Idle", "Finished"}
        /\ Machine(mod, frames, stack, status)
      BY DEF IInv, Admitted, call_function
  <2> QED BY <2>1 DEF Machine
<1>2. q \in Nat /\ w \in Nat /\ q <= w
    BY <1>1, ModuleType DEF Lowered
<1>3. PICK args \in [1 .. q -> Inputs] :
         stack' = stack \o args \o Fill(w - q)
    BY Zenon DEF call_function
<1>4. Inputs \subseteq Nat
    BY ChunkRunAssumption
<1>5. /\ frames' = Append(frames, NewFrame(c, Len(stack)))
      /\ status' = "Running" /\ mod' = mod /\ yields' = 0
    BY DEF call_function
<1>6. frames' = <<nf>>
    BY <1>1, <1>5
<1> HIDE DEF q, w
<1>7. /\ args \in Seq(Value) /\ Len(args) = q
      /\ \A i \in 1 .. q : args[i] \in Nat
  <2>1. args \in [1 .. q -> Nat]
      BY <1>3, <1>4
  <2>2. args \in [1 .. q -> Value] /\ \A i \in 1 .. q : args[i] \in Nat
      BY <2>1 DEF Value
  <2>3. DOMAIN args = 1 .. q /\ args = [i \in 1 .. q |-> args[i]]
      BY <2>1
  <2>4. args \in Seq(Value)
      BY <1>2, <2>2, SeqDef, Zenon
  <2>5. Len(args) = q
      BY <1>2, <2>3, <2>4
  <2> QED BY <2>2, <2>4, <2>5
<1> DEFINE u == args \o Fill(w - q)
<1>8. stack' = u
    BY <1>1, <1>3, <1>7
<1>9. w - q \in Nat
    BY <1>2
<1>10. /\ u \in Seq(Value) /\ Len(u) = q + (w - q)
       /\ \A i \in 1 .. q : u[i] = args[i]
  <2>1. /\ u \in Seq(Value) /\ Len(u) = Len(args) + (w - q)
        /\ \A i \in 1 .. Len(args) : u[i] = args[i]
      BY <1>7, <1>9, FillAbove
  <2> QED BY <1>7, <2>1, Zenon
<1> HIDE DEF u
<1>11. Len(u) = 0 + mod[c].locals
    BY <1>2, <1>10 DEF w
<1>12. ASSUME NEW v \in 0 .. mod[c].params - 1
       PROVE  u[0 + v + 1] # Empty
  <2>1. 0 + v + 1 \in 1 .. q
      BY <1>2 DEF q
  <2>2. u[0 + v + 1] = args[0 + v + 1] /\ args[0 + v + 1] \in Nat
      BY <1>7, <1>10, <2>1, Zenon
  <2> QED BY <2>2 DEF Empty
<1>13. FrameOK(mod, nf, u, Len(u), 0, "Running")
    BY <1>1, <1>10, <1>11, <1>12, EnterFrame
<1>14. nf \in FrameTypes(mod) /\ nf.base = 0
    BY NewFrameType
<1> HIDE DEF nf
<1>15. Machine(mod, <<nf>>, u, "Running")
    BY <1>1, <1>10, <1>13, <1>14, FirstFrame
<1>16. Machine(mod, frames', stack', status')
    BY <1>5, <1>6, <1>8, <1>15
<1>17. yields' \in Nat
    BY <1>5
<1> QED BY <1>5, <1>16, <1>17, Primed

LEMMA ResetAfterErrorIInv == IInv /\ reset_after_error => IInv'
<1> SUFFICES ASSUME IInv, reset_after_error PROVE IInv'
    OBVIOUS
<1>1. /\ frames' = <<>> /\ stack' = <<>> /\ status' = "Idle" /\ mod' = mod
      /\ yields' = 0
    BY DEF reset_after_error
<1>2. Machine(mod, frames', stack', status')
    BY <1>1, NoMachine
<1>3. yields' \in Nat
    BY <1>1
<1> QED BY <1>1, <1>2, <1>3, Primed
\* Only the chunks, positions and bases of the frames matter.
LEMMA KeepMachine ==
    ASSUME NEW m, NEW gs, NEW hs, NEW st, NEW s, m \in Seq(Chunks),
           hs \in Seq(FrameTypes(m)), Len(hs) = Len(gs),
           \A k \in 1 .. Len(gs) : /\ hs[k].chunk = gs[k].chunk
                                   /\ hs[k].ip = gs[k].ip
                                   /\ hs[k].base = gs[k].base,
           Machine(m, gs, st, s)
    PROVE  Machine(m, hs, st, s)
<1>1. gs \in Seq(FrameTypes(m)) /\ Len(gs) \in Nat
    BY SequenceFacts DEF Machine
<1>2. (hs = <<>>) = (gs = <<>>)
    BY <1>1, SequenceFacts
<1>3. ASSUME NEW k \in 1 .. Len(gs)
      PROVE  Rim(m, hs[k]) = Rim(m, gs[k]) /\ hs[k].base = gs[k].base
    BY DEF Rim
<1>4. Stacked(m, hs, st)
  <2>1. Stacked(m, gs, st)
      BY DEF Machine
  <2>2. /\ \A j, k \in 1 .. Len(hs) : j < k => Rim(m, hs[j]) <= hs[k].base
        /\ \A k \in 1 .. Len(hs) : Rim(m, hs[k]) <= Len(st)
      BY <1>3, <2>1, Zenon DEF Stacked
  <2>3. hs # <<>> => hs[1].base = 0
      BY <1>1, <1>2, <1>3, <2>1, SequenceFacts DEF Stacked
  <2> QED BY <2>2, <2>3, Zenon DEF Stacked
<1>5. ASSUME Sound(m, gs, st, s), NEW k \in 1 .. Len(hs)
      PROVE  FrameOK(m, hs[k], st, Ceiling(hs, st, k), Due(hs, s, k),
                     Mode(hs, s, k))
  <2>1. FrameOK(m, gs[k], st, Ceiling(gs, st, k), Due(gs, s, k), Mode(gs, s, k))
      BY <1>5, Zenon DEF Sound
  <2>2. Due(hs, s, k) = Due(gs, s, k) /\ Mode(hs, s, k) = Mode(gs, s, k)
      BY Zenon DEF Due, Mode
  <2>3. Ceiling(hs, st, k) = Ceiling(gs, st, k)
      BY <1>1 DEF Ceiling
  <2>4. Height(m, hs[k]) = Height(m, gs[k]) /\ Rim(m, hs[k]) = Rim(m, gs[k])
      BY <1>3, Zenon DEF Height
  <2>5. /\ hs[k].chunk = gs[k].chunk /\ hs[k].ip = gs[k].ip
        /\ hs[k].base = gs[k].base
      OBVIOUS
  <2> QED BY <2>1, <2>2, <2>3, <2>4, <2>5, Zenon DEF FrameOK, Placed, Filled
<1>6. s # "Error" => Sound(m, hs, st, s)
    BY <1>5, Zenon DEF Sound, Machine
<1>7. s = "Reset" => m[hs[Len(hs)].chunk].kind = "Stream"
  <2>1. s = "Reset" => gs # <<>> /\ m[gs[Len(gs)].chunk].kind = "Stream"
      BY DEF Machine
  <2>2. gs # <<>> => Len(gs) \in 1 .. Len(gs)
      BY <1>1, SequenceFacts
  <2> QED BY <2>1, <2>2
<1> QED BY <1>2, <1>4, <1>6, <1>7 DEF Machine


\* What the host hands over at a resume wakes the frames as they were left.
LEMMA Wake ==
    ASSUME NEW m, Admitted(m), NEW fs, NEW st, NEW u, NEW s,
           s \in {"Yielded", "Reset"}, Machine(m, fs, st, s), u \in Seq(Value),
           Len(u) = Len(st) + (IF s = "Yielded" THEN 1 ELSE 0),
           \A i \in 1 .. Len(st) : u[i] = Empty => st[i] = Empty,
           s = "Yielded" => u[Len(st) + 1] # Empty,
           s = "Reset" /\ m[fs[Len(fs)].chunk].params # 0 =>
               u[fs[Len(fs)].base + 1] # Empty
    PROVE  Machine(m, fs, u, "Running")
<1> DEFINE n == Len(fs)
           l == Len(st)
           f == fs[n]
           due == IF s = "Yielded" THEN 1 ELSE 0
<1>1. /\ fs \in Seq(FrameTypes(m)) /\ st \in Seq(Value) /\ m \in Seq(Chunks)
      /\ Stacked(m, fs, st) /\ Sound(m, fs, st, s) /\ fs # <<>>
    BY DEF Machine, Admitted
<1>2. /\ n \in Nat /\ n > 0 /\ l \in Nat /\ n \in 1 .. n
      /\ f \in FrameTypes(m)
    BY <1>1, SequenceFacts
<1>3. /\ f.base \in Nat /\ m[f.chunk].locals \in Nat
      /\ Rim(m, f) = f.base + m[f.chunk].locals /\ Rim(m, f) \in Nat
    BY <1>1, <1>2, FrameFacts
<1>4. due \in {0, 1} /\ Len(u) = l + due /\ l <= Len(u)
    BY <1>2
<1>5. Stacked(m, fs, u)
  <2>1. \A k \in 1 .. n : Rim(m, fs[k]) \in Nat /\ Rim(m, fs[k]) <= l
      BY <1>1, SequenceFacts, FrameFacts DEF Stacked
  <2>2. \A k \in 1 .. n : Rim(m, fs[k]) <= Len(u)
    <3> SUFFICES ASSUME NEW k \in 1 .. n PROVE Rim(m, fs[k]) <= Len(u)
        OBVIOUS
    <3> DEFINE r == Rim(m, fs[k])
    <3>1. r \in Nat /\ r <= l
        BY <2>1
    <3> HIDE DEF r, l
    <3> QED BY <1>2, <1>4, <3>1 DEF r
  <2> QED BY <1>1, <2>2, Zenon DEF Stacked
<1>6. Rim(m, f) <= l
    BY <1>1, <1>2 DEF Stacked
<1>7. FrameOK(m, f, u, Len(u), 0, "Running")
  <2>1. FrameOK(m, f, st, l, due, Mode(fs, s, n))
    <3>1. Ceiling(fs, st, n) = l /\ Due(fs, s, n) = due
        BY <1>2 DEF Ceiling, Due
    <3>2. FrameOK(m, fs[n], st, Ceiling(fs, st, n), Due(fs, s, n), Mode(fs, s, n))
        BY <1>1, <1>2, Zenon DEF Sound
    <3> QED BY <3>1, <3>2, Zenon
  <2>2. Placed(m, f, Len(u), 0)
    <3> DEFINE h == Height(m, f)
               r == Rim(m, f)
    <3>1. f.ip \in Positions(m[f.chunk]) /\ h \in Nat /\ r + h - due = l
        BY <2>1, Zenon DEF FrameOK, Placed
    <3>2. r \in Nat
        BY <1>3
    <3> HIDE DEF h, r, due, l
    <3>3. 0 <= h /\ r + h - 0 = Len(u)
        BY <1>2, <1>4, <3>1, <3>2
    <3> QED BY <3>1, <3>3, Zenon DEF Placed, h, r
  <2>3. ASSUME NEW i \in Rim(m, f) + 1 .. Len(u)
        PROVE  u[i] # Empty
    <3>1. CASE i \in Rim(m, f) + 1 .. l
      <4>1. st[i] # Empty
          BY <2>1, <3>1, Zenon DEF FrameOK, Filled
      <4>2. i \in 1 .. l
          BY <1>2, <1>3, <3>1
      <4> QED BY <4>1, <4>2
    <3>2. CASE i \notin Rim(m, f) + 1 .. l
      <4>1. i = l + 1 /\ due = 1
          BY <1>2, <1>3, <1>4, <3>2
      <4> QED BY <4>1
    <3> QED BY <3>1, <3>2
  <2>4. ASSUME NEW v \in 0 .. m[f.chunk].locals - 1, u[f.base + v + 1] = Empty
        PROVE  EmptyAfterStream(m[f.chunk], v)
               /\ f.ip \in must_analysis(m[f.chunk], v)
    <3>1. f.base + v + 1 \in 1 .. l
      <4> DEFINE w == m[f.chunk].locals
                 b == f.base
                 r == Rim(m, f)
      <4>1. /\ w \in Nat /\ b \in Nat /\ r = b + w /\ r <= l /\ v \in 0 .. w - 1
          BY <1>3, <1>6
      <4> HIDE DEF w, b, r, l
      <4>2. b + v + 1 \in 1 .. l
          BY <1>2, <4>1
      <4> QED BY <4>2 DEF b
    <3>2. st[f.base + v + 1] = Empty
        BY <2>4, <3>1, Zenon
    <3>3. IF EmptyAfterStream(m[f.chunk], v)
          THEN f.ip \in must_analysis(m[f.chunk], v)
          ELSE Mode(fs, s, n) = "Reset"
        BY <2>1, <3>2, Zenon DEF FrameOK, Filled
    <3>4. Mode(fs, s, n) = "Reset" => s = "Reset"
        BY DEF Mode
    <3>5. ~EmptyAfterStream(m[f.chunk], v) => v = 0 /\ m[f.chunk].params # 0
        BY DEF EmptyAfterStream
    <3>6. v = 0 => f.base + v + 1 = f.base + 1
        BY <1>3
    <3> QED BY <2>4, <3>3, <3>4, <3>5, <3>6, Zenon
  <2>5. Filled(m, f, u, Len(u), "Running")
      BY <2>3, <2>4, Zenon DEF Filled
  <2> QED BY <2>2, <2>5, Zenon DEF FrameOK
<1>8. ASSUME NEW k \in 1 .. n
      PROVE  FrameOK(m, fs[k], u, Ceiling(fs, u, k), Due(fs, "Running", k),
                     Mode(fs, "Running", k))
  <2>0. Mode(fs, "Running", k) = "Running"
      BY DEF Mode
  <2>1. CASE k = n
    <3>1. Ceiling(fs, u, k) = Len(u) /\ Due(fs, "Running", k) = 0
        BY <1>2, <2>1 DEF Ceiling, Due
    <3> QED BY <1>7, <2>0, <2>1, <3>1, Zenon
  <2>2. CASE k # n
    <3>1. /\ fs[k] \in FrameTypes(m) /\ k + 1 \in 1 .. n
          /\ fs[k + 1].base \in Nat
          /\ FrameOK(m, fs[k], st, fs[k + 1].base, 1, "Running")
          /\ Rim(m, fs[k]) <= fs[k + 1].base
        BY <1>1, <2>2, LowerFrame
    <3>2. Ceiling(fs, u, k) = fs[k + 1].base /\ Due(fs, "Running", k) = 1
        BY <1>2, <2>2 DEF Ceiling, Due
    <3>3. \A i \in 1 .. fs[k + 1].base : u[i] = Empty => st[i] = Empty
      <4> DEFINE a == fs[k + 1].base
                 r == Rim(m, fs[k + 1])
      <4>1. fs[k + 1] \in FrameTypes(m)
          BY <1>1, <3>1, SequenceFacts
      <4>2. a \in Nat /\ r \in Nat /\ a <= r
          BY <1>1, <4>1, FrameFacts
      <4>3. r <= l
          BY <1>1, <3>1, Zenon DEF Stacked
      <4> HIDE DEF a, r, l
      <4>4. 1 .. a \subseteq 1 .. l
          BY <1>2, <4>2, <4>3
      <4> QED BY <4>4, Zenon DEF a, l
    <3>4. FrameOK(m, fs[k], u, fs[k + 1].base, 1, "Running")
        BY <1>1, <3>1, <3>3, KeepFrame, Zenon
    <3> QED BY <2>0, <3>2, <3>4, Zenon
  <2> QED BY <2>1, <2>2
<1>9. Sound(m, fs, u, "Running")
    BY <1>8, Zenon DEF Sound
<1> QED BY <1>1, <1>5, <1>9 DEF Machine

\* A resume restarts the time of some frames and nothing else.
LEMMA ResumedFrames ==
    ASSUME frames \in Seq(FrameTypes(mod))
    PROVE  /\ Resumed(frames) \in Seq(FrameTypes(mod))
           /\ Len(Resumed(frames)) = Len(frames)
           /\ \A k \in 1 .. Len(frames) :
                 /\ Resumed(frames)[k].chunk = frames[k].chunk
                 /\ Resumed(frames)[k].ip = frames[k].ip
                 /\ Resumed(frames)[k].base = frames[k].base
                 /\ Resumed(frames)[k].yielded = frames[k].yielded
<1> DEFINE n == Len(frames)
           hs == Resumed(frames)
<1>1. n \in Nat /\ DOMAIN frames = 1 .. n
    BY SequenceFacts
<1>2. hs = [k \in 1 .. n |->
              IF ChunkOf(frames[k]).kind = "Reentrant"
              THEN [frames[k] EXCEPT !.cost = 0] ELSE frames[k]]
    BY <1>1, Zenon DEF Resumed
<1>3. ASSUME NEW k \in 1 .. n
      PROVE  /\ hs[k] \in FrameTypes(mod) /\ hs[k].chunk = frames[k].chunk
             /\ hs[k].ip = frames[k].ip /\ hs[k].base = frames[k].base
             /\ hs[k].yielded = frames[k].yielded
  <2> DEFINE f == frames[k]
             g == hs[k]
  <2>1. f \in FrameTypes(mod)
      BY SequenceFacts
  <2>2. g = [f EXCEPT !.cost = 0] \/ g = f
      BY <1>2, Zenon
  <2> HIDE DEF f, g, hs
  <2>3. /\ g \in FrameTypes(mod) /\ g.chunk = f.chunk
        /\ g.ip = f.ip /\ g.base = f.base
    <3>1. CASE g = f
        BY <2>1, <3>1, Zenon
    <3>2. CASE g = [f EXCEPT !.cost = 0]
        BY <2>1, <3>2 DEF FrameTypes
    <3> QED BY <2>2, <3>1, <3>2
  <2>4. g.yielded = f.yielded
      BY <2>1, <2>2, Zenon DEF FrameTypes
  <2> QED BY <2>3, <2>4, Zenon DEF f, g
<1> HIDE DEF hs
<1>4. DOMAIN hs = 1 .. n /\ hs = [k \in 1 .. n |-> hs[k]]
    BY <1>2
<1>5. hs \in [1 .. n -> FrameTypes(mod)]
    BY <1>3, <1>4, Zenon
<1>6. hs \in Seq(FrameTypes(mod))
    BY <1>1, <1>5, SeqDef, Zenon
<1>7. Len(hs) = n
    BY <1>1, <1>4, <1>6
<1> QED BY <1>3, <1>6, <1>7, Zenon DEF hs

\* Overwriting one slot with a value empties none.
LEMMA Overwrite ==
    ASSUME NEW st, st \in Seq(Value), NEW j, j \in 1 .. Len(st), NEW v, v \in Nat,
           NEW u, u = [st EXCEPT ![j] = v]
    PROVE  /\ u \in Seq(Value) /\ Len(u) = Len(st) /\ u[j] # Empty
           /\ \A i \in 1 .. Len(st) : u[i] = Empty => st[i] = Empty
BY DEF Value, Empty

LEMMA GreatestIs ==
    ASSUME NEW S, NEW n, n \in S, \A x \in S : x \in Nat /\ x <= n
    PROVE  Max(S) = n
<1>1. \E x \in S : \A y \in S : x >= y
    OBVIOUS
<1>2. Max(S) \in S /\ \A y \in S : Max(S) >= y
    BY <1>1, Zenon DEF Max
<1> QED BY <1>2

LEMMA ResumeIInv == IInv /\ resume => IInv'
<1> SUFFICES ASSUME IInv, resume PROVE IInv'
    OBVIOUS
<1> DEFINE n == Len(frames)
           s == IF StreamFrames # {} THEN Max(StreamFrames) ELSE 1
<1>1. /\ status \in {"Yielded", "Reset"} /\ status' = "Running"
      /\ frames' = Resumed(frames) /\ mod' = mod /\ yields' = yields
      /\ yields \in Nat
    BY DEF resume, IInv
<1>2. PICK v \in Inputs :
         LET into == IF s \in StreamFrames /\ ChunkOf(frames[s]).params > 0
                     THEN [stack EXCEPT ![frames[s].base + 1] = v] ELSE stack
         IN stack' = IF status = "Reset" THEN into ELSE Append(into, v)
    BY Zenon DEF resume
<1> HIDE DEF s
<1> DEFINE into == IF s \in StreamFrames /\ ChunkOf(frames[s]).params > 0
                   THEN [stack EXCEPT ![frames[s].base + 1] = v] ELSE stack
<1>3. /\ Admitted(mod) /\ mod \in Seq(Chunks)
      /\ Machine(mod, frames, stack, status)
    BY Zenon DEF IInv, Admitted
<1>4. /\ frames \in Seq(FrameTypes(mod)) /\ stack \in Seq(Value)
      /\ frames # <<>> /\ Stacked(mod, frames, stack)
      /\ Sound(mod, frames, stack, status)
      /\ status = "Reset" => mod[frames[n].chunk].kind = "Stream"
    BY <1>1, <1>3 DEF Machine
<1>5. n \in Nat /\ n > 0 /\ n \in 1 .. n /\ Len(stack) \in Nat
    BY <1>4, SequenceFacts
<1>6. v \in Nat
    BY ChunkRunAssumption
<1>7. \A k \in StreamFrames : k \in 1 .. n /\ mod[frames[k].chunk].kind = "Stream"
    BY <1>4 DEF StreamFrames, ChunkOf
\* A stream with a parameter has a slot for it.
<1>8. ASSUME NEW k \in 1 .. n, mod[frames[k].chunk].params > 0
      PROVE  frames[k].base + 1 \in 1 .. Len(stack)
  <2> DEFINE f == frames[k]
             b == f.base
             r == Rim(mod, f)
             w == mod[f.chunk].locals
             q == mod[f.chunk].params
  <2>1. f \in FrameTypes(mod)
      BY <1>4, SequenceFacts
  <2>2. f.chunk \in DOMAIN mod /\ b \in Nat /\ w \in Nat /\ r = b + w
      BY <1>3, <2>1, FrameFacts
  <2>3. q \in Nat /\ q <= w
      BY <1>3, <2>2, ModuleType, Zenon DEF Admitted, Lowered
  <2>4. r <= Len(stack)
      BY <1>4, Zenon DEF Stacked
  <2>5. q > 0
      BY <1>8
  <2> HIDE DEF f, b, r, w, q
  <2>6. b + 1 \in 1 .. Len(stack)
      BY <1>5, <2>2, <2>3, <2>4, <2>5
  <2> QED BY <2>6 DEF b, f
<1>9. /\ into \in Seq(Value) /\ Len(into) = Len(stack)
      /\ \A i \in 1 .. Len(stack) : into[i] = Empty => stack[i] = Empty
      /\ s \in StreamFrames /\ mod[frames[s].chunk].params > 0 =>
            into[frames[s].base + 1] # Empty
  <2>1. CASE s \in StreamFrames /\ ChunkOf(frames[s]).params > 0
    <3>1. into = [stack EXCEPT ![frames[s].base + 1] = v]
        BY <2>1
    <3>2. frames[s].base + 1 \in 1 .. Len(stack)
        BY <1>7, <1>8, <2>1 DEF ChunkOf
    <3> HIDE DEF into
    <3> QED BY <1>4, <1>6, <3>1, <3>2, Overwrite
  <2>2. CASE ~(s \in StreamFrames /\ ChunkOf(frames[s]).params > 0)
    <3>1. into = stack
        BY <2>2
    <3> HIDE DEF into
    <3> QED BY <1>4, <2>2, <3>1, Zenon DEF ChunkOf
  <2> QED BY <2>1, <2>2
<1>10. stack' = IF status = "Reset" THEN into ELSE Append(into, v)
    BY <1>2
<1> HIDE DEF into
<1>11. CASE status = "Yielded"
  <2>1. stack' = Append(into, v)
      BY <1>10, <1>11
  <2> DEFINE u == Append(into, v)
  <2>2. /\ u \in Seq(Value) /\ Len(u) = Len(into) + 1
        /\ u[Len(into) + 1] = v /\ \A i \in 1 .. Len(into) : u[i] = into[i]
    <3>1. v \in Value
        BY <1>6 DEF Value
    <3> QED BY <1>9, <3>1, AppendProperties
  <2> HIDE DEF u
  <2>3. /\ Len(u) = Len(stack) + (IF "Yielded" = "Yielded" THEN 1 ELSE 0)
        /\ u[Len(stack) + 1] # Empty
        /\ \A i \in 1 .. Len(stack) : u[i] = Empty => stack[i] = Empty
      BY <1>6, <1>9, <2>2 DEF Empty
  <2>4. Machine(mod, frames, stack, "Yielded")
      BY <1>3, <1>11
  <2>5. Machine(mod, frames, u, "Running")
      BY <1>3, <2>2, <2>3, <2>4, Wake
  <2>6. Machine(mod, Resumed(frames), u, "Running")
      BY <1>3, <1>4, <2>5, ResumedFrames, KeepMachine
  <2>7. Machine(mod, frames', stack', status')
      BY <1>1, <2>1, <2>6 DEF u
  <2> QED BY <1>1, <2>7, Primed
<1>12. CASE status = "Reset"
  <2>1. stack' = into
      BY <1>10, <1>12
  \* The stream that reset is the innermost one.
  <2>2. s = n /\ n \in StreamFrames
    <3>1. n \in StreamFrames
        BY <1>4, <1>5, <1>12 DEF StreamFrames, ChunkOf
    <3>2. \A x \in StreamFrames : x \in Nat /\ x <= n
        BY <1>5, <1>7
    <3>3. Max(StreamFrames) = n
        BY <3>1, <3>2, GreatestIs
    <3> QED BY <3>1, <3>3 DEF s
  <2>3. mod[frames[n].chunk].params # 0 => into[frames[n].base + 1] # Empty
    <3>1. frames[n] \in FrameTypes(mod)
        BY <1>4, <1>5, SequenceFacts
    <3>2. frames[n].chunk \in DOMAIN mod
        BY <1>3, <3>1, FrameFacts
    <3>3. mod[frames[n].chunk].params \in Nat
        BY <1>3, <3>2, ModuleType
    <3>4. mod[frames[n].chunk].params # 0 => mod[frames[n].chunk].params > 0
        BY <3>3
    <3> QED BY <1>9, <2>2, <3>4, Zenon
  <2>4. Len(into) = Len(stack) + (IF "Reset" = "Yielded" THEN 1 ELSE 0)
      BY <1>5, <1>9
  <2>5. Machine(mod, frames, stack, "Reset")
      BY <1>3, <1>12
  <2>6. Machine(mod, frames, into, "Running")
      BY <1>3, <1>9, <2>3, <2>4, <2>5, Wake
  <2>7. Machine(mod, Resumed(frames), into, "Running")
      BY <1>3, <1>4, <2>6, ResumedFrames, KeepMachine
  <2>8. Machine(mod, frames', stack', status')
      BY <1>1, <2>1, <2>7
  <2> QED BY <1>1, <2>8, Primed
<1> QED BY <1>1, <1>11, <1>12

-----------------------------------------------------------------------------
\* The invariant and what follows from it.

LEMMA InitIInv == Init /\ Lowered(mod) => IInv
<1> SUFFICES ASSUME Init, Lowered(mod) PROVE IInv
    OBVIOUS
<1>1. /\ mod \in Modules /\ verify_flow(mod) /\ topological_call_order(mod)
      /\ frames = <<>> /\ stack = <<>> /\ status = "Idle" /\ yields = 0
    BY Zenon DEF Init, Fresh
<1>2. Admitted(mod)
    BY <1>1, ChunkRunAssumption, Zenon DEF Admitted
<1>3. Machine(mod, frames, stack, status)
    BY <1>1, NoMachine
<1> QED BY <1>1, <1>2, <1>3 DEF IInv

LEMMA NextIInv == IInv /\ [Next]_vars => IInv'
<1> SUFFICES ASSUME IInv, [Next]_vars PROVE IInv'
    OBVIOUS
<1>1. ASSUME NEW c \in DOMAIN mod, call_function(c) PROVE IInv'
    BY <1>1, CallFunctionIInv
<1>2. CASE resume
    BY <1>2, ResumeIInv
<1>3. CASE reset_after_error
    BY <1>3, ResetAfterErrorIInv
<1>4. CASE StraightOp
    BY <1>4, StraightIInv
<1>5. CASE BranchOp
    BY <1>5, BranchIInv
<1>6. CASE JumpOp
    BY <1>6, JumpIInv
<1>7. CASE MarkerOp
    BY <1>7, MarkerIInv
<1>8. CASE CallOp
    BY <1>8, CallIInv
<1>9. CASE NativeOp
    BY <1>9, NativeIInv
<1>10. CASE ReturnOp
    BY <1>10, ReturnIInv
<1>11. CASE YieldOp
    BY <1>11, YieldIInv
<1>12. CASE ResetOp
    BY <1>12, ResetIInv
<1>13. CASE TrapOp
    BY <1>13, TrapIInv
<1>14. CASE UNCHANGED vars
    BY <1>14, Primed DEF vars, IInv
<1> QED BY <1>1, <1>2, <1>3, <1>4, <1>5, <1>6, <1>7, <1>8, <1>9, <1>10,
           <1>11, <1>12, <1>13, <1>14, Zenon DEF Next, run

\* Every frame of the dispatch loop has, at every instruction, the operands
\* that typed_check_chunk computed for its position, and its unwritten locals
\* are where check_locals allows them, whatever the calls, yields, resumes
\* and resets before.
THEOREM IInvTheorem == Spec /\ Lowered(mod) => []IInv
<1> QED BY InitIInv, NextIInv, PTL DEF Spec

LEMMA IInvTypeOK == IInv => TypeOK
<1> SUFFICES ASSUME IInv PROVE TypeOK
    OBVIOUS
<1>1. /\ frames \in Seq(FrameTypes(mod)) /\ stack \in Seq(Value)
      /\ Stacked(mod, frames, stack) /\ yields \in Nat
      /\ status \in {"Idle", "Running", "Yielded", "Reset", "Finished", "Error"}
    BY DEF IInv, Machine
<1>2. FrameType = FrameTypes(mod)
    BY Zenon DEF FrameType, FrameTypes
<1>3. Len(frames) \in Nat
    BY <1>1, SequenceFacts
<1>4. ASSUME NEW k \in 1 .. Len(frames)
      PROVE  Rim(mod, frames[k])
                 <= IF k = Len(frames) THEN Len(stack) ELSE frames[k + 1].base
  <2>1. CASE k = Len(frames)
      BY <1>1, <2>1 DEF Stacked
  <2>2. CASE k # Len(frames)
    <3>1. k + 1 \in 1 .. Len(frames) /\ k < k + 1
        BY <1>3, <2>2
    <3> QED BY <1>1, <2>2, <3>1, Zenon DEF Stacked
  <2> QED BY <2>1, <2>2
<1>5. DOMAIN frames = 1 .. Len(frames)
    BY <1>1
<1> QED BY <1>1, <1>2, <1>4, <1>5, Zenon DEF TypeOK, Rim, ChunkOf, Value

LEMMA IInvFrameIsolated == IInv => FrameIsolated
<1> SUFFICES ASSUME IInv PROVE FrameIsolated
    OBVIOUS
<1>1. /\ frames \in Seq(FrameTypes(mod)) /\ mod \in Seq(Chunks)
      /\ status # "Error" => Sound(mod, frames, stack, status)
    BY DEF IInv, Machine, Admitted
<1>2. ASSUME status # "Error", NEW k \in DOMAIN frames
      PROVE  frames[k].ip < Size(ChunkOf(frames[k]))
  <2>1. k \in 1 .. Len(frames)
      BY <1>1
  <2>2. frames[k] \in FrameTypes(mod)
      BY <1>1, <2>1, SequenceFacts
  <2>3. frames[k].ip \in Positions(mod[frames[k].chunk])
      BY <1>1, <1>2, <2>1, Zenon DEF Sound, FrameOK, Placed
  <2>4. frames[k].chunk \in DOMAIN mod
      BY <1>1, <2>2, FrameFacts
  <2>5. Size(mod[frames[k].chunk]) \in Nat
      BY <1>1, <2>4, ModuleType
  <2> QED BY <2>3, <2>5 DEF Positions, ChunkOf
<1>3. ASSUME Running
      PROVE  Consumes(Next_ip) <= Operands
  <2> DEFINE e == op_depth_effect(Next_ip)[1]
             l == Len(stack)
             r == Rim(mod, Frame)
             h == Height(mod, Frame)
  <2>1. /\ l \in Nat /\ r \in Nat /\ e \in 0 .. l - r /\ Admitted(mod)
        /\ Frame.chunk \in DOMAIN mod /\ Code = mod[Frame.chunk]
        /\ Frame.ip \in Positions(Code) /\ Next_ip = At(Code, Frame.ip)
        /\ FrameOK(mod, Frame, stack, Len(stack), 0, "Running")
        /\ Frame.base \in Nat /\ Code.locals \in Nat
        /\ r = Frame.base + Code.locals
      BY <1>3, Dispatched, Zenon DEF Running
  <2>2. Operands = l - r
      BY <2>1 DEF Operands
  <2>3. CASE Next_ip.o # "Return"
    <3>1. Consumes(Next_ip) = e
        BY <2>3, Zenon DEF Consumes
    <3> HIDE DEF e, l, r
    <3> QED BY <2>1, <2>2, <3>1
  <2>4. CASE Next_ip.o = "Return"
    <3>1. Consumes(Next_ip) = 1
        BY <2>4, Zenon DEF Consumes
    <3>2. h \in Nat /\ r + h - 0 = l
        BY <2>1, Zenon DEF FrameOK, Placed
    <3>3. Frame.ip \in PositionsOf(mod[Frame.chunk], "Return")
        BY <2>1, <2>4 DEF PositionsOf
    <3>4. h # 0
        BY <2>1, <3>3, Zenon DEF Admitted, Lowered, Height
    <3> HIDE DEF h, l, r
    <3> QED BY <2>1, <2>2, <3>1, <3>2, <3>4
  <2> QED BY <2>3, <2>4
<1> QED BY <1>2, <1>3 DEF FrameIsolated

LEMMA IInvInitBeforeUse == IInv => InitBeforeUse
<1> SUFFICES ASSUME IInv, Running, Next_ip.o = "GetLocal"
             PROVE  stack[Frame.base + Next_ip.a + 1] # Empty
    BY DEF InitBeforeUse
<1> QED BY ReadWritten DEF Running, Empty

\* The variables have their types and the frames lie one above the other on
\* the stack, for every module verify admits and every sequence of host calls.
THEOREM TypeTheorem == Spec /\ Lowered(mod) => []TypeOK
<1> QED BY IInvTheorem, IInvTypeOK, PTL

\* No instruction pops an operand its frame does not have, and no frame runs
\* off its code: the operand heights of verify_typed.rs are the real ones.
THEOREM FrameIsolatedTheorem == Spec /\ Lowered(mod) => []FrameIsolated
<1> QED BY IInvTheorem, IInvFrameIsolated, PTL

\* No GetLocal reads a slot that no instruction has written since the frame
\* was entered or reset: the analysis of verify_init.rs is sound.
THEOREM InitBeforeUseTheorem == Spec /\ Lowered(mod) => []InitBeforeUse
<1> QED BY IInvTheorem, IInvInitBeforeUse, PTL

-----------------------------------------------------------------------------
\* The depth of the call stack.

\* A set of naturals that is bounded has a greatest element.
LEMMA GreatestExists ==
    ASSUME NEW S, S \subseteq Nat, S # {}, NEW n, n \in Nat, \A x \in S : x <= n
    PROVE  Max(S) \in S /\ \A y \in S : y <= Max(S)
<1> DEFINE U == {u \in Nat : \A x \in S : x <= u}
<1>1. U \subseteq Nat /\ U # {}
    BY Zenon
<1>2. \E u \in U : \A y \in U : ~ (<<y, u>> \in OpToRel(<, Nat))
  <2> HIDE DEF U
  <2> QED BY <1>1, NatLessThanWellFounded, WFMin
<1>3. PICK u \in U : \A y \in U : ~ (<<y, u>> \in OpToRel(<, Nat))
    BY <1>2
<1>4. u \in Nat /\ \A x \in S : x <= u
    BY <1>3, Zenon
<1>5. \A y \in Nat : (\A x \in S : x <= y) => ~(y < u)
  <2> TAKE y \in Nat
  <2>1. y < u => <<y, u>> \in OpToRel(<, Nat)
      BY <1>4, Zenon DEF OpToRel
  <2> QED BY <1>3, <2>1, Zenon
<1> HIDE DEF U
<1>6. u \in S
  <2> SUFFICES ASSUME u \notin S PROVE FALSE
      OBVIOUS
  <2>1. PICK z \in S : TRUE
      OBVIOUS
  <2>2. z \in Nat /\ z <= u /\ z # u
      BY <1>4, <2>1
  <2>3. u - 1 \in Nat /\ u - 1 < u
      BY <1>4, <2>2
  <2>4. \A x \in S : x <= u - 1
      BY <1>4
  <2> QED BY <1>5, <2>3, <2>4, Zenon
<1>7. \E x \in S : \A y \in S : x >= y
    BY <1>4, <1>6
<1>8. Max(S) \in S /\ \A y \in S : Max(S) >= y
    BY <1>7, Zenon DEF Max
<1> QED BY <1>8

\* A finite list of naturals has an upper bound: there is no shortest prefix
\* without one.
LEMMA ListBounded ==
    ASSUME NEW n, n \in Nat, NEW d, \A i \in 1 .. n : d[i] \in Nat
    PROVE  \E u \in Nat : \A i \in 1 .. n : d[i] <= u
<1> DEFINE B == {k \in Nat : k <= n /\ ~ \E u \in Nat : \A i \in 1 .. k : d[i] <= u}
<1>0. n <= n
    OBVIOUS
<1>1. SUFFICES ASSUME n \in B PROVE FALSE
    BY <1>0, Zenon
<1>2. \E k \in B : \A y \in B : ~ (<<y, k>> \in OpToRel(<, Nat))
  <2>1. B \subseteq Nat /\ B # {}
      BY <1>1, Zenon
  <2> HIDE DEF B
  <2> QED BY <2>1, NatLessThanWellFounded, WFMin
<1>3. PICK k \in B : \A y \in B : ~ (<<y, k>> \in OpToRel(<, Nat))
    BY <1>2
<1>4. k \in Nat /\ k <= n /\ ~ \E u \in Nat : \A i \in 1 .. k : d[i] <= u
    BY <1>3, Zenon
<1>5. k # 0
  <2>1. \A i \in 1 .. 0 : d[i] <= 0
      OBVIOUS
  <2> QED BY <1>4, <2>1
<1>6. k - 1 \in Nat /\ k - 1 <= n /\ k - 1 < k
    BY <1>4, <1>5
<1>7. k - 1 \notin B
  <2>1. <<k - 1, k>> \in OpToRel(<, Nat)
      BY <1>4, <1>6, Zenon DEF OpToRel
  <2> QED BY <1>3, <2>1, Zenon
<1>8. PICK u \in Nat : \A i \in 1 .. k - 1 : d[i] <= u
    BY <1>6, <1>7, Zenon
<1>9. d[k] \in Nat
    BY <1>4, <1>5
<1> HIDE DEF B
<1>10. \A i \in 1 .. k : i \in 1 .. k - 1 \/ i = k
    BY <1>4
<1>11. CASE d[k] <= u
  <2>1. \A i \in 1 .. k : d[i] <= u
      BY <1>8, <1>10, <1>11
  <2> QED BY <1>4, <2>1
<1>12. CASE ~(d[k] <= u)
  <2>1. \A i \in 1 .. k : d[i] \in Nat
      BY <1>4
  <2>2. \A i \in 1 .. k : d[i] <= d[k]
    <3> SUFFICES ASSUME NEW i \in 1 .. k PROVE d[i] <= d[k]
        OBVIOUS
    <3> DEFINE a == d[i]
               b == d[k]
    <3>1. a \in Nat /\ b \in Nat /\ ~(b <= u) /\ (a <= u \/ a = b)
        BY <1>8, <1>9, <1>10, <1>12, <2>1
    <3> HIDE DEF a, b
    <3>2. a <= b
        BY <3>1
    <3> QED BY <3>2 DEF a, b
  <2> QED BY <1>4, <1>9, <2>2
<1> QED BY <1>11, <1>12

\* The module's depth is that of its deepest chunk.
LEMMA DepthIsGreatest ==
    ASSUME NEW m, Admitted(m)
    PROVE  /\ module_call_depth(m) \in Nat
           /\ \A c \in DOMAIN m : /\ CallDepths(m)[c] \in Nat \ {0}
                                  /\ CallDepths(m)[c] <= module_call_depth(m)
                                  /\ \A e \in Callees(m[c]) :
                                        CallDepths(m)[e] < CallDepths(m)[c]
<1> DEFINE d == CallDepths(m)
           n == Len(m)
           S == {d[c] : c \in DOMAIN m}
<1>1. m \in Seq(Chunks) /\ n \in Nat
    BY SequenceFacts DEF Admitted
<1>2. \A c \in DOMAIN m : d[c] \in Nat \ {0} /\ \A e \in Callees(m[c]) : d[e] < d[c]
    BY Zenon DEF Admitted, topological_call_order
<1>3. DOMAIN m = 1 .. n
    BY <1>1
<1> HIDE DEF d, n
<1>4. \E u \in Nat : \A i \in 1 .. n : d[i] <= u
    BY <1>1, <1>2, <1>3, ListBounded
<1>5. PICK u \in Nat : \A x \in S : x <= u
    BY <1>3, <1>4
<1>6. S \subseteq Nat
    BY <1>2
<1>7. module_call_depth(m) = IF S = {} THEN 0 ELSE Max(S)
    BY Zenon DEF module_call_depth, Ints, d
<1>8. S # {} => Max(S) \in S /\ \A y \in S : y <= Max(S)
  <2> HIDE DEF S
  <2> QED BY <1>5, <1>6, GreatestExists
<1>9. module_call_depth(m) \in Nat
  <2> HIDE DEF S
  <2>1. CASE S = {}
      BY <1>7, <2>1
  <2>2. CASE S # {}
    <3>1. module_call_depth(m) = Max(S) /\ Max(S) \in S
        BY <1>7, <1>8, <2>2, Zenon
    <3> QED BY <1>6, <3>1, Zenon
  <2> QED BY <2>1, <2>2
<1>10. \A c \in DOMAIN m : d[c] <= module_call_depth(m)
    BY <1>7, <1>8
<1> QED BY <1>2, <1>9, <1>10, Zenon DEF d

\* Moving the top frame leaves the marks of the yields alone.
Moved(m, fs, gs, t) ==
    /\ Advanced(m, fs, gs, t)
    /\ \A k \in 1 .. Len(fs) : gs[k].yielded = fs[k].yielded

LEMMA ChargedMoves ==
    ASSUME frames \in Seq(FrameTypes(mod)), frames # <<>>,
           NEW to, to \in Nat, NEW cycles, cycles \in Nat
    PROVE  Moved(mod, frames, Charged(to, cycles), to)
<1> DEFINE n == Len(frames)
           f == frames[n]
           g == [f EXCEPT !.ip = to, !.cost = Capped(@ + cycles)]
           gs == Charged(to, cycles)
<1>1. n \in Nat /\ n > 0 /\ f \in FrameTypes(mod)
    BY SequenceFacts
<1>2. gs = [frames EXCEPT ![n] = g]
    BY <1>1 DEF Charged, FrameTypes
<1>3. g.yielded = f.yielded
  <2> HIDE DEF f
  <2> QED BY <1>1, Zenon DEF FrameTypes
<1>4. n \in DOMAIN frames
    BY <1>1
<1>5. DOMAIN frames = 1 .. n
    OBVIOUS
<1> HIDE DEF g, gs, n
<1>6. ASSUME NEW k \in 1 .. n PROVE gs[k].yielded = frames[k].yielded
  <2>1. CASE k = n
      BY <1>2, <1>3, <1>4, <2>1, Zenon
  <2>2. CASE k # n
    <3>1. gs[k] = frames[k]
        BY <1>2, <1>5, <2>2, Zenon
    <3> QED BY <3>1, Zenon
  <2> QED BY <2>1, <2>2
<1>7. Advanced(mod, frames, gs, to)
    BY ChargedAdvances DEF gs
<1> QED BY <1>6, <1>7, Zenon DEF Moved, gs, n

LEMMA AllocatedMoves ==
    ASSUME NEW m, NEW fs, NEW gs, NEW to, NEW bytes, bytes \in Nat,
           Moved(m, fs, gs, to)
    PROVE  Moved(m, fs, Allocated(gs, bytes), to)
<1> DEFINE hs == Allocated(gs, bytes)
<1>1. Advanced(m, fs, gs, to)
    BY DEF Moved
<1>2. /\ gs \in Seq(FrameTypes(m)) /\ Len(gs) = Len(fs)
    BY <1>1 DEF Advanced
<1>3. DOMAIN gs = 1 .. Len(fs)
    BY <1>2
<1>4. ASSUME NEW k \in 1 .. Len(fs) PROVE hs[k].yielded = gs[k].yielded
  <2> DEFINE f == gs[k]
             x == hs[k]
  <2>1. x = [f EXCEPT !.heap = @ + bytes]
      BY <1>3, Zenon DEF Allocated
  <2>2. f \in FrameTypes(m)
      BY <1>2, SequenceFacts
  <2> HIDE DEF f, x
  <2>3. x.yielded = f.yielded
      BY <2>1, <2>2, Zenon DEF FrameTypes
  <2> QED BY <2>3 DEF f, x
<1>5. Advanced(m, fs, hs, to)
    BY <1>1, AllocatedAdvances
<1> HIDE DEF hs
<1>6. \A k \in 1 .. Len(fs) : hs[k].yielded = fs[k].yielded
    BY <1>4, Zenon DEF Moved
<1> QED BY <1>5, <1>6 DEF Moved, hs

\* The instructions that neither call, return, yield, reset nor trap: the top
\* frame follows an edge.
EdgeOp == StraightOp \/ BranchOp \/ JumpOp \/ MarkerOp \/ NativeOp

LEMMA EdgeMoves ==
    ASSUME IInv, EdgeOp
    PROVE  /\ status = "Running" /\ status' = "Running"
           /\ mod' = mod /\ attested' = attested
           /\ Next_ip.o \notin {"Yield", "Call", "Return", "Trap", "Reset"}
           /\ \E t \in Targets(Code, Frame.ip) : Moved(mod, frames, frames', t)
<1> DEFINE t == Frame.ip + 1
           cycles == nominal_op_cycles(Next_ip)
<1>1. /\ status = "Running" /\ status' = "Running"
      /\ mod' = mod /\ attested' = attested
    BY DEF EdgeOp, StraightOp, BranchOp, JumpOp, MarkerOp, NativeOp, Dispatching
<1>2. /\ frames \in Seq(FrameTypes(mod)) /\ frames # <<>> /\ t \in Nat
      /\ Next_ip = At(Code, Frame.ip) /\ Next_ip.a \in Nat /\ Next_ip.b \in Nat
      /\ Admitted(mod) /\ Frame.chunk \in DOMAIN mod
      /\ Code = mod[Frame.chunk] /\ Frame.ip \in Positions(Code)
    BY <1>1, Dispatched, Zenon
<1>3. cycles \in Nat
    BY DEF nominal_op_cycles
<1> HIDE DEF cycles
<1>4. ASSUME NEW to, to \in Nat PROVE Moved(mod, frames, Stepped(to), to)
    BY <1>2, <1>3, <1>4, ChargedMoves DEF Stepped, cycles
<1>5. CASE StraightOp
  <2>1. /\ Next_ip.o \in Straight
        /\ frames' = Allocated(Stepped(t), heap_alloc(Next_ip))
      BY <1>5 DEF StraightOp, Dispatching
  <2>2. heap_alloc(Next_ip) \in Nat
      BY <1>2 DEF heap_alloc
  <2>3. t \in Targets(Code, Frame.ip)
      BY <1>2, <2>1 DEF Targets, Straight
  <2> HIDE DEF t
  <2>4. Moved(mod, frames, Stepped(t), t)
      BY <1>2, <1>4
  <2>5. Moved(mod, frames, frames', t)
      BY <2>1, <2>2, <2>4, AllocatedMoves
  <2>6. Next_ip.o \notin {"Yield", "Call", "Return", "Trap", "Reset"}
      BY <2>1 DEF Straight
  <2> QED BY <1>1, <2>3, <2>5, <2>6
<1>6. CASE BranchOp
  <2> DEFINE to == IF (Next_ip.o = "If") = (Top = 0) THEN Next_ip.a ELSE t
  <2>1. Next_ip.o \in {"If", "BreakIf"} /\ frames' = Stepped(to)
      BY <1>6 DEF BranchOp, Dispatching
  <2>2. to \in {t, Next_ip.a}
      BY Zenon
  <2> HIDE DEF to
  <2>3. to \in Targets(Code, Frame.ip) /\ to \in Nat
      BY <1>2, <2>1, <2>2 DEF Targets
  <2>4. Moved(mod, frames, frames', to)
      BY <1>4, <2>1, <2>3
  <2> QED BY <1>1, <2>1, <2>3, <2>4
<1>7. CASE JumpOp
  <2>1. Next_ip.o \in {"Else", "EndLoop", "Break"} /\ frames' = Stepped(Next_ip.a)
      BY <1>7 DEF JumpOp, Dispatching
  <2>2. Next_ip.a \in Targets(Code, Frame.ip)
      BY <1>2, <2>1 DEF Targets
  <2>3. Moved(mod, frames, frames', Next_ip.a)
      BY <1>2, <1>4, <2>1
  <2> QED BY <1>1, <2>1, <2>2, <2>3
<1>8. CASE MarkerOp
  <2>1. Next_ip.o \in {"EndIf", "Loop", "Stream"} /\ frames' = Stepped(t)
      BY <1>8 DEF MarkerOp, Dispatching
  <2>2. t \in Targets(Code, Frame.ip)
      BY <1>2, <2>1 DEF Targets
  <2> HIDE DEF t
  <2>3. Moved(mod, frames, frames', t)
      BY <1>2, <1>4, <2>1
  <2> QED BY <1>1, <2>1, <2>2, <2>3
<1>9. CASE NativeOp
  <2> DEFINE bound == NativeBounds[Next_ip.a]
  <2>1. /\ Next_ip.o \in Natives
        /\ frames' = Allocated(Charged(t, cycles + bound.wcet), bound.wcmu)
      BY <1>9, Zenon DEF NativeOp, Dispatching, cycles
  <2>2. t \in Targets(Code, Frame.ip)
      BY <1>2, <2>1 DEF Targets, Natives
  <2>3. bound.wcet \in Nat /\ bound.wcmu \in Nat
    <3>1. InRange(Code, mod, Next_ip)
        BY <1>2, FlowChecks DEF verify_operands
    <3>2. Next_ip.a \in DOMAIN NativeBounds
        BY <2>1, <3>1 DEF InRange, Natives
    <3> QED BY <3>2, NativeAssumption
  <2> HIDE DEF t, bound
  <2>4. cycles + bound.wcet \in Nat
      BY <1>3, <2>3
  <2>5. Moved(mod, frames, Charged(t, cycles + bound.wcet), t)
      BY <1>2, <2>4, ChargedMoves
  <2>6. Moved(mod, frames, frames', t)
      BY <2>1, <2>3, <2>5, AllocatedMoves
  <2>7. Next_ip.o \notin {"Yield", "Call", "Return", "Trap", "Reset"}
      BY <2>1 DEF Natives
  <2> QED BY <1>1, <2>2, <2>6, <2>7
<1> QED BY <1>5, <1>6, <1>7, <1>8, <1>9 DEF EdgeOp

\* What a call puts on top of the caller's frame.
LEMMA CallMoves ==
    ASSUME IInv, CallOp
    PROVE  \E gs, nf :
              /\ Moved(mod, frames, gs, Frame.ip + 1)
              /\ frames' = Append(gs, nf)
              /\ Next_ip.a \in DOMAIN mod /\ Next_ip.a \in Callees(Code)
              /\ nf.chunk = Next_ip.a /\ nf.ip = 0 /\ ~nf.yielded
<1> DEFINE t == Frame.ip + 1
           c == Next_ip.a
           gs == Stepped(t)
           nf == NewFrame(c, Len(stack) - Next_ip.b)
<1>1. /\ status = "Running" /\ Next_ip.o = "Call" /\ frames' = Append(gs, nf)
    BY Zenon DEF CallOp, Dispatching
<1>2. /\ frames \in Seq(FrameTypes(mod)) /\ frames # <<>> /\ t \in Nat
      /\ Next_ip = At(Code, Frame.ip) /\ Admitted(mod)
      /\ Frame.chunk \in DOMAIN mod
      /\ Code = mod[Frame.chunk] /\ Frame.ip \in Positions(Code)
    BY <1>1, Dispatched, Zenon
<1>3. c \in DOMAIN mod
    BY <1>1, <1>2, InRangeFacts
<1>4. c \in Callees(Code)
    BY <1>1, <1>2 DEF Callees, PositionsOf
<1>5. nf.chunk = c /\ nf.ip = 0 /\ ~nf.yielded
    BY DEF NewFrame
<1>6. nominal_op_cycles(Next_ip) \in Nat
    BY DEF nominal_op_cycles
<1>7. Moved(mod, frames, gs, t)
  <2> HIDE DEF t
  <2> QED BY <1>2, <1>6, ChargedMoves DEF Stepped
<1> HIDE DEF gs, nf, c
<1> QED BY <1>1, <1>3, <1>4, <1>5, <1>7, Zenon DEF c

\* No instruction but a call and a return changes which chunks are running.
LEMMA ChunksStay ==
    ASSUME IInv,
           EdgeOp \/ YieldOp \/ ResetOp \/ TrapOp \/ resume \/ UNCHANGED vars
    PROVE  /\ mod' = mod /\ attested' = attested
           /\ frames' \in Seq(FrameTypes(mod)) /\ Len(frames') = Len(frames)
           /\ \A k \in 1 .. Len(frames) : frames'[k].chunk = frames[k].chunk
<1>0. frames \in Seq(FrameTypes(mod)) /\ Admitted(mod)
    BY DEF IInv, Machine
<1> DEFINE goal == /\ mod' = mod /\ attested' = attested
                   /\ frames' \in Seq(FrameTypes(mod))
                   /\ Len(frames') = Len(frames)
                   /\ \A k \in 1 .. Len(frames) :
                         frames'[k].chunk = frames[k].chunk
<1>1. ASSUME NEW t, Advanced(mod, frames, frames', t),
             mod' = mod, attested' = attested
      PROVE  goal
    BY <1>1, Zenon DEF Advanced
<1>2. CASE EdgeOp
  <2>1. PICK t \in Targets(Code, Frame.ip) : Moved(mod, frames, frames', t)
      BY <1>2, EdgeMoves
  <2>2. mod' = mod /\ attested' = attested
      BY <1>2, EdgeMoves
  <2> QED BY <1>1, <2>1, <2>2, Zenon DEF Moved
<1>3. CASE YieldOp
  <2>1. /\ status = "Running" /\ mod' = mod /\ attested' = attested
        /\ frames' = [k \in DOMAIN frames |->
                        [Stepped(Frame.ip + 1)[k] EXCEPT !.yielded = TRUE]]
      BY <1>3 DEF YieldOp, Dispatching
  <2>2. Frame.ip + 1 \in Nat
      BY <2>1, Dispatched
  <2>3. Advanced(mod, frames, Stepped(Frame.ip + 1), Frame.ip + 1)
      BY <2>1, <2>2, SteppedAdvances
  <2>4. Advanced(mod, frames, frames', Frame.ip + 1)
      BY <1>0, <2>1, <2>3, MarkYielded
  <2> QED BY <1>1, <2>1, <2>4
<1>4. CASE ResetOp
  <2>1. /\ status = "Running" /\ mod' = mod /\ attested' = attested
        /\ frames' = Rewound(frames, FirstOf(Code, "Stream") + 1)
        /\ Next_ip.o = "Reset"
      BY <1>4, Zenon DEF ResetOp, Dispatching, Rewound
  <2>2. FirstOf(Code, "Stream") = 0
      BY <1>4, <2>1, ResetsStream
  <2>3. FirstOf(Code, "Stream") + 1 \in Nat
      BY <2>2
  <2>4. Advanced(mod, frames, frames', FirstOf(Code, "Stream") + 1)
      BY <1>0, <2>1, <2>3, RewoundAdvances, Zenon
  <2> QED BY <1>1, <2>1, <2>4
<1>5. CASE TrapOp
  <2>1. /\ status = "Running" /\ mod' = mod /\ attested' = attested
        /\ frames' = Stepped(Frame.ip + 1)
      BY <1>5 DEF TrapOp, Dispatching
  <2>2. Frame.ip + 1 \in Nat
      BY <2>1, Dispatched
  <2>3. Advanced(mod, frames, frames', Frame.ip + 1)
      BY <2>1, <2>2, SteppedAdvances
  <2> QED BY <1>1, <2>1, <2>3
<1>6. CASE resume
  <2>1. mod' = mod /\ attested' = attested /\ frames' = Resumed(frames)
      BY <1>6 DEF resume
  <2> QED BY <1>0, <2>1, ResumedFrames
<1>7. CASE UNCHANGED vars
    BY <1>0, <1>7, Zenon DEF vars
<1> QED BY <1>2, <1>3, <1>4, <1>5, <1>6, <1>7, Zenon

\* Append puts its element on top and leaves the others where they are.
LEMMA AppendIsThere ==
    ASSUME NEW m, NEW gs, NEW nf, NEW fs, NEW n, gs \in Seq(FrameTypes(m)),
           Len(gs) = n, fs = Append(gs, nf)
    PROVE  /\ Len(fs) = n + 1 /\ fs[n + 1] = nf
           /\ \A k \in 1 .. n : fs[k] = gs[k]
OBVIOUS

LEMMA DropTop ==
    ASSUME NEW m, NEW fs, NEW n, fs \in Seq(FrameTypes(m)), n = Len(fs), n > 0
    PROVE  /\ SubSeq(fs, 1, n - 1) \in Seq(FrameTypes(m))
           /\ Len(SubSeq(fs, 1, n - 1)) = n - 1
           /\ \A k \in 1 .. n - 1 : SubSeq(fs, 1, n - 1)[k] = fs[k]
OBVIOUS

LEMMA InitDepthInv == Init => DepthInv
BY DEF Init, Fresh, DepthInv

LEMMA NextDepthInv == IInv /\ DepthInv /\ [Next]_vars => DepthInv'
<1> SUFFICES ASSUME IInv, DepthInv, [Next]_vars PROVE DepthInv'
    OBVIOUS
<1> DEFINE d == CallDepths(mod)
           n == Len(frames)
           a == module_call_depth(mod)
<1>1. /\ Admitted(mod) /\ frames \in Seq(FrameTypes(mod))
      /\ attested.depth = a
    BY DEF IInv, Machine, DepthInv
<1>2. n \in Nat /\ a \in Nat
    BY <1>1, SequenceFacts, DepthIsGreatest
<1>3. \A c \in DOMAIN mod : d[c] \in Nat /\ d[c] <= a
                            /\ \A e \in Callees(mod[c]) : d[e] < d[c]
    BY <1>1, DepthIsGreatest
<1>4. \A k \in 1 .. n : d[frames[k].chunk] + k <= a + 1
  <2>1. DOMAIN frames = 1 .. n
      BY <1>1
  <2> QED BY <1>1, <2>1, Zenon DEF DepthInv
<1> HIDE DEF d, a
\* The rest of the proof is about the frames after the step.
<1>5. ASSUME mod' = mod, attested' = attested, frames' \in Seq(FrameTypes(mod)),
             \A k \in 1 .. Len(frames') : d[frames'[k].chunk] + k <= a + 1
      PROVE  DepthInv'
  <2>1. DOMAIN frames' = 1 .. Len(frames')
      BY <1>5
  <2>2. attested'.depth = module_call_depth(mod') /\ attested'.depth = a
      BY <1>1, <1>5, Zenon DEF a
  <2>3. \A k \in DOMAIN frames' :
           CallDepths(mod')[frames'[k].chunk] + k <= attested'.depth + 1
      BY <1>5, <2>1, <2>2, Zenon DEF d
  <2> QED BY <2>2, <2>3, Zenon DEF DepthInv
<1>6. CASE EdgeOp \/ YieldOp \/ ResetOp \/ TrapOp \/ resume \/ UNCHANGED vars
  <2>1. /\ mod' = mod /\ attested' = attested
        /\ frames' \in Seq(FrameTypes(mod)) /\ Len(frames') = n
        /\ \A k \in 1 .. n : frames'[k].chunk = frames[k].chunk
      BY <1>6, ChunksStay
  <2>2. \A k \in 1 .. Len(frames') : d[frames'[k].chunk] + k <= a + 1
      BY <1>4, <2>1, Zenon
  <2> QED BY <1>5, <2>1, <2>2
<1>7. ASSUME NEW c \in DOMAIN mod, call_function(c) PROVE DepthInv'
  <2> DEFINE nf == NewFrame(c, Len(stack))
  <2>1. /\ mod' = mod /\ attested' = attested /\ frames' = Append(frames, nf)
        /\ status \in {"Idle", "Finished"}
      BY <1>7 DEF call_function
  <2>2. frames = <<>> /\ Len(stack) \in Nat
    <3>1. /\ Machine(mod, frames, stack, status) /\ stack \in Seq(Value)
        BY DEF IInv, Machine
    <3> QED BY <2>1, <3>1, SequenceFacts DEF Machine
  <2>3. nf \in FrameTypes(mod) /\ nf.chunk = c
      BY <2>2, NewFrameType
  <2> HIDE DEF nf
  <2>4. frames' = <<nf>>
      BY <2>1, <2>2
  <2>5. frames' \in Seq(FrameTypes(mod)) /\ Len(frames') = 1 /\ frames'[1] = nf
      BY <2>3, <2>4
  <2>6. \A k \in 1 .. Len(frames') : k = 1
      BY <2>5
  <2>7. d[c] + 1 <= a + 1
      BY <1>2, <1>3
  <2>8. \A k \in 1 .. Len(frames') : d[frames'[k].chunk] + k <= a + 1
      BY <2>3, <2>5, <2>6, <2>7, Zenon
  <2> QED BY <1>5, <2>1, <2>5, <2>8
<1>8. CASE reset_after_error
  <2>1. mod' = mod /\ attested' = attested /\ frames' = <<>>
      BY <1>8 DEF reset_after_error
  <2> QED BY <2>1, <1>5
<1>9. CASE CallOp
  <2>1. PICK gs, nf : /\ Moved(mod, frames, gs, Frame.ip + 1)
                      /\ frames' = Append(gs, nf)
                      /\ Next_ip.a \in DOMAIN mod /\ Next_ip.a \in Callees(Code)
                      /\ nf.chunk = Next_ip.a /\ nf.ip = 0 /\ ~nf.yielded
      BY <1>9, CallMoves
  <2>2. /\ mod' = mod /\ attested' = attested /\ status = "Running"
      BY <1>9 DEF CallOp, Dispatching
  <2>3. frames' \in Seq(FrameTypes(mod))
    <3>1. IInv'
        BY <1>9, CallIInv
    <3> QED BY <2>2, <3>1 DEF IInv, Machine
  <2>4. /\ gs \in Seq(FrameTypes(mod)) /\ Len(gs) = n
        /\ \A k \in 1 .. n : gs[k].chunk = frames[k].chunk
      BY <2>1, Zenon DEF Moved, Advanced
  <2>5. /\ Len(frames') = n + 1 /\ frames'[n + 1] = nf
        /\ \A k \in 1 .. n : frames'[k] = gs[k]
      BY <2>1, <2>4, AppendIsThere
  <2>6. /\ Code = mod[Frame.chunk] /\ Frame.chunk \in DOMAIN mod
        /\ Frame = frames[n] /\ n > 0
      BY <2>2, Dispatched
  <2>7. d[Next_ip.a] + (n + 1) <= a + 1
    <3> DEFINE x == d[Next_ip.a]
               y == d[Frame.chunk]
    <3>1. x \in Nat /\ y \in Nat /\ x < y
        BY <1>3, <2>1, <2>6
    <3>2. n \in 1 .. n
        BY <1>2, <2>6
    <3>3. y + n <= a + 1
        BY <1>4, <2>6, <3>2, Zenon
    <3> HIDE DEF x, y
    <3>4. x + (n + 1) <= a + 1
        BY <1>2, <3>1, <3>3
    <3> QED BY <3>4 DEF x
  <2>8. ASSUME NEW k \in 1 .. Len(frames')
        PROVE  d[frames'[k].chunk] + k <= a + 1
    <3>1. k \in 1 .. n \/ k = n + 1
        BY <1>2, <2>5
    <3> QED BY <1>4, <2>1, <2>4, <2>5, <2>7, <3>1, Zenon
  <2> QED BY <1>5, <2>2, <2>3, <2>8
<1>10. CASE ReturnOp
  <2>1. /\ mod' = mod /\ attested' = attested /\ status = "Running"
        /\ frames' = SubSeq(frames, 1, n - 1)
      BY <1>10 DEF ReturnOp, Dispatching
  <2>2. n > 0
      BY <2>1, Dispatched
  <2>3. /\ frames' \in Seq(FrameTypes(mod)) /\ Len(frames') = n - 1
        /\ \A k \in 1 .. n - 1 : frames'[k] = frames[k]
    <3>1. n = Len(frames)
        OBVIOUS
    <3> HIDE DEF n
    <3>2. /\ SubSeq(frames, 1, n - 1) \in Seq(FrameTypes(mod))
          /\ Len(SubSeq(frames, 1, n - 1)) = n - 1
          /\ \A k \in 1 .. n - 1 : SubSeq(frames, 1, n - 1)[k] = frames[k]
        BY <1>1, <2>2, <3>1, DropTop
    <3> QED BY <2>1, <3>2, Zenon
  <2>4. \A k \in 1 .. Len(frames') : k \in 1 .. n
      BY <1>2, <2>3
  <2>5. \A k \in 1 .. Len(frames') : d[frames'[k].chunk] + k <= a + 1
      BY <1>4, <2>3, <2>4, Zenon
  <2> QED BY <1>5, <2>1, <2>3, <2>5
<1> QED BY <1>6, <1>7, <1>8, <1>9, <1>10, Zenon DEF Next, run, EdgeOp

LEMMA DepthBounds == IInv /\ DepthInv => CallDepthBounded
<1> SUFFICES ASSUME IInv, DepthInv PROVE CallDepthBounded
    OBVIOUS
<1> DEFINE n == Len(frames)
           a == module_call_depth(mod)
           c == frames[n].chunk
           x == CallDepths(mod)[c]
<1>1. /\ Admitted(mod) /\ frames \in Seq(FrameTypes(mod))
      /\ attested.depth = a /\ mod \in Seq(Chunks)
    BY DEF IInv, Machine, DepthInv, Admitted
<1>2. n \in Nat /\ a \in Nat
    BY <1>1, SequenceFacts, DepthIsGreatest
<1>3. CASE n = 0
    BY <1>1, <1>2, <1>3 DEF CallDepthBounded
<1>4. CASE n # 0
  <2>1. n \in 1 .. n
      BY <1>2, <1>4
  <2>2. n \in DOMAIN frames /\ frames[n] \in FrameTypes(mod)
      BY <1>1, <2>1
  <2>3. c \in DOMAIN mod
      BY <1>1, <2>2, FrameFacts
  <2>4. x \in Nat \ {0}
      BY <1>1, <2>3, DepthIsGreatest
  <2>5. x + n <= a + 1
      BY <1>1, <2>2, Zenon DEF DepthInv
  <2> HIDE DEF x, n, a
  <2>6. n <= a
      BY <1>2, <2>4, <2>5
  <2> QED BY <1>1, <2>6 DEF CallDepthBounded, n
<1> QED BY <1>3, <1>4

\* The call stack never holds more frames than module_call_depth counted, so
\* that the reservation made from it at load time is never outgrown.
THEOREM CallDepthBoundedTheorem == Spec /\ Lowered(mod) => []CallDepthBounded
<1> QED BY IInvTheorem, InitDepthInv, NextDepthInv, DepthBounds, PTL DEF Spec

-----------------------------------------------------------------------------
\* Yields.

\* A walk that has settled follows every step but those of the yields.
LEMMA WalkOn ==
    ASSUME NEW ch, NEW from, NEW always, NEW S, Silence(ch, from, always, S),
           Size(ch) \in Nat, NEW ip, ip \in S, ip \in Positions(ch),
           ip \notin YieldSites(ch, always),
           NEW t, t \in Walks(ch, ip), t \in Positions(ch)
    PROVE  t \in S
<1> DEFINE sites == YieldSites(ch, always)
<1>1. WalksOn(ch, Size(ch), sites, S) \subseteq S
    BY Zenon DEF Silence
<1>2. t \in 0 .. Size(ch) /\ ip \in 0 .. Size(ch) - 1
    BY DEF Positions
<1> HIDE DEF sites
<1>3. ip \in (S \cap 0 .. Size(ch) - 1) \ sites
    BY <1>2, Zenon DEF sites
<1>4. t \in WalksOn(ch, Size(ch), sites, S)
  <2> DEFINE D == (S \cap 0 .. Size(ch) - 1) \ sites
             U == UNION {Walks(ch, p) : p \in D}
  <2>1. WalksOn(ch, Size(ch), sites, S) = U \cap 0 .. Size(ch)
      BY DEF WalksOn
  <2>2. ip \in D
      BY <1>3
  <2> HIDE DEF D
  <2>3. t \in U
      BY <2>2
  <2> HIDE DEF U
  <2> QED BY <1>2, <2>1, <2>3
<1> QED BY <1>1, <1>4, Zenon

\* What verify knows of the silent walks of a chunk.
LEMMA SilentFacts ==
    ASSUME NEW m, Admitted(m), NEW c, c \in DOMAIN m,
           NEW always, always = compute_always_yielding(m)
    PROVE  /\ m[c].kind = "Stream" =>
                 /\ Silence(m[c], 1, always, Silent(m[c], 1, always))
                 /\ Silent(m[c], 1, always) \cap PositionsOf(m[c], "Reset") = {}
           /\ DelegatesCover(m) /\ c \in always
                 /\ (\E b \in DOMAIN m : c \in Callees(m[b])) =>
                 /\ Silence(m[c], 0, always, Silent(m[c], 0, always))
                 /\ Silent(m[c], 0, always) \cap PositionsOf(m[c], "Return") = {}
<1>1. ASSUME m[c].kind = "Stream"
      PROVE  /\ Silence(m[c], 1, always, Silent(m[c], 1, always))
             /\ Silent(m[c], 1, always) \cap PositionsOf(m[c], "Reset") = {}
  <2>1. FirstOf(m[c], "Stream") = 0
      BY <1>1, Entry
  <2>2. FirstOf(m[c], "Stream") + 1 = 1
      BY <2>1
  <2>3. verify_productivity(m[c], always)
      BY FlowChecks
  <2> QED BY <1>1, <2>2, <2>3, Zenon DEF verify_productivity
<1>2. ASSUME DelegatesCover(m), c \in always, \E b \in DOMAIN m : c \in Callees(m[b])
      PROVE  /\ Silence(m[c], 0, always, Silent(m[c], 0, always))
             /\ Silent(m[c], 0, always) \cap PositionsOf(m[c], "Return") = {}
  <2>1. c \in always \cap UNION {Callees(m[b]) : b \in DOMAIN m}
      BY <1>2, Zenon
  <2> QED BY <1>2, <2>1, Zenon DEF DelegatesCover
<1> QED BY <1>1, <1>2, Zenon

\* A frame that goes on without a yield stays quiet.
LEMMA QuietStep ==
    ASSUME NEW m, Admitted(m), DelegatesCover(m), NEW f, NEW g, NEW k,
           f \in FrameTypes(m), f.ip \in Positions(m[f.chunk]),
           f.ip \notin YieldSites(m[f.chunk], compute_always_yielding(m)),
           g.ip \in Walks(m[f.chunk], f.ip), g.ip \in Positions(m[f.chunk]),
           g.chunk = f.chunk,
           k > 1 => \E b \in DOMAIN m : f.chunk \in Callees(m[b]),
           Quiet(m, f, k)
    PROVE  Quiet(m, g, k)
<1> DEFINE c == f.chunk
           always == compute_always_yielding(m)
           ip == f.ip
           t == g.ip
<1>1. c \in DOMAIN m /\ Size(m[c]) \in Nat
    BY FrameFacts, ModuleType DEF Admitted
<1>2. ASSUME m[c].kind = "Stream" PROVE t \in Silent(m[c], 1, always)
  <2> DEFINE S == Silent(m[c], 1, always)
  <2>1. Silence(m[c], 1, always, S) /\ 1 \in S
      BY <1>1, <1>2, SilentFacts, Zenon DEF Silence
  <2>2. CASE ip = 0
    <3>1. At(m[c], 0).o = "Stream"
        BY <1>1, <1>2, Entry
    <3>2. Walks(m[c], 0) = {0 + 1}
        BY <3>1 DEF Walks, Targets
    <3>3. t = 1
        BY <2>2, <3>2
    <3> QED BY <2>1, <3>3, Zenon
  <2>3. CASE ip \in S
    <3> HIDE DEF S
    <3>1. t \in S
        BY <1>1, <2>1, <2>3, WalkOn
    <3> QED BY <3>1 DEF S
  <2>4. ip = 0 \/ ip \in S
      BY <1>2, Zenon DEF Quiet
  <2> QED BY <2>2, <2>3, <2>4
<1>3. ASSUME k > 1, c \in always PROVE t \in Silent(m[c], 0, always)
  <2> DEFINE S == Silent(m[c], 0, always)
  <2>1. Silence(m[c], 0, always, S)
      BY <1>1, <1>3, SilentFacts, Zenon
  <2>2. ip \in S
      BY <1>3, Zenon DEF Quiet
  <2> HIDE DEF S
  <2>3. t \in S
      BY <1>1, <2>1, <2>2, WalkOn
  <2> QED BY <2>3 DEF S
<1> QED BY <1>2, <1>3, Zenon DEF Quiet

\* A frame whose surroundings stay as they are stays calm.
LEMMA CalmSame ==
    ASSUME NEW m, NEW fs, NEW gs, NEW k, Calm(m, fs, k),
           gs[k].chunk = fs[k].chunk, gs[k].ip = fs[k].ip,
           gs[k].yielded = fs[k].yielded,
           k > 1 => /\ gs[k - 1].chunk = fs[k - 1].chunk
                    /\ gs[k - 1].yielded = fs[k - 1].yielded,
           k < Len(fs) => k < Len(gs) /\ gs[k + 1].chunk = fs[k + 1].chunk
    PROVE  Calm(m, gs, k)
<1>1. Quiet(m, fs[k], k) => Quiet(m, gs[k], k)
    BY Zenon DEF Quiet
<1> QED BY <1>1, Zenon DEF Calm

\* The top frame goes on without a yield.
LEMMA HushedMove ==
    ASSUME NEW m, Admitted(m), DelegatesCover(m), NEW fs, NEW gs, NEW t,
           fs \in Seq(FrameTypes(m)), fs # <<>>, Hushed(m, fs),
           Moved(m, fs, gs, t),
           fs[Len(fs)].ip \in Positions(m[fs[Len(fs)].chunk]),
           fs[Len(fs)].ip \notin YieldSites(m[fs[Len(fs)].chunk],
                                            compute_always_yielding(m)),
           t \in Walks(m[fs[Len(fs)].chunk], fs[Len(fs)].ip),
           t \in Positions(m[fs[Len(fs)].chunk])
    PROVE  Hushed(m, gs)
<1> DEFINE n == Len(fs)
           f == fs[n]
           g == gs[n]
<1>1. /\ n \in Nat /\ n > 0 /\ n \in 1 .. n /\ f \in FrameTypes(m)
    BY SequenceFacts
<1>2. /\ Len(gs) = n
      /\ \A k \in 1 .. n : /\ gs[k].chunk = fs[k].chunk
                           /\ gs[k].yielded = fs[k].yielded
                           /\ gs[k].ip = IF k = n THEN t ELSE fs[k].ip
    BY Zenon DEF Moved, Advanced
<1>3. ASSUME NEW k \in 1 .. n PROVE Calm(m, gs, k)
  <2>0. Calm(m, fs, k)
      BY Zenon DEF Hushed
  <2>1. k > 1 => k - 1 \in 1 .. n
      BY <1>1
  <2>2. k < n => k + 1 \in 1 .. n
      BY <1>1
  <2>3. CASE k # n
    <3>1. /\ k > 1 => /\ gs[k - 1].chunk = fs[k - 1].chunk
                      /\ gs[k - 1].yielded = fs[k - 1].yielded
          /\ k < Len(fs) => k < Len(gs) /\ gs[k + 1].chunk = fs[k + 1].chunk
        BY <1>2, <2>1, <2>2, Zenon
    <3>2. /\ gs[k].chunk = fs[k].chunk /\ gs[k].ip = fs[k].ip
          /\ gs[k].yielded = fs[k].yielded
        BY <1>2, <2>3, Zenon
    <3> QED BY <2>0, <3>1, <3>2, CalmSame, Zenon
  <2>4. CASE k = n
    <3>1. ~(n < Len(fs))
        BY <1>1
    <3>2. g.chunk = f.chunk /\ g.yielded = f.yielded /\ g.ip = t
        BY <1>1, <1>2, Zenon
    <3>3. n > 1 => /\ fs[n - 1] \in FrameTypes(m)
                   /\ gs[n - 1].chunk = fs[n - 1].chunk
                   /\ gs[n - 1].yielded = fs[n - 1].yielded
        BY <1>2, <2>1, <2>4, SequenceFacts
    <3>4. n > 1 => \E b \in DOMAIN m : f.chunk \in Callees(m[b])
      <4>1. n > 1 => /\ f.chunk \in Callees(m[fs[n - 1].chunk])
                     /\ fs[n - 1].chunk \in DOMAIN m
          BY <2>0, <2>4, <3>3, FrameFacts DEF Calm, Admitted
      <4> QED BY <4>1, Zenon
    <3>5. Quiet(m, f, n) => Quiet(m, g, n)
      <4> HIDE DEF n, f, g
      <4>1. /\ f.ip \in Positions(m[f.chunk])
            /\ f.ip \notin YieldSites(m[f.chunk], compute_always_yielding(m))
            /\ t \in Walks(m[f.chunk], f.ip) /\ t \in Positions(m[f.chunk])
          BY Zenon DEF f, n
      <4> QED BY <1>1, <3>2, <3>4, <4>1, QuietStep
    <3>6. f.yielded \/ Quiet(m, f, n)
        BY <2>0, <2>4, <3>1, Zenon DEF Calm
    <3> QED BY <2>0, <2>4, <3>2, <3>3, <3>5, <3>6, Zenon DEF Calm
  <2> QED BY <2>3, <2>4
<1> QED BY <1>2, <1>3, Zenon DEF Hushed

\* A call: the new frame is quiet, and either the caller is calm without it or
\* the callee counts as its yield.
LEMMA HushedPush ==
    ASSUME NEW m, Admitted(m), DelegatesCover(m), NEW fs, NEW gs, NEW t,
           NEW nf, NEW hs, fs \in Seq(FrameTypes(m)), fs # <<>>,
           Hushed(m, fs), Moved(m, fs, gs, t), hs = Append(gs, nf),
           nf.chunk \in DOMAIN m, nf.ip = 0, ~nf.yielded,
           nf.chunk \in Callees(m[fs[Len(fs)].chunk]),
           nf.chunk \in compute_always_yielding(m) \/ Hushed(m, gs)
    PROVE  Hushed(m, hs)
<1> DEFINE n == Len(fs)
           always == compute_always_yielding(m)
<1>1. n \in Nat /\ n > 0 /\ n \in 1 .. n /\ fs[n] \in FrameTypes(m)
    BY SequenceFacts
<1>2. /\ gs \in Seq(FrameTypes(m)) /\ Len(gs) = n
      /\ \A k \in 1 .. n : /\ gs[k].chunk = fs[k].chunk
                           /\ gs[k].yielded = fs[k].yielded
                           /\ gs[k].ip = IF k = n THEN t ELSE fs[k].ip
    BY Zenon DEF Moved, Advanced
<1>3. /\ Len(hs) = n + 1 /\ hs[n + 1] = nf
      /\ \A k \in 1 .. n : hs[k] = gs[k]
    BY <1>2, AppendIsThere
<1>4. ASSUME NEW k \in 1 .. n, k # n PROVE Calm(m, hs, k)
  <2>0. Calm(m, fs, k)
      BY Zenon DEF Hushed
  <2>1. k > 1 => k - 1 \in 1 .. n
      BY <1>1
  <2>2. k + 1 \in 1 .. n /\ k < n + 1
      BY <1>1, <1>4
  <2>3. /\ k > 1 => /\ hs[k - 1].chunk = fs[k - 1].chunk
                    /\ hs[k - 1].yielded = fs[k - 1].yielded
        /\ k < Len(fs) => k < Len(hs) /\ hs[k + 1].chunk = fs[k + 1].chunk
    <3>1. \A j \in 1 .. n : /\ hs[j].chunk = fs[j].chunk
                            /\ hs[j].yielded = fs[j].yielded
        BY <1>2, <1>3, Zenon
    <3>2. k < Len(hs)
        BY <1>3, <2>2, Zenon
    <3> QED BY <2>1, <2>2, <3>1, <3>2, Zenon
  <2>4. /\ hs[k].chunk = fs[k].chunk /\ hs[k].ip = fs[k].ip
        /\ hs[k].yielded = fs[k].yielded
      BY <1>2, <1>3, <1>4, Zenon
  <2> QED BY <2>0, <2>3, <2>4, CalmSame, Zenon
<1>5. Calm(m, hs, n)
  <2>0. Calm(m, fs, n)
      BY <1>1, Zenon DEF Hushed
  <2>1. n > 1 => n - 1 \in 1 .. n
      BY <1>1
  <2>2. n < n + 1 /\ ~(n < n)
      BY <1>1
  <2>3. n > 1 => /\ hs[n].chunk \in Callees(m[hs[n - 1].chunk])
                 /\ hs[n].yielded => hs[n - 1].yielded
    <3> SUFFICES ASSUME n > 1
                 PROVE  /\ hs[n].chunk \in Callees(m[hs[n - 1].chunk])
                        /\ hs[n].yielded => hs[n - 1].yielded
        OBVIOUS
    <3>1. /\ hs[n].chunk = fs[n].chunk /\ hs[n].yielded = fs[n].yielded
          /\ hs[n - 1].chunk = fs[n - 1].chunk
          /\ hs[n - 1].yielded = fs[n - 1].yielded
        BY <1>1, <1>2, <1>3, <2>1, Zenon
    <3>2. /\ fs[n].chunk \in Callees(m[fs[n - 1].chunk])
          /\ fs[n].yielded => fs[n - 1].yielded
        BY <2>0, Zenon DEF Calm
    <3> HIDE DEF n
    <3> QED BY <3>1, <3>2, Zenon
  <2>4. CASE nf.chunk \in always
      BY <1>3, <2>2, <2>3, <2>4, Zenon DEF Calm
  <2>5. CASE Hushed(m, gs)
    <3>1. Calm(m, gs, n)
        BY <1>1, <1>2, <2>5, Zenon DEF Hushed
    <3>2. gs[n].yielded \/ Quiet(m, gs[n], n)
        BY <1>2, <2>2, <3>1, Zenon DEF Calm
    <3>3. hs[n] = gs[n]
        BY <1>1, <1>3, Zenon
    <3> QED BY <2>3, <3>2, <3>3, Zenon DEF Calm
  <2> QED BY <2>4, <2>5
<1>6. Calm(m, hs, n + 1)
  <2>1. (n + 1) - 1 = n /\ n + 1 > 1
      BY <1>1
  <2>2. hs[n].chunk = fs[n].chunk /\ fs[n].chunk \in DOMAIN m
      BY <1>1, <1>2, <1>3, FrameFacts DEF Admitted
  <2>3. nf.chunk \in always => nf.ip \in Silent(m[nf.chunk], 0, always)
    <3>1. nf.chunk \in always =>
              Silence(m[nf.chunk], 0, always, Silent(m[nf.chunk], 0, always))
        BY <2>2, SilentFacts, Zenon
    <3> QED BY <3>1, Zenon DEF Silence
  <2>4. Quiet(m, nf, n + 1)
      BY <2>3, Zenon DEF Quiet
  <2>5. hs[(n + 1) - 1] = hs[n]
      BY <2>1
  <2>6. /\ hs[n + 1].chunk \in Callees(m[hs[(n + 1) - 1].chunk])
        /\ hs[n + 1].yielded => hs[(n + 1) - 1].yielded
        /\ Quiet(m, hs[n + 1], n + 1)
      BY <1>3, <2>2, <2>4, <2>5, Zenon
  <2> DEFINE j == n + 1
  <2>7. /\ hs[j].chunk \in Callees(m[hs[j - 1].chunk])
        /\ hs[j].yielded => hs[j - 1].yielded
        /\ Quiet(m, hs[j], j)
      BY <2>6
  <2> HIDE DEF j
  <2>8. Calm(m, hs, j)
      BY <2>7, Zenon DEF Calm
  <2> QED BY <2>8 DEF j
<1>7. \A k \in 1 .. Len(hs) : k = n + 1 \/ k = n \/ k \in 1 .. n
    BY <1>1, <1>3
<1> QED BY <1>4, <1>5, <1>6, <1>7, Zenon DEF Hushed

\* A return: a callee that counted as a yield of its caller has yielded.
LEMMA HushedPop ==
    ASSUME NEW m, Admitted(m), DelegatesCover(m), NEW fs, NEW hs, NEW n,
           fs \in Seq(FrameTypes(m)), n = Len(fs), n > 1, Hushed(m, fs),
           fs[n].ip \in PositionsOf(m[fs[n].chunk], "Return"),
           Len(hs) = n - 1, \A k \in 1 .. n - 1 : hs[k] = fs[k]
    PROVE  Hushed(m, hs)
<1> DEFINE f == fs[n]
           always == compute_always_yielding(m)
<1>1. /\ n \in Nat /\ n \in 1 .. n /\ n - 1 \in 1 .. n - 1 /\ n - 1 \in 1 .. n
      /\ fs[n - 1] \in FrameTypes(m) /\ f \in FrameTypes(m)
      /\ ~(n < n) /\ n - 1 + 1 = n
    BY SequenceFacts
<1>2. /\ Calm(m, fs, n) /\ Calm(m, fs, n - 1)
    BY <1>1, Zenon DEF Hushed
<1>3. f.chunk \in DOMAIN m /\ fs[n - 1].chunk \in DOMAIN m
    BY <1>1, FrameFacts DEF Admitted
<1>4. f.chunk \in always => fs[n - 1].yielded
  <2> SUFFICES ASSUME f.chunk \in always PROVE fs[n - 1].yielded
      OBVIOUS
  <2>1. /\ f.chunk \in Callees(m[fs[n - 1].chunk])
        /\ f.yielded => fs[n - 1].yielded
        /\ f.yielded \/ Quiet(m, f, n)
      BY <1>1, <1>2, Zenon DEF Calm
  <2>2. Silent(m[f.chunk], 0, always) \cap PositionsOf(m[f.chunk], "Return") = {}
      BY <1>3, <2>1, SilentFacts, Zenon
  <2>3. Quiet(m, f, n) => f.ip \in Silent(m[f.chunk], 0, always)
      BY Zenon DEF Quiet
  <2>4. ~Quiet(m, f, n)
      BY <2>2, <2>3, Zenon
  <2> QED BY <2>1, <2>4, Zenon
<1>5. Calm(m, hs, n - 1)
  <2>1. n - 1 > 1 => n - 1 - 1 \in 1 .. n - 1
      BY <1>1
  <2>2. hs[n - 1] = fs[n - 1] /\ (n - 1 > 1 => hs[n - 1 - 1] = fs[n - 1 - 1])
      BY <1>1, <2>1, Zenon
  <2>3. fs[n - 1].yielded \/ Quiet(m, fs[n - 1], n - 1)
      BY <1>1, <1>2, <1>4, Zenon DEF Calm
  <2> QED BY <1>2, <2>2, <2>3, Zenon DEF Calm
<1>6. ASSUME NEW k \in 1 .. n - 1, k # n - 1 PROVE Calm(m, hs, k)
  <2>1. /\ k \in 1 .. n /\ k + 1 \in 1 .. n - 1 /\ k < n - 1
        /\ k > 1 => k - 1 \in 1 .. n - 1
      BY <1>1, <1>6
  <2>2. Calm(m, fs, k)
      BY <2>1, Zenon DEF Hushed
  <2>3. /\ hs[k] = fs[k] /\ hs[k + 1] = fs[k + 1]
        /\ k > 1 => hs[k - 1] = fs[k - 1]
      BY <2>1, Zenon
  <2> QED BY <2>1, <2>2, <2>3, CalmSame, Zenon
<1> QED BY <1>5, <1>6, Zenon DEF Hushed

\* Frames that only their cost distinguishes are equally calm.
LEMMA HushedSame ==
    ASSUME NEW m, NEW fs, NEW gs, NEW n, n \in Nat, Len(fs) = n, Len(gs) = n,
           Hushed(m, fs),
           \A k \in 1 .. n : /\ gs[k].chunk = fs[k].chunk
                             /\ gs[k].ip = fs[k].ip
                             /\ gs[k].yielded = fs[k].yielded
    PROVE  Hushed(m, gs)
<1> SUFFICES ASSUME NEW k \in 1 .. n PROVE Calm(m, gs, k)
    BY Zenon DEF Hushed
<1>1. (k > 1 => k - 1 \in 1 .. n) /\ (k < n => k + 1 \in 1 .. n)
    OBVIOUS
<1>2. Calm(m, fs, k)
    BY Zenon DEF Hushed
<1>3. /\ k > 1 => /\ gs[k - 1].chunk = fs[k - 1].chunk
                  /\ gs[k - 1].yielded = fs[k - 1].yielded
      /\ k < Len(fs) => k < Len(gs) /\ gs[k + 1].chunk = fs[k + 1].chunk
    BY <1>1, Zenon
<1> QED BY <1>2, <1>3, CalmSame, Zenon

\* After a yield every frame has yielded.
LEMMA HushedYielded ==
    ASSUME NEW m, NEW fs, NEW gs, NEW n, n \in Nat, Len(fs) = n, Len(gs) = n,
           Hushed(m, fs),
           \A k \in 1 .. n : gs[k].chunk = fs[k].chunk /\ gs[k].yielded
    PROVE  Hushed(m, gs)
<1> SUFFICES ASSUME NEW k \in 1 .. n PROVE Calm(m, gs, k)
    BY Zenon DEF Hushed
<1>1. k > 1 => k - 1 \in 1 .. n
    OBVIOUS
<1>2. Calm(m, fs, k)
    BY Zenon DEF Hushed
<1>3. k > 1 => gs[k].chunk \in Callees(m[gs[k - 1].chunk])
    BY <1>1, <1>2, Zenon DEF Calm
<1> QED BY <1>1, <1>3, Zenon DEF Calm

\* A stream that starts over is quiet again.
LEMMA HushedReset ==
    ASSUME NEW m, Admitted(m), DelegatesCover(m), NEW fs, NEW gs, NEW n,
           fs \in Seq(FrameTypes(m)), n = Len(fs), n > 0, Hushed(m, fs),
           m[fs[n].chunk].kind = "Stream",
           Len(gs) = n, \A k \in 1 .. n : gs[k].chunk = fs[k].chunk,
           \A k \in 1 .. n : k # n => /\ gs[k].ip = fs[k].ip
                                      /\ gs[k].yielded = fs[k].yielded,
           gs[n].ip = 1, ~gs[n].yielded
    PROVE  Hushed(m, gs)
<1> DEFINE c == fs[n].chunk
           always == compute_always_yielding(m)
<1>1. n \in Nat /\ n \in 1 .. n /\ ~(n < n) /\ fs[n] \in FrameTypes(m)
    BY SequenceFacts
<1>2. c \in DOMAIN m /\ Size(m[c]) \in Nat
    BY <1>1, FrameFacts, ModuleType DEF Admitted
<1>3. 1 \in Silent(m[c], 1, always)
    BY <1>2, SilentFacts, Zenon DEF Silence
<1>4. ASSUME n > 1, c \in always PROVE 1 \in Silent(m[c], 0, always)
  <2> DEFINE S == Silent(m[c], 0, always)
  <2>1. n - 1 \in 1 .. n /\ Calm(m, fs, n)
      BY <1>1, <1>4 DEF Hushed
  <2>2. fs[n - 1] \in FrameTypes(m)
      BY <2>1, SequenceFacts
  <2>3. fs[n - 1].chunk \in DOMAIN m
      BY <2>2, FrameFacts DEF Admitted
  <2>4. c \in Callees(m[fs[n - 1].chunk])
      BY <1>4, <2>1, Zenon DEF Calm
  <2>5. Silence(m[c], 0, always, S) /\ 0 \in S
      BY <1>2, <1>4, <2>3, <2>4, SilentFacts, Zenon DEF Silence
  <2>6. /\ 0 \in Positions(m[c]) /\ 1 \in Positions(m[c])
        /\ At(m[c], 0).o = "Stream"
      BY <1>2, Entry
  <2>7. Walks(m[c], 0) = {0 + 1}
      BY <2>6 DEF Walks, Targets
  <2>8. 1 \in Walks(m[c], 0)
      BY <2>7
  <2>9. 0 \notin YieldSites(m[c], always)
      BY <2>6 DEF YieldSites, PositionsOf
  <2> HIDE DEF S
  <2>10. 1 \in S
      BY <1>2, <2>5, <2>6, <2>8, <2>9, WalkOn
  <2> QED BY <2>10 DEF S
<1>5. Quiet(m, gs[n], n)
    BY <1>1, <1>3, <1>4, Zenon DEF Quiet
<1>6. ASSUME NEW k \in 1 .. n PROVE Calm(m, gs, k)
  <2>0. Calm(m, fs, k)
      BY Zenon DEF Hushed
  <2>1. /\ k > 1 => k - 1 \in 1 .. n /\ k - 1 # n
        /\ k < n => k + 1 \in 1 .. n
      BY <1>1
  <2>2. k > 1 => /\ gs[k - 1].chunk = fs[k - 1].chunk
                 /\ gs[k - 1].yielded = fs[k - 1].yielded
      BY <2>1, Zenon
  <2>3. CASE k # n
      BY <2>0, <2>1, <2>2, <2>3, CalmSame, Zenon
  <2>4. CASE k = n
    <3>1. k > 1 => gs[k].chunk \in Callees(m[gs[k - 1].chunk])
        BY <2>0, <2>2, Zenon DEF Calm
    <3> QED BY <1>5, <2>4, <3>1, Zenon DEF Calm
  <2> QED BY <2>3, <2>4
<1> QED BY <1>6, Zenon DEF Hushed

LEMMA InitQuietInv == Init /\ DelegatesCover(mod) => QuietInv
BY DEF Init, Fresh, QuietInv, Hushed

LEMMA NextQuietInv == IInv /\ QuietInv /\ [Next]_vars => QuietInv'
<1> SUFFICES ASSUME IInv, QuietInv, [Next]_vars PROVE QuietInv'
    OBVIOUS
<1> DEFINE n == Len(frames)
           always == compute_always_yielding(mod)
<1>1. /\ Admitted(mod) /\ DelegatesCover(mod) /\ frames \in Seq(FrameTypes(mod))
      /\ mod \in Seq(Chunks) /\ Machine(mod, frames, stack, status)
      /\ status # "Error" => Hushed(mod, frames)
    BY DEF IInv, Machine, Admitted, QuietInv
<1>2. n \in Nat
    BY <1>1, SequenceFacts
<1>3. ASSUME mod' = mod, status' # "Error" => Hushed(mod, frames')
      PROVE  QuietInv'
    BY <1>1, <1>3, Zenon DEF QuietInv
\* Where a running frame may go.
<1>4. ASSUME status = "Running", NEW t \in Targets(Code, Frame.ip)
      PROVE  /\ t \in Positions(Code)
             /\ Next_ip.o \notin {"Return", "Trap", "Reset"} =>
                    t \in Walks(Code, Frame.ip)
  <2>1. /\ Frame.chunk \in DOMAIN mod /\ Code = mod[Frame.chunk]
        /\ Frame.ip \in Positions(Code) /\ Next_ip = At(Code, Frame.ip)
        /\ FrameOK(mod, Frame, stack, Len(stack), 0, "Running")
      BY <1>4, Dispatched, Zenon
  <2>2. interp_region(mod[Frame.chunk])[Frame.ip + 1] \in Nat
      BY <2>1, Zenon DEF FrameOK, Placed, Height
  <2>3. t \in Positions(Code)
      BY <1>1, <1>4, <2>1, <2>2, HeightStep
  <2>4. Next_ip.o \notin {"Return", "Trap", "Reset"} => t \in Walks(Code, Frame.ip)
      BY <1>4, <2>1, Zenon DEF Walks
  <2> QED BY <2>3, <2>4
<1>5. ASSUME status = "Running"
      PROVE  /\ n > 0 /\ frames # <<>> /\ Hushed(mod, frames)
             /\ Frame = frames[n] /\ Code = mod[Frame.chunk]
             /\ Frame.chunk \in DOMAIN mod
             /\ Frame.ip \in Positions(Code) /\ Next_ip = At(Code, Frame.ip)
             /\ Frame.ip \in Nat /\ Next_ip.a \in Nat
    BY <1>1, <1>5, Dispatched
<1>6. CASE EdgeOp
  <2>1. /\ status = "Running" /\ status' = "Running" /\ mod' = mod
        /\ Next_ip.o \notin {"Yield", "Call", "Return", "Trap", "Reset"}
      BY <1>6, EdgeMoves
  <2>2. PICK t \in Targets(Code, Frame.ip) : Moved(mod, frames, frames', t)
      BY <1>6, EdgeMoves
  <2>3. t \in Positions(Code) /\ t \in Walks(Code, Frame.ip)
      BY <1>4, <2>1, <2>2
  <2>4. Frame.ip \notin YieldSites(Code, always)
      BY <1>5, <2>1 DEF YieldSites, PositionsOf
  <2>5. Hushed(mod, frames')
    <3> DEFINE fs == frames'
    <3>1. Moved(mod, frames, fs, t)
        BY <2>2
    <3> HIDE DEF fs
    <3>2. Hushed(mod, fs)
        BY <1>1, <1>5, <2>1, <2>3, <2>4, <3>1, HushedMove
    <3> QED BY <3>2 DEF fs
  <2> QED BY <1>3, <2>1, <2>5
<1>7. CASE YieldOp
  <2>1. /\ status = "Running" /\ mod' = mod
        /\ frames' = [k \in DOMAIN frames |->
                        [Stepped(Frame.ip + 1)[k] EXCEPT !.yielded = TRUE]]
      BY <1>7 DEF YieldOp, Dispatching
  <2>2. /\ Len(frames') = n
        /\ \A k \in 1 .. n : frames'[k].chunk = frames[k].chunk
      BY <1>7, ChunksStay
  <2>3. \A k \in 1 .. n : frames'[k].yielded
    <3> DEFINE gs == Stepped(Frame.ip + 1)
    <3>1. Frame.ip + 1 \in Nat
        BY <1>5, <2>1
    <3>2. Advanced(mod, frames, gs, Frame.ip + 1)
        BY <2>1, <3>1, SteppedAdvances
    <3>3. gs \in Seq(FrameTypes(mod)) /\ Len(gs) = n
        BY <3>2 DEF Advanced
    <3>4. DOMAIN frames = 1 .. n
        BY <1>1
    <3> HIDE DEF gs
    <3>5. ASSUME NEW k \in 1 .. n PROVE frames'[k].yielded
      <4> DEFINE f == gs[k]
      <4>1. frames'[k] = [f EXCEPT !.yielded = TRUE]
          BY <2>1, <3>4, Zenon DEF gs
      <4>2. f \in FrameTypes(mod)
          BY <3>3, SequenceFacts
      <4> HIDE DEF f
      <4>3. [f EXCEPT !.yielded = TRUE].yielded
          BY <4>2 DEF FrameTypes
      <4> QED BY <4>1, <4>3, Zenon
    <3> QED BY <3>5
  <2>4. Hushed(mod, frames')
      BY <1>2, <1>5, <2>1, <2>2, <2>3, HushedYielded, Zenon
  <2> QED BY <1>3, <2>1, <2>4
<1>8. CASE ResetOp
  <2>1. /\ status = "Running" /\ mod' = mod /\ Next_ip.o = "Reset"
        /\ frames' = Rewound(frames, FirstOf(Code, "Stream") + 1)
      BY <1>8, Zenon DEF ResetOp, Dispatching, Rewound
  <2>2. Code.kind = "Stream" /\ FirstOf(Code, "Stream") + 1 = 1
      BY <2>1, ResetsStream
  <2> DEFINE t == FirstOf(Code, "Stream") + 1
  <2>3. t = 1 /\ t \in Nat /\ frames' = Rewound(frames, t)
      BY <2>1, <2>2
  <2> HIDE DEF t
  <2>4. /\ Advanced(mod, frames, frames', t)
        /\ Unmarked(frames, frames')
      BY <1>1, <2>3, RewoundAdvances, Zenon
  <2> DEFINE gs == frames'
  <2>5. n \in 1 .. n
      BY <1>2, <1>5, <2>1
  <2>6. /\ Len(gs) = n /\ \A k \in 1 .. n : gs[k].chunk = frames[k].chunk
        /\ \A k \in 1 .. n : k # n => /\ gs[k].ip = frames[k].ip
                                      /\ gs[k].yielded = frames[k].yielded
        /\ gs[n].ip = 1 /\ ~gs[n].yielded
      BY <2>3, <2>4, <2>5, Zenon DEF Advanced, Unmarked
  <2>7. mod[frames[n].chunk].kind = "Stream"
      BY <1>5, <2>1, <2>2, Zenon
  <2> HIDE DEF gs
  <2>8. Hushed(mod, gs)
      BY <1>1, <1>5, <2>1, <2>6, <2>7, HushedReset
  <2> QED BY <1>3, <2>1, <2>8, Zenon DEF gs
<1>9. CASE TrapOp
  <2>1. mod' = mod /\ status' = "Error"
      BY <1>9 DEF TrapOp
  <2> QED BY <1>3, <2>1
<1>10. CASE resume
  <2>1. status \in {"Yielded", "Reset"} /\ mod' = mod /\ frames' = Resumed(frames)
      BY <1>10 DEF resume
  <2>2. /\ Len(frames') = n
        /\ \A k \in 1 .. n : /\ frames'[k].chunk = frames[k].chunk
                             /\ frames'[k].ip = frames[k].ip
                             /\ frames'[k].yielded = frames[k].yielded
      BY <1>1, <2>1, ResumedFrames, Zenon
  <2>3. Hushed(mod, frames)
      BY <1>1, <2>1
  <2>4. Hushed(mod, frames')
      BY <1>2, <2>2, <2>3, HushedSame, Zenon
  <2> QED BY <1>3, <2>1, <2>4
<1>11. ASSUME NEW c \in DOMAIN mod, call_function(c) PROVE QuietInv'
  <2> DEFINE nf == NewFrame(c, Len(stack))
  <2>1. /\ mod' = mod /\ status \in {"Idle", "Finished"}
        /\ frames' = Append(frames, nf)
      BY <1>11 DEF call_function
  <2>2. frames = <<>>
      BY <1>1, <2>1 DEF Machine
  <2>3. nf.ip = 0
      BY DEF NewFrame
  <2> HIDE DEF nf
  <2>4. frames' = <<nf>>
      BY <2>1, <2>2
  <2> DEFINE gs == frames'
  <2>5. Len(gs) = 1 /\ gs[1] = nf /\ ~(1 > 1)
      BY <2>4
  <2>6. Quiet(mod, nf, 1)
      BY <2>3, <2>5, Zenon DEF Quiet
  <2> HIDE DEF gs
  <2>7. Calm(mod, gs, 1)
      BY <2>5, <2>6, Zenon DEF Calm
  <2>8. \A k \in 1 .. Len(gs) : k = 1
      BY <2>5
  <2>9. Hushed(mod, gs)
      BY <2>7, <2>8, Zenon DEF Hushed
  <2> QED BY <1>3, <2>1, <2>9, Zenon DEF gs
<1>12. CASE reset_after_error
  <2>1. mod' = mod /\ frames' = <<>>
      BY <1>12 DEF reset_after_error
  <2>2. Hushed(mod, <<>>)
      BY DEF Hushed
  <2> QED BY <1>3, <2>1, <2>2
<1>13. CASE CallOp
  <2>1. PICK gs, nf : /\ Moved(mod, frames, gs, Frame.ip + 1)
                      /\ frames' = Append(gs, nf)
                      /\ Next_ip.a \in DOMAIN mod /\ Next_ip.a \in Callees(Code)
                      /\ nf.chunk = Next_ip.a /\ nf.ip = 0 /\ ~nf.yielded
      BY <1>13, CallMoves
  <2>2. status = "Running" /\ mod' = mod /\ Next_ip.o = "Call"
      BY <1>13 DEF CallOp, Dispatching
  <2>3. Frame.ip + 1 \in Targets(Code, Frame.ip)
      BY <1>5, <2>2 DEF Targets
  <2> DEFINE t == Frame.ip + 1
  <2>4. t \in Positions(Code) /\ t \in Walks(Code, Frame.ip)
      BY <1>4, <2>2, <2>3
  <2> HIDE DEF t
  <2>5. Moved(mod, frames, gs, t)
      BY <2>1 DEF t
  <2>6. nf.chunk \in always \/ Hushed(mod, gs)
    <3> SUFFICES ASSUME nf.chunk \notin always PROVE Hushed(mod, gs)
        OBVIOUS
    <3>1. Frame.ip \notin YieldSites(Code, always)
      <4>1. Next_ip.a \notin always
          BY <2>1
      <4> HIDE DEF always
      <4> QED BY <1>5, <2>2, <4>1 DEF YieldSites, PositionsOf
    <3> QED BY <1>1, <1>5, <2>2, <2>4, <2>5, <3>1, HushedMove
  <2> DEFINE hs == frames'
  <2>7. hs = Append(gs, nf)
      BY <2>1
  <2>8. nf.chunk \in DOMAIN mod /\ nf.chunk \in Callees(mod[frames[n].chunk])
      BY <1>5, <2>1, <2>2, Zenon
  <2> HIDE DEF hs
  <2>9. Hushed(mod, hs)
      BY <1>1, <1>5, <2>1, <2>2, <2>5, <2>6, <2>7, <2>8, HushedPush
  <2> QED BY <1>3, <2>2, <2>9, Zenon DEF hs
<1>14. CASE ReturnOp
  <2>1. /\ mod' = mod /\ status = "Running" /\ Next_ip.o = "Return"
        /\ frames' = SubSeq(frames, 1, n - 1)
      BY <1>14 DEF ReturnOp, Dispatching
  <2> DEFINE hs == frames'
  <2>2. n > 0
      BY <1>5, <2>1
  <2>3. Len(hs) = n - 1 /\ \A k \in 1 .. n - 1 : hs[k] = frames[k]
    <3>1. n = Len(frames)
        OBVIOUS
    <3> HIDE DEF n
    <3>2. /\ Len(SubSeq(frames, 1, n - 1)) = n - 1
          /\ \A k \in 1 .. n - 1 : SubSeq(frames, 1, n - 1)[k] = frames[k]
        BY <1>1, <2>2, <3>1, DropTop
    <3> QED BY <2>1, <3>2, Zenon
  <2>4. frames[n].ip \in PositionsOf(mod[frames[n].chunk], "Return")
    <3>1. Frame.ip \in PositionsOf(Code, "Return")
        BY <1>5, <2>1 DEF PositionsOf
    <3> QED BY <1>5, <2>1, <3>1, Zenon
  <2> HIDE DEF hs
  <2>5. CASE n > 1
    <3>1. n = Len(frames) /\ Hushed(mod, frames)
        BY <1>5, <2>1
    <3> HIDE DEF n
    <3>2. Hushed(mod, hs)
        BY <1>1, <2>3, <2>4, <2>5, <3>1, HushedPop
    <3> QED BY <1>3, <2>1, <3>2, Zenon DEF hs
  <2>6. CASE ~(n > 1)
    <3>1. Len(hs) = 0
        BY <1>2, <2>2, <2>3, <2>6
    <3>2. Hushed(mod, hs)
        BY <3>1 DEF Hushed
    <3> QED BY <1>3, <2>1, <3>2, Zenon DEF hs
  <2> QED BY <2>5, <2>6
<1>15. CASE UNCHANGED vars
  <2>1. mod' = mod /\ status' = status /\ frames' = frames
      BY <1>15 DEF vars
  <2> QED BY <1>1, <1>3, <2>1
<1> QED BY <1>6, <1>7, <1>8, <1>9, <1>10, <1>11, <1>12, <1>13, <1>14, <1>15,
           Zenon DEF Next, run, EdgeOp

LEMMA QuietIsProductive == IInv /\ QuietInv => Productive
<1> SUFFICES ASSUME IInv, QuietInv, status = "Running", Next_ip.o = "Reset"
             PROVE  Frame.yielded
    BY DEF Productive, Running
<1> DEFINE n == Len(frames)
           always == compute_always_yielding(mod)
<1>1. /\ Code.kind = "Stream" /\ At(Code, 0).o = "Stream"
    BY ResetsStream
<1>2. /\ Admitted(mod) /\ Frame.chunk \in DOMAIN mod /\ Code = mod[Frame.chunk]
      /\ Frame.ip \in Positions(Code) /\ Next_ip = At(Code, Frame.ip)
      /\ Frame = frames[n] /\ n \in Nat /\ n > 0
    BY Dispatched, Zenon
<1>3. n \in 1 .. n /\ ~(n < n)
    BY <1>2
<1>4. Hushed(mod, frames)
    BY DEF QuietInv
<1>5. Calm(mod, frames, n)
    BY <1>3, <1>4, Zenon DEF Hushed
<1>6. Frame.yielded \/ Quiet(mod, Frame, n)
    BY <1>2, <1>3, <1>5, Zenon DEF Calm
<1>7. Frame.ip # 0
    BY <1>1, <1>2
<1>8. Frame.ip \in PositionsOf(Code, "Reset")
    BY <1>2 DEF PositionsOf
<1>9. Silent(Code, 1, always) \cap PositionsOf(Code, "Reset") = {}
    BY <1>1, <1>2, SilentFacts, Zenon
<1>10. ~Quiet(mod, Frame, n)
    BY <1>1, <1>2, <1>7, <1>8, <1>9, Zenon DEF Quiet
<1> QED BY <1>6, <1>10

\* A stream yields, itself or through a callee, between any two of its Resets
\* and before its first: what verify_productivity computes is what the
\* dispatch loop does, provided that the callees it counts as yields return
\* only after one.
THEOREM ProductiveTheorem ==
    Spec /\ Lowered(mod) /\ DelegatesCover(mod) => []Productive
<1> QED BY IInvTheorem, InitQuietInv, NextQuietInv, QuietIsProductive, PTL
        DEF Spec
=============================================================================
