-------------------------- MODULE AliasCopyProofs ---------------------------
(***************************************************************************)
(* A private composite read is a value, for every chunk whose loops nest   *)
(* and in which the composite that ends an uncopied read packs it.         *)
(*                                                                         *)
(* The inductive invariant says where an uncopied handle can be.  On the   *)
(* operand stack it is the top, and only views separate the next           *)
(* instruction from the one that ends its life there.  In a local it was   *)
(* bound by the one binding of that local, and if its slot has been        *)
(* written since, control is outside the interval of the local rule, which *)
(* it can enter only through the binding.                                  *)
(***************************************************************************)
EXTENDS AliasCopy, TLAPS

TypeOK ==
    /\ WellFormed(ops) /\ UncopiedReadsPack(ops)
    /\ copies = plan(ops)
    /\ pc \in Nat
    /\ stack \in Seq(Values)
    /\ locals \in [Locals -> Values]

\* The read at p is not copied because the binding at def keeps its value.
Binds(code, p, def) ==
    /\ p \in DOMAIN code /\ def \in DOMAIN code /\ p < def
    /\ code[p].o \in Reads
    /\ def \in skip_views(code, p + 1)
    /\ code[def].o = "SetLocal"
    /\ ~local_needs_copy(code, p, def, code[def].a)

\* Control at c meets a use of the binding at def only through the binding.
Outside(code, c, def) ==
    c <= def \/ \A e \in Ends(code, def, code[def].a) : e < c

\* What is known of a handle in local k, and of one on the operand stack.
InLocal(code, c, k, h) ==
    \E p, def \in DOMAIN code :
        /\ Binds(code, p, def)
        /\ code[def].a = k
        /\ h.at \in Covered(code[p])
        /\ h.changed => Outside(code, c, def)

InFlight(code, c, h) ==
    /\ ~h.changed
    /\ \E p, q \in DOMAIN code :
          /\ c <= q
          /\ \A j \in c .. q - 1 : j \in DOMAIN code /\ is_view(code[j])
          /\ code[p].o \in Reads
          /\ h.at \in Covered(code[p])
          /\ \/ is_dead_end(code[q], code[p]) /\ Packs(code[q])
             \/ Binds(code, p, q)

StackTracked ==
    \A j \in DOMAIN stack : \A h \in stack[j] :
        j = Len(stack) /\ InFlight(ops, pc, h)

LocalsTracked ==
    \A k \in Locals : \A h \in locals[k] : InLocal(ops, pc, k, h)

IInv == TypeOK /\ StackTracked /\ LocalsTracked

-----------------------------------------------------------------------------
(***************************************************************************)
(* Facts about one chunk.                                                  *)
(***************************************************************************)

\* The fields of a well-formed chunk are typed.
LEMMA CodeType ==
    ASSUME NEW code, WellFormed(code), NEW i \in DOMAIN code
    PROVE  /\ i \in Nat /\ i >= 1 /\ i <= Len(code)
           /\ Len(code) \in Nat /\ DOMAIN code = 1 .. Len(code)
           /\ code[i].o \in Opcodes /\ code[i].a \in Int /\ code[i].b \in Int
           /\ JumpsForward(code, i) /\ LoopsNest(code, i) /\ OperandsInRange(code, i)
  <1> DEFINE Instructions == [o : Opcodes, a : Int, b : Int]
  <1>1. code \in Seq(Instructions)
    BY DEF WellFormed
  <1> HIDE DEF Instructions
  <1>2. Len(code) \in Nat /\ DOMAIN code = 1 .. Len(code) /\ code[i] \in Instructions
    BY <1>1
  <1>3. code[i].o \in Opcodes /\ code[i].a \in Int /\ code[i].b \in Int
    BY <1>2 DEF Instructions
  <1>4. JumpsForward(code, i) /\ LoopsNest(code, i) /\ OperandsInRange(code, i)
    BY DEF WellFormed
  <1> QED BY <1>2, <1>3, <1>4

\* A handle whose next instruction is no view ends its life there: it is
\* consumed by a dead end or bound.
LEMMA FlightEnds ==
    ASSUME NEW code, WellFormed(code), NEW c \in DOMAIN code, NEW h,
           InFlight(code, c, h), ~is_view(code[c])
    PROVE  \E p \in DOMAIN code :
              /\ h.at \in Covered(code[p])
              /\ \/ is_dead_end(code[c], code[p]) /\ Packs(code[c])
                 \/ Binds(code, p, c)
  <1>1. PICK p \in DOMAIN code, q \in DOMAIN code :
              /\ c <= q
              /\ \A j \in c .. q - 1 : j \in DOMAIN code /\ is_view(code[j])
              /\ h.at \in Covered(code[p])
              /\ \/ is_dead_end(code[q], code[p]) /\ Packs(code[q])
                 \/ Binds(code, p, q)
    BY DEF InFlight
  <1>2. c \in Int /\ q \in Int
    BY CodeType
  <1>3. c = q
    BY <1>1, <1>2
  <1> QED BY <1>1, <1>3

\* A view keeps a handle in flight.
LEMMA FlightGoesOn ==
    ASSUME NEW code, WellFormed(code), NEW c \in DOMAIN code, NEW h,
           InFlight(code, c, h), is_view(code[c])
    PROVE  InFlight(code, c + 1, h)
  <1>1. PICK p \in DOMAIN code, q \in DOMAIN code :
              /\ c <= q
              /\ \A j \in c .. q - 1 : j \in DOMAIN code /\ is_view(code[j])
              /\ code[p].o \in Reads
              /\ h.at \in Covered(code[p])
              /\ \/ is_dead_end(code[q], code[p]) /\ Packs(code[q])
                 \/ Binds(code, p, q)
    BY DEF InFlight
  <1>2. c \in Int /\ q \in Int
    BY CodeType
  <1>3. c # q
    BY <1>1 DEF is_view, is_dead_end, Binds
  <1>4. c + 1 <= q /\ \A j \in c + 1 .. q - 1 : j \in DOMAIN code /\ is_view(code[j])
    BY <1>1, <1>2, <1>3
  <1> QED BY <1>1, <1>4 DEF InFlight

\* The ends of a local's life are positions.
LEMMA EndsInt ==
    ASSUME NEW code, WellFormed(code), NEW def \in DOMAIN code, NEW k,
           NEW e \in Ends(code, def, k)
    PROVE  e \in Int
  <1>1. CASE e = def
    BY <1>1, CodeType
  <1>2. CASE \E i \in Uses(code, k) : e \in skip_views(code, i + 1)
    BY <1>2, CodeType, AliasCopyAssumption DEF skip_views, Uses
  <1>3. CASE \E i \in Uses(code, k) : \E j \in Open(code, def, i) : e = code[j].a - 1
    BY <1>3, CodeType DEF Open
  <1> QED BY <1>1, <1>2, <1>3 DEF Ends

\* A hazard in a chunk lies outside the interval of every binding of the slots
\* it may write.
LEMMA HazardOutside ==
    ASSUME NEW code, WellFormed(code), NEW c \in DOMAIN code,
           NEW p, NEW def, Binds(code, p, def), is_hazard(code[c], code[p])
    PROVE  Outside(code, c, def)
  <1> DEFINE k == code[def].a
  <1>1. c \in Int /\ p \in Int /\ def \in Int /\ p < def
    BY CodeType DEF Binds
  <1>2. \A e \in Ends(code, def, k) : ~(p < c /\ c <= e)
    BY DEF Binds, local_needs_copy
  <1>3. \A e \in Ends(code, def, k) : e \in Int
    BY EndsInt DEF Binds
  <1> QED BY <1>1, <1>2, <1>3 DEF Outside

\* Control that has no part of a binding's interval ahead of it gains none: a
\* jump over the binding lands past the interval, and a loop entered again
\* began before the binding or after the interval.
LEMMA OutsideStays ==
    ASSUME NEW code, WellFormed(code), NEW c \in DOMAIN code, NEW t,
           NEW p, NEW def, Binds(code, p, def), Outside(code, c, def), c # def,
           \/ t = c + 1
           \/ code[c].o \in Jumps \cup {"EndLoop"} /\ t = code[c].a
    PROVE  Outside(code, t, def)
  <1> DEFINE k == code[def].a
             E == Ends(code, def, k)
  <1>1. c \in Int /\ def \in Int /\ code[c].a \in Int /\ def \in DOMAIN code
    BY CodeType DEF Binds
  <1>2. \A e \in E : e \in Int
    BY EndsInt DEF Binds
  <1>3. def \in E
    BY DEF Ends
  <1> HIDE DEF E
  <1>4. CASE t = c + 1
    BY <1>1, <1>2, <1>3, <1>4 DEF Outside, E
  <1>5. CASE code[c].o \in Jumps /\ t = code[c].a
    <2>1. t > c /\ t \in Int
      BY <1>5, <1>1, CodeType DEF JumpsForward
    <2>2. CASE c < def
      <3>1. \A e \in E : ~(t > def /\ t <= e)
        BY <1>5, <2>2 DEF Binds, local_needs_copy, Skipped, E
      <3> QED BY <3>1, <2>1, <1>1, <1>2 DEF Outside, E
    <2>3. CASE ~(c < def)
      BY <2>1, <2>3, <1>1, <1>2 DEF Outside, E
    <2> QED BY <2>2, <2>3
  <1>6. CASE code[c].o = "EndLoop" /\ t = code[c].a
    <2> DEFINE s == t - 1
    <2>1. /\ t \in 2 .. c /\ s \in DOMAIN code
          /\ code[s].o = "Loop" /\ code[s].a = c + 1 /\ s \in Int
      BY <1>6, <1>1, CodeType DEF LoopsNest
    <2>2. CASE t <= def
      BY <2>2 DEF Outside
    <2>3. CASE t > def
      <3>1. s # def
        BY <2>1 DEF Binds
      <3>2. s > def /\ c > def
        BY <3>1, <2>1, <2>3, <1>1
      <3>3. \A e \in E : e < c
        BY <3>2, <1>1 DEF Outside, E
      <3>4. ASSUME NEW i \in Uses(code, k), s < i, i <= c
            PROVE  FALSE
        <4>1. i \in Int /\ i \in DOMAIN code
          BY CodeType DEF Uses
        <4>2. i # c
          BY <1>6 DEF Uses, Is
        <4>3. s \in Open(code, def, i)
          BY <4>1, <4>2, <3>2, <3>4, <2>1, <1>1 DEF Open
        <4>4. code[s].a - 1 \in E
          BY <4>3 DEF Ends, E
        <4> QED BY <4>4, <3>3, <2>1, <1>1
      <3>5. ASSUME NEW e \in E PROVE e < t
        <4>1. e \in Int /\ e < c
          BY <3>3, <1>2
        <4>2. CASE e = def
          BY <4>2, <3>2, <2>1, <1>1
        <4>3. CASE \E i \in Uses(code, k) : e \in skip_views(code, i + 1)
          <5>1. PICK i \in Uses(code, k) : e \in skip_views(code, i + 1)
            BY <4>3
          <5>2. /\ i \in Int /\ code[i].o = "GetLocal" /\ e >= i + 1
                /\ \A j \in i + 1 .. e - 1 : is_view(code[j])
            BY <5>1, CodeType, AliasCopyAssumption DEF Uses, Is, skip_views
          <5>3. s # i /\ ~(s \in i + 1 .. e - 1)
            BY <5>2, <2>1 DEF is_view
          <5> QED BY <5>2, <5>3, <4>1, <3>4, <2>1, <1>1
        <4>4. CASE \E i \in Uses(code, k) : \E j \in Open(code, def, i) : e = code[j].a - 1
          <5>0. PICK i \in Uses(code, k) : \E j \in Open(code, def, i) : e = code[j].a - 1
            BY <4>4
          <5>1. PICK j \in Open(code, def, i) : e = code[j].a - 1
            BY <5>0
          <5>2. /\ i \in Int /\ j \in Int /\ j \in DOMAIN code /\ code[j].a \in Int
                /\ j < i /\ code[j].o = "Loop" /\ code[j].a > i
            BY <5>1, CodeType DEF Uses, Open
          <5>3. j < s /\ s < code[j].a => code[s].a < code[j].a
            BY <5>2, <2>1, CodeType DEF LoopsNest
          <5>4. ~(s < i /\ i <= c)
            BY <3>4
          <5> QED BY <5>1, <5>2, <5>3, <5>4, <4>1, <2>1, <1>1
        <4> QED BY <4>2, <4>3, <4>4 DEF Ends, E
      <3> QED BY <3>5 DEF Outside, E
    <2> QED BY <2>2, <2>3, <2>1, <1>1
  <1> QED BY <1>4, <1>5, <1>6

\* A use of a bound local lies inside the interval and reaches a dead end.
LEMMA UseInside ==
    ASSUME NEW code, WellFormed(code), NEW i \in DOMAIN code,
           NEW p, NEW def, Binds(code, p, def), Is(code[i], "GetLocal", code[def].a)
    PROVE  ~Outside(code, i, def) /\ DeadEnds(code, i + 1, code[p])
  <1> DEFINE k == code[def].a
  <1>1. i \in Int /\ def \in Int /\ i \in Uses(code, k) /\ code[def].o = "SetLocal"
    BY CodeType DEF Uses, Binds
  <1>2. ~(i < def) /\ i # def
    BY <1>1 DEF Binds, local_needs_copy, Is
  <1>3. DeadEnds(code, i + 1, code[p])
    BY <1>1 DEF Binds, local_needs_copy
  <1>4. PICK q \in skip_views(code, i + 1) : TRUE
    BY <1>3 DEF DeadEnds
  <1>5. q \in Ends(code, def, k) /\ q \in Int /\ q >= i + 1
    BY <1>1, <1>4, AliasCopyAssumption DEF Ends, skip_views
  <1> QED BY <1>1, <1>2, <1>3, <1>5 DEF Outside

\* A read of a binding is not copied, and the composite that ends the life of
\* an uncopied read or of a use of its binding packs it.
LEMMA BindingUncopied ==
    ASSUME NEW code, NEW p \in DOMAIN code, NEW def, Binds(code, p, def)
    PROVE  p \notin plan(code)
  BY DEF Binds, plan, needs_copy

LEMMA ReadPacks ==
    ASSUME NEW code, UncopiedReadsPack(code),
           NEW p \in DOMAIN code, code[p].o \in Reads, p \notin plan(code),
           NEW q \in skip_views(code, p + 1) \cap DOMAIN code
    PROVE  Packs(code[q])
  BY DEF UncopiedReadsPack

LEMMA UsePacks ==
    ASSUME NEW code, UncopiedReadsPack(code),
           NEW p \in DOMAIN code, NEW def, Binds(code, p, def),
           NEW i \in Uses(code, code[def].a),
           NEW q \in skip_views(code, i + 1) \cap DOMAIN code
    PROVE  Packs(code[q])
  <1>1. /\ code[p].o \in Reads /\ p \notin plan(code)
        /\ def \in {d \in skip_views(code, p + 1) \cap DOMAIN code :
                      code[d].o = "SetLocal"}
    BY BindingUncopied DEF Binds
  <1> QED BY <1>1 DEF UncopiedReadsPack

\* A handle that reaches a dead end through views, from a use of the binding of
\* its read, is in flight.
LEMMA UseFlight ==
    ASSUME NEW code, WellFormed(code), UncopiedReadsPack(code),
           NEW c \in DOMAIN code, NEW h, NEW p \in DOMAIN code, NEW def,
           Binds(code, p, def), c \in Uses(code, code[def].a),
           h.at \in Covered(code[p]), ~h.changed, DeadEnds(code, c + 1, code[p])
    PROVE  InFlight(code, c + 1, h)
  <1>1. PICK q \in skip_views(code, c + 1) :
              q \in DOMAIN code /\ is_dead_end(code[q], code[p])
    BY DEF DeadEnds
  <1>2. c \in Int
    BY CodeType
  <1>3. c + 1 <= q /\ \A j \in c + 1 .. q - 1 : j \in DOMAIN code /\ is_view(code[j])
    BY <1>1, <1>2, AliasCopyAssumption DEF skip_views
  <1>4. Packs(code[q]) /\ code[p].o \in Reads
    BY <1>1, UsePacks DEF Binds
  <1> QED BY <1>1, <1>3, <1>4 DEF InFlight

\* A read that the plan does not copy is in flight.
LEMMA ReadFlight ==
    ASSUME NEW code, WellFormed(code), UncopiedReadsPack(code),
           NEW c \in DOMAIN code, NEW s,
           code[c].o \in Reads, c \notin plan(code), s \in Covered(code[c])
    PROVE  InFlight(code, c + 1, Handle(s))
  <1>1. c \in Int
    BY CodeType
  <1>2. PICK q \in skip_views(code, c + 1) :
              /\ q \in DOMAIN code
              /\ \/ is_dead_end(code[q], code[c])
                 \/ code[q].o = "SetLocal" /\ ~local_needs_copy(code, c, q, code[q].a)
    BY DEF plan, needs_copy
  <1>3. /\ c + 1 <= q /\ q \in Int
        /\ \A j \in c + 1 .. q - 1 : j \in DOMAIN code /\ is_view(code[j])
    BY <1>1, <1>2, AliasCopyAssumption DEF skip_views
  <1>4. \/ is_dead_end(code[q], code[c]) /\ Packs(code[q])
        \/ Binds(code, c, q)
    BY <1>1, <1>2, <1>3, ReadPacks DEF Binds
  <1>5. Handle(s).at = s /\ ~Handle(s).changed
    BY DEF Handle
  <1> QED BY <1>2, <1>3, <1>4, <1>5 DEF InFlight

-----------------------------------------------------------------------------
(***************************************************************************)
(* What a step does to the operands.                                       *)
(***************************************************************************)
AllOwn(s) == \A j \in DOMAIN s : s[j] = Own

\* Instructions that may meet a handle on top of the stack.
Meets(i) ==
    \/ i.o \in {"View", "Flat", "SetData", "SetLocal"}
    \/ i.o = "NewComposite" /\ Packs(i)

\* Below the operands an instruction consumes there is no handle, and where
\* it is not one that may meet a handle there is none at all.
LEMMA NoHandleBelow ==
    ASSUME IInv, pc \in DOMAIN ops, NEW n \in Nat, n <= Len(stack),
           op.o # "View", n > 0 \/ ~Meets(op)
    PROVE  Without(n) \in Seq(Values) /\ AllOwn(Without(n))
           /\ Len(Without(n)) = Len(stack) - n
  <1>1. stack \in Seq(Values) /\ WellFormed(ops)
    BY DEF IInv, TypeOK
  <1> DEFINE r == Without(n)
  <1>2. /\ r \in Seq(Values) /\ Len(r) = Len(stack) - n
        /\ \A j \in DOMAIN r : j \in DOMAIN stack /\ r[j] = stack[j]
                               /\ j <= Len(stack) - n
    BY <1>1 DEF Without
  <1>3. ASSUME NEW j \in DOMAIN r, NEW h \in r[j] PROVE FALSE
    <2>1. j = Len(stack) /\ InFlight(ops, pc, h)
      BY <1>2, <1>3 DEF IInv, StackTracked
    <2>2. n = 0
      BY <2>1, <1>1, <1>2, <1>3
    <2>3. \E p \in DOMAIN ops :
             (is_dead_end(op, ops[p]) /\ Packs(op)) \/ Binds(ops, p, pc)
      BY <2>1, <1>1, FlightEnds DEF is_view, op
    <2> QED BY <2>2, <2>3 DEF Meets, is_dead_end, Binds, op
  <1>4. \A j \in DOMAIN r : r[j] = {}
    BY <1>3
  <1> QED BY <1>2, <1>4 DEF AllOwn, Own

\* Where no handle is met, the operands consumed hold none either.
LEMMA HeldNone ==
    ASSUME IInv, pc \in DOMAIN ops, NEW n \in Nat, n <= Len(stack), ~Meets(op)
    PROVE  /\ Held(n) = Own
           /\ \A j \in Len(stack) - n + 1 .. Len(stack) : stack[j] = Own
  <1>1. stack \in Seq(Values) /\ Len(stack) \in Nat /\ Without(0) = stack
    BY DEF IInv, TypeOK, Without
  <1>2. AllOwn(stack)
    BY <1>1, NoHandleBelow DEF Meets
  <1>3. \A j \in Len(stack) - n + 1 .. Len(stack) : stack[j] = Own
    BY <1>1, <1>2 DEF AllOwn
  <1> QED BY <1>3 DEF Held, Own

\* Operands that are all owned stay so under a write, and under a push.
LEMMA OwnSeen ==
    ASSUME NEW s \in Seq(Values), AllOwn(s), NEW w \in SUBSET Slots
    PROVE  /\ Seen(s, w) \in Seq(Values) /\ AllOwn(Seen(s, w))
           /\ Len(Seen(s, w)) = Len(s)
  <1>1. \A j \in DOMAIN s : s[j] = {}
    BY DEF AllOwn, Own
  <1>2. Seen(s, w) = [j \in DOMAIN s |-> {}]
    <2>1. ASSUME NEW j \in DOMAIN s
          PROVE  {[at |-> h.at, changed |-> h.changed \/ h.at \in w] : h \in s[j]} = {}
      BY <1>1, <2>1
    <2> QED BY <2>1 DEF Seen
  <1>3. DOMAIN s = 1 .. Len(s) /\ Len(s) \in Nat /\ {} \in Values
    BY DEF Values
  <1> QED BY <1>2, <1>3 DEF AllOwn, Own

LEMMA OwnPush ==
    ASSUME NEW s \in Seq(Values), AllOwn(s), NEW v \in Values
    PROVE  /\ Append(s, v) \in Seq(Values)
           /\ \A j \in DOMAIN Append(s, v) :
                 \/ j = Len(Append(s, v)) /\ Append(s, v)[j] = v
                 \/ Append(s, v)[j] = Own
  BY DEF AllOwn

\* A stack that is all owned, or all owned below a tracked top, is tracked.
LEMMA OwnTracked ==
    ASSUME AllOwn(stack)' PROVE StackTracked'
  BY DEF AllOwn, StackTracked, Own

LEMMA PushTracked ==
    ASSUME NEW s \in Seq(Values), AllOwn(s), NEW v \in Values, stack' = Append(s, v),
           \A h \in v : InFlight(ops', pc', h)
    PROVE  StackTracked' /\ stack' \in Seq(Values)
  <1>1. Append(s, v) \in Seq(Values) /\
        \A j \in DOMAIN stack' : \/ j = Len(stack') /\ stack'[j] = v
                                 \/ stack'[j] = Own
    BY OwnPush
  <1> QED BY <1>1 DEF StackTracked, Own

-----------------------------------------------------------------------------
(***************************************************************************)
(* What a step does to the locals.                                         *)
(***************************************************************************)

\* Where control goes from an instruction other than Reset and Return.
Flows(t) ==
    \/ t = pc + 1
    \/ op.o \in Jumps \cup {"EndLoop"} /\ t = op.a

\* A handle in a local stays tracked where the step does not bind that local:
\* what a step writes, it writes outside the interval of every local that
\* refers to it.
LEMMA StaysInLocal ==
    ASSUME WellFormed(ops), pc \in DOMAIN ops, Flows(pc'),
           NEW k, op.o # "SetLocal" \/ op.a # k,
           NEW h, NEW g, InLocal(ops, pc, k, h), g.at = h.at,
           \/ g.changed => h.changed
           \/ op.o \in {"Call", "Yield"}
           \/ op.o \in {"SetData", "SetDataIndexed"} /\ h.at \in Covered(op)
    PROVE  InLocal(ops, pc', k, g)
  <1>1. PICK p \in DOMAIN ops, def \in DOMAIN ops :
            /\ Binds(ops, p, def)
            /\ ops[def].a = k
            /\ h.at \in Covered(ops[p])
            /\ h.changed => Outside(ops, pc, def)
    BY DEF InLocal
  <1>2. pc # def
    BY <1>1 DEF Binds, op
  <1>3. ASSUME g.changed PROVE Outside(ops, pc, def)
    <2>1. CASE h.changed
      BY <2>1, <1>1
    <2>2. CASE ~h.changed
      <3>1. is_hazard(op, ops[p])
        BY <2>2, <1>1, <1>3 DEF is_hazard
      <3> QED BY <3>1, <1>1, HazardOutside DEF op
    <2> QED BY <2>1, <2>2
  <1>4. Outside(ops, pc, def) => Outside(ops, pc', def)
    BY <1>1, <1>2, OutsideStays DEF Flows, op
  <1> QED BY <1>1, <1>3, <1>4 DEF InLocal

\* A step that binds no local keeps them tracked.
LEMMA LocalsKept ==
    ASSUME IInv, pc \in DOMAIN ops, NEW w \in SUBSET Slots,
           ops' = ops, Flows(pc'), locals' = Seen(locals, w), op.o # "SetLocal",
           \A s \in w : \/ op.o \in {"Call", "Yield"}
                        \/ op.o \in {"SetData", "SetDataIndexed"} /\ s \in Covered(op)
    PROVE  locals' \in [Locals -> Values] /\ LocalsTracked'
  <1>1. WellFormed(ops) /\ locals \in [Locals -> Values]
    BY DEF IInv, TypeOK
  <1> DEFINE After(h) == [at |-> h.at, changed |-> h.changed \/ h.at \in w]
  <1>2. ASSUME NEW k \in Locals PROVE locals'[k] = {After(h) : h \in locals[k]}
    BY <1>1, <1>2 DEF Seen
  <1>3. ASSUME NEW k \in Locals, NEW h \in locals[k]
        PROVE  /\ After(h) \in [at : Slots, changed : BOOLEAN]
               /\ InLocal(ops, pc', k, After(h))
    <2>1. h \in [at : Slots, changed : BOOLEAN]
      BY <1>1, <1>3 DEF Values
    <2> DEFINE b == h.changed \/ h.at \in w
    <2>2. b \in BOOLEAN /\ h.at \in Slots
      BY <2>1
    <2> HIDE DEF b
    <2>3. After(h) = [at |-> h.at, changed |-> b]
      BY DEF b
    <2> HIDE DEF After
    <2>4. /\ After(h) \in [at : Slots, changed : BOOLEAN]
          /\ After(h).at = h.at /\ After(h).changed = b
      BY <2>2, <2>3
    <2>5. \/ After(h).changed => h.changed
          \/ h.at \in w
      BY <2>4 DEF b
    <2>6. InLocal(ops, pc, k, h)
      BY <1>3 DEF IInv, LocalsTracked
    <2>7. InLocal(ops, pc', k, After(h))
      BY <2>4, <2>5, <2>6, <1>1, StaysInLocal
    <2> QED BY <2>4, <2>7
  <1> HIDE DEF After
  <1>4. \A k \in Locals : locals'[k] \in Values
    BY <1>2, <1>3 DEF Values
  <1>5. locals' \in [Locals -> Values]
    BY <1>1, <1>4 DEF Seen
  <1>6. LocalsTracked'
    BY <1>2, <1>3 DEF LocalsTracked
  <1> QED BY <1>5, <1>6

\* The same for a step that leaves the locals alone.
LEMMA LocalsUnchanged ==
    ASSUME IInv, pc \in DOMAIN ops, ops' = ops, Flows(pc'), locals' = locals,
           op.o # "SetLocal"
    PROVE  locals' \in [Locals -> Values] /\ LocalsTracked'
  <1>1. WellFormed(ops) /\ locals \in [Locals -> Values]
    BY DEF IInv, TypeOK
  <1>2. ASSUME NEW k \in Locals, NEW h \in locals[k] PROVE InLocal(ops, pc', k, h)
    <2>1. InLocal(ops, pc, k, h)
      BY <1>2 DEF IInv, LocalsTracked
    <2> QED BY <2>1, <1>1, StaysInLocal
  <1> QED BY <1>1, <1>2 DEF LocalsTracked

-----------------------------------------------------------------------------
(***************************************************************************)
(* The induction.                                                          *)
(***************************************************************************)

\* What a step that stays in the chunk has to show.
LEMMA Carries ==
    ASSUME IInv, pc \in DOMAIN ops, ops' = ops, copies' = copies, Flows(pc'),
           stack' \in Seq(Values), StackTracked',
           locals' \in [Locals -> Values], LocalsTracked'
    PROVE  IInv'
  <1>1. WellFormed(ops) /\ UncopiedReadsPack(ops) /\ copies = plan(ops)
    BY DEF IInv, TypeOK
  <1>2. pc \in Nat /\ (op.o \in Jumps \cup {"EndLoop"} => op.a \in Nat)
    BY <1>1, CodeType DEF JumpsForward, LoopsNest, op
  <1>3. pc' \in Nat
    BY <1>2 DEF Flows
  <1>4. WellFormed(ops)' /\ UncopiedReadsPack(ops)' /\ (copies = plan(ops))'
    BY <1>1
  <1> QED BY <1>3, <1>4 DEF IInv, TypeOK

LEMMA StraightOn == Flows(pc + 1)
  BY DEF Flows

LEMMA OwnFacts ==
    Own \in Values /\ \A h : h \notin Own
  BY DEF Own, Values

\* A step that replaces its operands by an owned one.
LEMMA Consumes ==
    ASSUME IInv, pc \in DOMAIN ops, NEW n \in Nat, n <= Len(stack),
           op.o # "View", op.o # "SetLocal", n > 0 \/ ~Meets(op),
           Moves(pc + 1, Append(Without(n), Own)), locals' = locals
    PROVE  IInv'
  <1>1. ops' = ops /\ copies' = copies /\ Flows(pc') /\ stack' = Append(Without(n), Own)
    BY StraightOn DEF Moves
  <1>2. Without(n) \in Seq(Values) /\ AllOwn(Without(n))
    BY NoHandleBelow
  <1>3. StackTracked' /\ stack' \in Seq(Values)
    BY <1>1, <1>2, OwnFacts, PushTracked
  <1>4. locals' \in [Locals -> Values] /\ LocalsTracked'
    BY <1>1, LocalsUnchanged
  <1> QED BY <1>1, <1>3, <1>4, Carries

\* A step that drops operands and jumps.
LEMMA Drops ==
    ASSUME IInv, pc \in DOMAIN ops, NEW n \in Nat, n <= Len(stack),
           ~Meets(op), NEW t, Flows(t),
           Moves(t, Without(n)), locals' = locals
    PROVE  IInv'
  <1>1. ops' = ops /\ copies' = copies /\ Flows(pc') /\ stack' = Without(n)
    BY DEF Moves, Flows
  <1>2. op.o # "View" /\ op.o # "SetLocal"
    BY DEF Meets
  <1>3. stack' \in Seq(Values) /\ AllOwn(stack)'
    BY <1>1, <1>2, NoHandleBelow DEF AllOwn
  <1>4. locals' \in [Locals -> Values] /\ LocalsTracked'
    BY <1>1, <1>2, LocalsUnchanged
  <1> QED BY <1>1, <1>3, <1>4, Carries, OwnTracked

LEMMA WithoutNone ==
    ASSUME IInv PROVE Without(0) = stack /\ Len(stack) \in Nat
  BY DEF IInv, TypeOK, Without

LEMMA ReadStep ==
    ASSUME IInv, GetData \/ GetDataIndexed PROVE IInv'
  <1>1. PICK n \in {0, 1}, s \in Covered(op) :
           /\ pc \in DOMAIN ops /\ op.o \in Reads /\ n <= Len(stack)
           /\ Moves(pc + 1, Append(Without(n), IF pc \in copies THEN Own ELSE {Handle(s)}))
           /\ locals' = locals
    <2>1. CASE GetData
      BY <2>1, WithoutNone DEF GetData, ReadOf, Runs, Reads
    <2>2. CASE GetDataIndexed
      BY <2>2 DEF GetDataIndexed, ReadOf, Runs, Reads
    <2> QED BY <2>1, <2>2
  <1>2. ~Meets(op)
    BY <1>1 DEF Reads, Meets
  <1>3. CASE pc \in copies
    BY <1>1, <1>2, <1>3, Consumes DEF Meets
  <1>4. CASE pc \notin copies
    <2>1. WellFormed(ops) /\ UncopiedReadsPack(ops) /\ pc \notin plan(ops)
      BY <1>4 DEF IInv, TypeOK
    <2>2. s \in Slots
      BY <1>1, <2>1, CodeType DEF OperandsInRange, op
    <2>3. {Handle(s)} \in Values
      BY <2>2 DEF Handle, Values
    <2>4. ops' = ops /\ copies' = copies /\ pc' = pc + 1 /\ Flows(pc')
          /\ stack' = Append(Without(n), {Handle(s)})
      BY <1>1, <1>4, StraightOn DEF Moves
    <2>5. InFlight(ops, pc + 1, Handle(s))
      BY <1>1, <2>1, ReadFlight DEF op
    <2>6. Without(n) \in Seq(Values) /\ AllOwn(Without(n))
      BY <1>1, <1>2, NoHandleBelow DEF Meets
    <2>7. StackTracked' /\ stack' \in Seq(Values)
      BY <2>3, <2>4, <2>5, <2>6, PushTracked
    <2>8. locals' \in [Locals -> Values] /\ LocalsTracked'
      BY <1>1, <1>2, <2>4, LocalsUnchanged DEF Meets
    <2> QED BY <1>1, <2>4, <2>7, <2>8, Carries
  <1> QED BY <1>3, <1>4

LEMMA ViewStep ==
    ASSUME IInv, View PROVE IInv'
  <1>1. /\ pc \in DOMAIN ops /\ op.o = "View" /\ ops' = ops /\ copies' = copies
        /\ pc' = pc + 1 /\ stack' = stack /\ locals' = locals /\ Flows(pc')
    BY StraightOn DEF View, Runs, Moves
  <1>2. WellFormed(ops) /\ stack' \in Seq(Values)
    BY <1>1 DEF IInv, TypeOK
  <1>3. ASSUME NEW j \in DOMAIN stack, NEW h \in stack[j]
        PROVE  j = Len(stack) /\ InFlight(ops, pc + 1, h)
    <2>1. j = Len(stack) /\ InFlight(ops, pc, h)
      BY <1>3 DEF IInv, StackTracked
    <2> QED BY <2>1, <1>1, <1>2, FlightGoesOn DEF is_view, op
  <1>4. StackTracked'
    BY <1>1, <1>3 DEF StackTracked
  <1>5. locals' \in [Locals -> Values] /\ LocalsTracked'
    BY <1>1, LocalsUnchanged
  <1> QED BY <1>1, <1>2, <1>4, <1>5, Carries

LEMMA BuildStep ==
    ASSUME IInv, Flat \/ Other \/ Push PROVE IInv'
  <1>1. CASE Flat
    <2>1. /\ pc \in DOMAIN ops /\ op.o = "Flat" /\ 1 <= Len(stack)
          /\ Moves(pc + 1, Append(Without(1), Own)) /\ locals' = locals
      BY <1>1, WithoutNone DEF Flat, Runs
    <2> QED BY <2>1, Consumes
  <1>2. CASE Other
    <2>1. /\ pc \in DOMAIN ops /\ op.o = "Other" /\ Len(stack) >= op.a
          /\ Moves(pc + 1, Append(Without(op.a), Own)) /\ locals' = locals
      BY <1>2 DEF Other, Runs
    <2>2. op.a \in Nat
      BY <2>1, CodeType DEF IInv, TypeOK, OperandsInRange, op
    <2>3. op.a <= Len(stack) /\ ~Meets(op)
      BY <2>1, <2>2, WithoutNone DEF Meets
    <2> QED BY <2>1, <2>2, <2>3, Consumes
  <1>3. CASE Push
    <2>1. /\ pc \in DOMAIN ops /\ op.o = "Const" /\ 0 <= Len(stack)
          /\ Moves(pc + 1, Append(Without(0), Own)) /\ locals' = locals
      BY <1>3, WithoutNone DEF Push, Runs
    <2> QED BY <2>1, Consumes DEF Meets
  <1> QED BY <1>1, <1>2, <1>3

\* A composite that may meet a handle packs it; the elements of any other, and
\* of every box, hold none.
LEMMA CompositeStep ==
    ASSUME IInv, NewComposite \/ Boxed \/ Element PROVE IInv'
  <1>1. WellFormed(ops)
    BY DEF IInv, TypeOK
  <1>2. CASE NewComposite
    <2>1. PICK v \in {Own, Held(op.a)} :
          /\ pc \in DOMAIN ops /\ op.o = "NewComposite" /\ Len(stack) >= op.a
          /\ op.b # 1 => v = Own
          /\ Moves(pc + 1, Append(Without(op.a), v)) /\ locals' = locals
      BY <1>2 DEF NewComposite, Runs
    <2>2. op.a \in Nat /\ op.a <= Len(stack)
      BY <2>1, <1>1, CodeType, WithoutNone DEF OperandsInRange, op
    <2>3. CASE Packs(op)
      BY <2>1, <2>2, <2>3, Consumes DEF Packs
    <2>4. CASE ~Packs(op)
      <3>1. ~Meets(op)
        BY <2>1, <2>4 DEF Meets
      <3>2. v = Own
        BY <2>1, <2>2, <3>1, HeldNone
      <3> QED BY <2>1, <2>2, <3>1, <3>2, Consumes
    <2> QED BY <2>3, <2>4
  <1>3. CASE Boxed
    <2>1. /\ pc \in DOMAIN ops /\ op.o = "Boxed" /\ Len(stack) >= op.a
          /\ Moves(pc + 1, Append(Without(op.a), Held(op.a))) /\ locals' = locals
      BY <1>3 DEF Boxed, Runs
    <2>2. op.a \in Nat /\ op.a <= Len(stack) /\ ~Meets(op)
      BY <2>1, <1>1, CodeType, WithoutNone DEF OperandsInRange, Meets, op
    <2>3. Held(op.a) = Own
      BY <2>1, <2>2, HeldNone
    <2> QED BY <2>1, <2>2, <2>3, Consumes DEF Meets
  <1>4. CASE Element
    <2>1. PICK v \in SUBSET stack[Len(stack) - op.a + 1] :
          /\ pc \in DOMAIN ops /\ op.o = "Element" /\ Len(stack) >= op.a
          /\ Moves(pc + 1, Append(Without(op.a), v)) /\ locals' = locals
      BY <1>4 DEF Element, Runs
    <2>2. op.a \in {1, 2} /\ Len(stack) \in Nat /\ ~Meets(op)
      BY <2>1, <1>1, CodeType, WithoutNone DEF OperandsInRange, Meets, op
    <2>3. Len(stack) - op.a + 1 \in Len(stack) - op.a + 1 .. Len(stack)
      BY <2>1, <2>2
    <2>4. stack[Len(stack) - op.a + 1] = Own
      BY <2>1, <2>2, <2>3, HeldNone
    <2>5. v = Own
      BY <2>4 DEF Own
    <2>6. op.a \in Nat /\ op.a <= Len(stack)
      BY <2>1, <2>2
    <2> QED BY <2>1, <2>2, <2>5, <2>6, Consumes DEF Meets
  <1> QED BY <1>2, <1>3, <1>4

LEMMA DropStep ==
    ASSUME IInv, PopN \/ Branch \/ Jump \/ Marker PROVE IInv'
  <1>1. CASE PopN
    <2>1. /\ pc \in DOMAIN ops /\ op.o = "PopN" /\ Len(stack) >= op.a
          /\ Moves(pc + 1, Without(op.a)) /\ locals' = locals
      BY <1>1 DEF PopN, Runs
    <2>2. op.a \in Nat
      BY <2>1, CodeType DEF IInv, TypeOK, OperandsInRange, op
    <2>3. op.a <= Len(stack) /\ ~Meets(op)
      BY <2>1, <2>2, WithoutNone DEF Meets
    <2> QED BY <2>1, <2>2, <2>3, Drops, StraightOn
  <1>2. CASE Branch
    <2>1. PICK t \in {pc + 1, op.a} :
             /\ pc \in DOMAIN ops /\ op.o \in {"If", "BreakIf"} /\ Len(stack) >= 1
             /\ Moves(t, Without(1)) /\ locals' = locals
      BY <1>2 DEF Branch, Runs
    <2>2. Flows(t) /\ ~Meets(op) /\ 1 <= Len(stack)
      BY <2>1, WithoutNone DEF Flows, Meets, Jumps
    <2> QED BY <2>1, <2>2, Drops
  <1>3. CASE Jump
    <2>1. /\ pc \in DOMAIN ops /\ op.o \in {"Else", "Break", "EndLoop"}
          /\ 0 <= Len(stack) /\ Moves(op.a, Without(0)) /\ locals' = locals
      BY <1>3, WithoutNone DEF Jump, Runs
    <2>2. Flows(op.a) /\ ~Meets(op)
      BY <2>1 DEF Flows, Meets, Jumps
    <2> QED BY <2>1, <2>2, Drops
  <1>4. CASE Marker
    <2>1. /\ pc \in DOMAIN ops /\ op.o \in {"EndIf", "Loop", "Stream"}
          /\ 0 <= Len(stack) /\ Moves(pc + 1, Without(0)) /\ locals' = locals
      BY <1>4, WithoutNone DEF Marker, Runs
    <2>2. ~Meets(op)
      BY <2>1 DEF Meets
    <2> QED BY <2>1, <2>2, Drops, StraightOn
  <1> QED BY <1>1, <1>2, <1>3, <1>4

LEMMA DupStep ==
    ASSUME IInv, Dup PROVE IInv'
  <1>1. /\ pc \in DOMAIN ops /\ op.o = "Dup" /\ 1 <= Len(stack)
        /\ Moves(pc + 1, Append(stack, Top)) /\ locals' = locals
    BY WithoutNone DEF Dup, Runs
  <1>2. Without(0) = stack /\ stack \in Seq(Values) /\ AllOwn(Without(0))
    BY <1>1, WithoutNone, NoHandleBelow DEF Meets, IInv, TypeOK
  <1>3. Top = Own
    BY <1>1, <1>2 DEF AllOwn, Top
  <1>4. Moves(pc + 1, Append(Without(0), Own))
    BY <1>1, <1>2, <1>3
  <1>5. 0 <= Len(stack) /\ ~Meets(op)
    BY <1>1, WithoutNone DEF Meets
  <1> QED BY <1>1, <1>4, <1>5, Consumes DEF Meets

\* The binding: a handle that reaches it was read for it and is unchanged.
LEMMA SetLocalStep ==
    ASSUME IInv, SetLocal PROVE IInv'
  <1>1. /\ pc \in DOMAIN ops /\ op.o = "SetLocal" /\ 1 <= Len(stack)
        /\ ops' = ops /\ copies' = copies /\ pc' = pc + 1 /\ Flows(pc')
        /\ stack' = Without(1) /\ locals' = [locals EXCEPT ![op.a] = Top]
    BY WithoutNone, StraightOn DEF SetLocal, Runs, Moves
  <1>2. /\ WellFormed(ops) /\ locals \in [Locals -> Values]
        /\ stack \in Seq(Values) /\ op.a \in Locals
    BY <1>1, CodeType DEF IInv, TypeOK, OperandsInRange, op
  <1>3. Without(1) \in Seq(Values) /\ AllOwn(Without(1))
    BY <1>1, NoHandleBelow
  <1>4. stack' \in Seq(Values) /\ StackTracked'
    BY <1>1, <1>3, OwnTracked DEF AllOwn
  <1>5. Top \in Values /\ Len(stack) \in DOMAIN stack
    BY <1>1, <1>2 DEF Top
  <1>6. locals' \in [Locals -> Values]
    BY <1>1, <1>2, <1>5
  <1>7. ASSUME NEW h \in Top PROVE InLocal(ops, pc', op.a, h)
    <2>1. InFlight(ops, pc, h)
      BY <1>5, <1>7 DEF IInv, StackTracked, Top
    <2>2. PICK p \in DOMAIN ops : h.at \in Covered(ops[p]) /\ Binds(ops, p, pc)
      BY <1>1, <1>2, <2>1, FlightEnds DEF is_view, is_dead_end, op
    <2>3. ~h.changed
      BY <2>1 DEF InFlight
    <2> QED BY <2>2, <2>3, <1>1 DEF InLocal, op
  <1>8. ASSUME NEW k \in Locals, k # op.a, NEW h \in locals[k]
        PROVE  InLocal(ops, pc', k, h)
    <2>1. InLocal(ops, pc, k, h)
      BY <1>8 DEF IInv, LocalsTracked
    <2> QED BY <2>1, <1>1, <1>2, <1>8, StaysInLocal
  <1>9. ASSUME NEW k \in Locals, NEW h \in locals'[k] PROVE InLocal(ops, pc', k, h)
    <2>1. locals'[k] = IF k = op.a THEN Top ELSE locals[k]
      BY <1>1, <1>2
    <2> QED BY <2>1, <1>7, <1>8, <1>9
  <1>10. LocalsTracked'
    BY <1>1, <1>9 DEF LocalsTracked
  <1> QED BY <1>1, <1>4, <1>6, <1>10, Carries

\* A use: control is inside the interval, so the handle is unchanged.
LEMMA GetLocalStep ==
    ASSUME IInv, GetLocal PROVE IInv'
  <1> DEFINE v == locals[op.a]
  <1>1. /\ pc \in DOMAIN ops /\ op.o = "GetLocal" /\ ~Meets(op)
        /\ 0 <= Len(stack) /\ ops' = ops /\ copies' = copies
        /\ pc' = pc + 1 /\ Flows(pc') /\ locals' = locals
        /\ stack' = Append(Without(0), v)
    BY WithoutNone, StraightOn DEF GetLocal, Runs, Moves, Meets
  <1>2. /\ WellFormed(ops) /\ UncopiedReadsPack(ops)
        /\ op.a \in Locals /\ v \in Values
    BY <1>1, CodeType DEF IInv, TypeOK, OperandsInRange, op
  <1>3. Without(0) \in Seq(Values) /\ AllOwn(Without(0))
    BY <1>1, NoHandleBelow DEF Meets
  <1>4. ASSUME NEW h \in v PROVE InFlight(ops, pc + 1, h)
    <2>1. PICK p \in DOMAIN ops, def \in DOMAIN ops :
              /\ Binds(ops, p, def)
              /\ ops[def].a = op.a
              /\ h.at \in Covered(ops[p])
              /\ h.changed => Outside(ops, pc, def)
      BY <1>2, <1>4 DEF IInv, LocalsTracked, InLocal
    <2>2. ~Outside(ops, pc, def) /\ DeadEnds(ops, pc + 1, ops[p])
      BY <2>1, <1>1, <1>2, UseInside DEF Is, op
    <2>3. pc \in Uses(ops, ops[def].a)
      BY <2>1, <1>1 DEF Uses, Is, op
    <2> QED BY <2>1, <2>2, <2>3, <1>1, <1>2, UseFlight
  <1>5. StackTracked' /\ stack' \in Seq(Values)
    BY <1>1, <1>2, <1>3, <1>4, PushTracked
  <1>6. locals' \in [Locals -> Values] /\ LocalsTracked'
    BY <1>1, LocalsUnchanged DEF Meets
  <1> QED BY <1>1, <1>5, <1>6, Carries

\* A write, by the chunk itself, a callee or whoever runs meanwhile.
LEMMA WriteStep ==
    ASSUME IInv, SetData \/ SetDataIndexed \/ Call PROVE IInv'
  <1>1. WellFormed(ops)
    BY DEF IInv, TypeOK
  <1>2. CASE SetData
    <2>1. /\ pc \in DOMAIN ops /\ op.o = "SetData" /\ 1 <= Len(stack)
          /\ ops' = ops /\ copies' = copies /\ Flows(pc')
          /\ stack' = Seen(Without(1), {op.a}) /\ locals' = Seen(locals, {op.a})
      BY <1>2, WithoutNone, StraightOn DEF SetData, Runs, Moves
    <2>2. op.a \in Covered(op) /\ {op.a} \in SUBSET Slots
      BY <2>1, <1>1, CodeType DEF OperandsInRange, Covered, op
    <2>3. Without(1) \in Seq(Values) /\ AllOwn(Without(1))
      BY <2>1, NoHandleBelow
    <2>4. stack' \in Seq(Values) /\ AllOwn(stack)'
      BY <2>1, <2>2, <2>3, OwnSeen DEF AllOwn
    <2>5. locals' \in [Locals -> Values] /\ LocalsTracked'
      BY <2>1, <2>2, LocalsKept
    <2> QED BY <2>1, <2>4, <2>5, OwnTracked, Carries
  <1>3. CASE SetDataIndexed
    <2>1. PICK w \in {{}} \cup {{s} : s \in Covered(op)} :
          /\ pc \in DOMAIN ops /\ op.o = "SetDataIndexed" /\ 2 <= Len(stack)
          /\ ops' = ops /\ copies' = copies /\ Flows(pc')
          /\ stack' = Append(Seen(Without(2), w), Own) /\ locals' = Seen(locals, w)
      BY <1>3, WithoutNone, StraightOn DEF SetDataIndexed, Runs, Moves
    <2>2. w \subseteq Covered(op) /\ w \in SUBSET Slots
      BY <2>1, <1>1, CodeType DEF OperandsInRange, op
    <2>3. Without(2) \in Seq(Values) /\ AllOwn(Without(2))
      BY <2>1, NoHandleBelow
    <2>4. Seen(Without(2), w) \in Seq(Values) /\ AllOwn(Seen(Without(2), w))
      BY <2>2, <2>3, OwnSeen
    <2>5. stack' \in Seq(Values) /\ StackTracked'
      BY <2>1, <2>4, OwnFacts, PushTracked
    <2>6. locals' \in [Locals -> Values] /\ LocalsTracked'
      BY <2>1, <2>2, LocalsKept
    <2> QED BY <2>1, <2>5, <2>6, Carries
  <1>4. CASE Call
    <2> DEFINE n == IF op.o = "Yield" THEN 1 ELSE op.a
    <2>1. PICK w \in SUBSET Slots :
          /\ pc \in DOMAIN ops /\ op.o \in {"Call", "Yield"} /\ Len(stack) >= n
          /\ ops' = ops /\ copies' = copies /\ Flows(pc')
          /\ stack' = Append(Seen(Without(n), w), Own) /\ locals' = Seen(locals, w)
      BY <1>4, StraightOn DEF Call, Runs, Moves
    <2>2. n \in Nat
      BY <2>1, <1>1, CodeType DEF OperandsInRange, op
    <2> HIDE DEF n
    <2>3. n <= Len(stack) /\ ~Meets(op)
      BY <2>1, <2>2, WithoutNone DEF Meets
    <2>4. Without(n) \in Seq(Values) /\ AllOwn(Without(n))
      BY <2>1, <2>2, <2>3, NoHandleBelow DEF Meets
    <2>5. Seen(Without(n), w) \in Seq(Values) /\ AllOwn(Seen(Without(n), w))
      BY <2>4, OwnSeen
    <2>6. stack' \in Seq(Values) /\ StackTracked'
      BY <2>1, <2>5, OwnFacts, PushTracked
    <2>7. locals' \in [Locals -> Values] /\ LocalsTracked'
      BY <2>1, LocalsKept
    <2> QED BY <2>1, <2>6, <2>7, Carries
  <1> QED BY <1>2, <1>3, <1>4

\* A frame that starts afresh holds no handle.
LEMMA FreshFrame ==
    ASSUME WellFormed(ops'), UncopiedReadsPack(ops'), copies' = plan(ops'),
           pc' \in Nat, stack' = <<>>, locals' = [k \in Locals |-> Own]
    PROVE  IInv'
  <1>1. stack' \in Seq(Values) /\ StackTracked'
    BY DEF StackTracked
  <1>2. locals' \in [Locals -> Values] /\ LocalsTracked'
    BY OwnFacts DEF LocalsTracked
  <1> QED BY <1>1, <1>2 DEF IInv, TypeOK

LEMMA RestartStep ==
    ASSUME IInv, Reset \/ Return PROVE IInv'
  <1>1. WellFormed(ops) /\ UncopiedReadsPack(ops) /\ copies = plan(ops)
    BY DEF IInv, TypeOK
  <1>2. ops' = ops /\ copies' = copies /\ stack' = <<>> /\ locals' = [k \in Locals |-> Own]
    BY DEF Reset, Return, Moves
  <1>3. pc' \in Nat
    <2>1. CASE Reset
      BY <2>1, <1>1, CodeType DEF Reset, Moves
    <2>2. CASE Return
      BY <2>2 DEF Return, Moves
    <2> QED BY <2>1, <2>2
  <1> QED BY <1>1, <1>2, <1>3, FreshFrame

\* The handles stay tracked in every reachable state (read_data_slot,
\* write_data_slot and the plan of alias_copy.rs), for every chunk in which the
\* composite that ends an uncopied read packs it.
THEOREM HandlesTrackedTheorem ==
    ASSUME \A c \in Chunks : UncopiedReadsPack(c)
    PROVE  Spec => []IInv
  <1>1. Init => IInv
    <2> SUFFICES ASSUME Init PROVE IInv
      OBVIOUS
    <2>1. WellFormed(ops) /\ UncopiedReadsPack(ops) /\ copies = plan(ops)
      BY AliasCopyAssumption DEF Init
    <2>2. pc \in Nat /\ stack \in Seq(Values) /\ StackTracked
      BY DEF Init, StackTracked
    <2>3. locals \in [Locals -> Values] /\ LocalsTracked
      BY OwnFacts DEF Init, LocalsTracked
    <2> QED BY <2>1, <2>2, <2>3 DEF IInv, TypeOK
  <1>2. IInv /\ [Next]_vars => IInv'
    <2> SUFFICES ASSUME IInv, [Next]_vars PROVE IInv'
      OBVIOUS
    <2>1. CASE UNCHANGED vars
      BY <2>1 DEF vars, IInv, TypeOK, StackTracked, LocalsTracked
    <2>2. CASE Next
      BY <2>2, ReadStep, ViewStep, BuildStep, DropStep, DupStep, SetLocalStep,
         GetLocalStep, CompositeStep, WriteStep, RestartStep DEF Next
    <2> QED BY <2>1, <2>2
  <1> QED BY <1>1, <1>2, PTL DEF Spec

\* A private composite read is a value: whatever is written between a read
\* and a use, by the chunk, its callees or others, the use sees the body that
\* was read, and no handle leaves the chunk.  The hypothesis excludes those for
\* which the rule is wrong, in which an uncopied read ends in an empty
\* composite, or in a tuple or array that may box its elements.
THEOREM ReadsAreValuesTheorem ==
    ASSUME \A c \in Chunks : UncopiedReadsPack(c)
    PROVE  Spec => []ReadsAreValues
  <1>1. IInv => ReadsAreValues
    <2> SUFFICES ASSUME IInv, pc \in DOMAIN ops, NEW j \in DOMAIN stack,
                        j > Len(stack) - Consumed(op), NEW h \in stack[j]
                 PROVE  ~h.changed /\ op.o \notin Hands
      BY DEF ReadsAreValues, Own
    <2>1. InFlight(ops, pc, h)
      BY DEF IInv, StackTracked
    <2>2. ~h.changed
      BY <2>1 DEF InFlight
    <2>3. ASSUME op.o \in Hands PROVE FALSE
      <3>1. WellFormed(ops) /\ ~is_view(ops[pc])
        BY <2>3 DEF IInv, TypeOK, is_view, op, Hands
      <3>2. \E p \in DOMAIN ops : is_dead_end(op, ops[p]) \/ Binds(ops, p, pc)
        BY <2>1, <3>1, FlightEnds DEF op
      <3> QED BY <2>3, <3>2 DEF is_dead_end, Binds, Hands, op
    <2> QED BY <2>2, <2>3
  <1>2. Spec => []IInv
    BY HandlesTrackedTheorem
  <1> QED BY <1>1, <1>2, PTL
=============================================================================
