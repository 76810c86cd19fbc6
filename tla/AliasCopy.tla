----------------------------- MODULE AliasCopy ------------------------------
(***************************************************************************)
(* Private composite reads.  A read of a private data slot pushes a handle *)
(* into the persistent pool (vm.rs, read_data_slot) and a later write of   *)
(* that slot copies the new body over the old one in place (vm.rs,         *)
(* persist_composite_body), so a value read earlier would change under its *)
(* reader.  The compiler therefore decides, over the instructions of one   *)
(* chunk, which reads to copy (compiler/alias_copy.rs).  This module runs  *)
(* the chunk with the copies of that plan, one instruction per step.       *)
(*                                                                         *)
(* An instruction is a record: o is the opcode, a and b are its operands   *)
(* (a slot and a slot count, a local, a target, a number of operands).  A  *)
(* value is the set of handles it holds, each the slot it refers to and    *)
(* whether that slot's body was written since it was read: a flat value    *)
(* read from a slot holds one, a boxed composite those of its elements,    *)
(* every other value none.  Calls stand for Call, CallVerifiedNative and   *)
(* CallExternalNative, Element for a field of a boxed composite and an     *)
(* element of an array, Other for every instruction that pushes a scalar   *)
(* (a comparison, an operator).                                            *)
(*                                                                         *)
(* NewComposite stands for the operand form Flat.  Its b is 1 for the      *)
(* literal of a tuple or array whose elements may have no flat form or be  *)
(* too large for one: the machine decides at run time whether it packs     *)
(* their bytes or boxes them, and a box keeps their handles.  Boxed is the *)
(* form that always boxes.                                                 *)
(***************************************************************************)
EXTENDS Integers, Sequences, FiniteSets

CONSTANTS
    Chunks,        \* the chunks a module may hold, sequences of instructions
    Slots,         \* private slots that hold a composite
    Locals,        \* local slots of a frame
    MAX_VIEWS,     \* the most views followed from one value
    MAX_OPEN_LOOPS \* the most open loops the local rule follows

Reads == {"GetData", "GetDataIndexed"}
Jumps == {"If", "Else", "Break", "BreakIf"}
Hands == {"Call", "Yield", "Return"}
Opcodes ==
    Reads \cup Jumps \cup Hands
    \cup {"View", "Flat", "NewComposite", "Boxed", "Element", "SetData",
          "SetDataIndexed", "SetLocal", "GetLocal", "Dup", "Const", "Other",
          "PopN", "EndIf", "Loop", "EndLoop", "Stream", "Reset"}

\* The data slots an instruction covers: one, or an array of them.
Covered(op) == op.a .. op.a + op.b - 1

\* What the structural verifier and the lowering guarantee of a chunk: jumps
\* go forward, loops close and nest, operands are in range.
JumpsForward(ops, i) ==
    ops[i].o \in Jumps => ops[i].a \in i + 1 .. Len(ops)
LoopsNest(ops, i) ==
    /\ ops[i].o = "Loop" =>
          /\ ops[i].a \in i + 2 .. Len(ops)
          /\ ops[ops[i].a - 1].o = "EndLoop"
          /\ \A j \in DOMAIN ops :
                ops[j].o = "Loop" /\ i < j /\ j < ops[i].a => ops[j].a < ops[i].a
    /\ ops[i].o = "EndLoop" =>
          /\ ops[i].a \in 2 .. i
          /\ ops[ops[i].a - 1].o = "Loop"
          /\ ops[ops[i].a - 1].a = i + 1
OperandsInRange(ops, i) ==
    /\ ops[i].o \in Reads \cup {"SetData", "SetDataIndexed"} =>
          Covered(ops[i]) \subseteq Slots
    /\ ops[i].o \in {"GetData", "SetData"} => ops[i].b = 1
    /\ ops[i].o \in {"GetLocal", "SetLocal"} => ops[i].a \in Locals
    /\ ops[i].o \in {"NewComposite", "Boxed", "Call", "Other", "PopN"} =>
          ops[i].a \in Nat
    /\ ops[i].o = "NewComposite" => ops[i].b \in {0, 1}
    /\ ops[i].o = "Element" => ops[i].a \in {1, 2}
    /\ ops[i].o = "Reset" => \E j \in 1 .. i : ops[j].o = "Stream"

WellFormed(ops) ==
    /\ ops \in Seq([o : Opcodes, a : Int, b : Int])
    /\ \A i \in DOMAIN ops :
          JumpsForward(ops, i) /\ LoopsNest(ops, i) /\ OperandsInRange(ops, i)

ASSUME AliasCopyAssumption ==
    /\ \A c \in Chunks : WellFormed(c)
    /\ Slots \subseteq Nat
    /\ MAX_VIEWS \in Nat /\ MAX_OPEN_LOOPS \in Nat

-----------------------------------------------------------------------------
(***************************************************************************)
(* The rule.  A read is named by its position; read.at is the position     *)
(* after it and read.lo .. read.hi - 1 are the slots it covers.            *)
(***************************************************************************)
is_view(op) == op.o = "View"

\* The position, at or after from, where the views end or the limit is met:
\* a set of one element.
skip_views(ops, from) ==
    {q \in from .. from + MAX_VIEWS :
        /\ \A j \in from .. q - 1 : j \in DOMAIN ops /\ is_view(ops[j])
        /\ \/ q = from + MAX_VIEWS
           \/ ~(q \in DOMAIN ops /\ is_view(ops[q]))}

is_dead_end(op, read) ==
    \/ op.o \in {"Flat", "NewComposite"}
    \/ op.o = "SetData" /\ op.a \notin Covered(read)

is_hazard(op, read) ==
    \/ /\ op.o \in {"SetData", "SetDataIndexed"}
       /\ Covered(op) \cap Covered(read) # {}
    \/ op.o \in {"Call", "Yield"}

\* A value reaches a dead end from position from, through views only.
DeadEnds(ops, from, read) ==
    \E q \in skip_views(ops, from) : q \in DOMAIN ops /\ is_dead_end(ops[q], read)

Is(op, o, a) == op.o = o /\ op.a = a
Uses(ops, k) == {i \in DOMAIN ops : Is(ops[i], "GetLocal", k)}
\* Loops that began after def and are open at i.
Open(ops, def, i) ==
    {j \in DOMAIN ops : j > def /\ j < i /\ ops[j].o = "Loop" /\ ops[j].a > i}

\* How far the local has to keep its value: `last` is the largest of these.
Ends_without_loops(ops, def, k) ==
    {def} \cup UNION {skip_views(ops, i + 1) : i \in Uses(ops, k)}
Ends(ops, def, k) ==
    {def} \cup UNION {skip_views(ops, i + 1)
                      \cup {ops[j].a - 1 : j \in Open(ops, def, i)} :
                      i \in Uses(ops, k)}

\* A jump from before the binding that lands after it and not past the last
\* use.
Skipped(ops, def, k) ==
    \E i \in DOMAIN ops, e \in Ends(ops, def, k) :
        i < def /\ ops[i].o \in Jumps /\ ops[i].a > def /\ ops[i].a <= e

local_needs_copy(ops, at, def, k) ==
    LET read == ops[at]
    IN \/ \E i \in DOMAIN ops :
             \/ i < def /\ Is(ops[i], "GetLocal", k)
             \/ i # def /\ Is(ops[i], "SetLocal", k)
             \/ i > def /\ ops[i].o = "Loop"
                /\ Cardinality(Open(ops, def, i)) >= MAX_OPEN_LOOPS
       \/ \E i \in Uses(ops, k) : ~DeadEnds(ops, i + 1, read)
       \/ Skipped(ops, def, k)
       \/ \E h \in DOMAIN ops, e \in Ends(ops, def, k) :
             at < h /\ h <= e /\ is_hazard(ops[h], read)

needs_copy(ops, at) ==
    ~ \E q \in skip_views(ops, at + 1) :
        /\ q \in DOMAIN ops
        /\ \/ is_dead_end(ops[q], ops[at])
           \/ ops[q].o = "SetLocal" /\ ~local_needs_copy(ops, at, q, ops[q].a)

\* The reads of the chunk that the second compile copies.
plan(ops) == {i \in DOMAIN ops : ops[i].o \in Reads /\ needs_copy(ops, i)}

-----------------------------------------------------------------------------
VARIABLES
    ops,    \* the chunk that runs
    copies, \* the reads of it that are copied
    pc,     \* the next instruction
    stack,  \* operands
    locals  \* local slots

vars == <<ops, copies, pc, stack, locals>>

Own == {}
Handle(slot) == [at |-> slot, changed |-> FALSE]

Init ==
    /\ ops \in Chunks
    /\ copies = plan(ops)
    /\ pc = 1
    /\ stack = <<>>
    /\ locals = [k \in Locals |-> Own]

op == ops[pc]
Runs(opcodes, n) == pc \in DOMAIN ops /\ op.o \in opcodes /\ Len(stack) >= n
Top == stack[Len(stack)]
Without(n) == SubSeq(stack, 1, Len(stack) - n)
\* The handles of the top n operands.
Held(n) == UNION {stack[j] : j \in Len(stack) - n + 1 .. Len(stack)}

\* A write of slots w, seen by the handles of the values in f.
Seen(f, w) ==
    [i \in DOMAIN f |->
        {[at |-> h.at, changed |-> h.changed \/ h.at \in w] : h \in f[i]}]

Moves(target, operands) ==
    /\ pc' = target
    /\ stack' = operands
    /\ UNCHANGED <<ops, copies>>

\* A read: the slot's handle, or a copy of its body.  An indexed read pops
\* its index first; an index out of range traps.
ReadOf(n) ==
    /\ \E s \in Covered(op) :
          Moves(pc + 1,
                Append(Without(n), IF pc \in copies THEN Own ELSE {Handle(s)}))
    /\ UNCHANGED locals
GetData == Runs({"GetData"}, 0) /\ ReadOf(0)
GetDataIndexed == Runs({"GetDataIndexed"}, 1) /\ ReadOf(1)

\* A nested field of a flat body is a handle into the same body.
View == Runs({"View"}, 1) /\ Moves(pc + 1, stack) /\ UNCHANGED locals

\* A scalar field is read out of the body.
Flat ==
    /\ Runs({"Flat"}, 1)
    /\ Moves(pc + 1, Append(Without(1), Own))
    /\ UNCHANGED locals

\* The elements' bytes are packed into a new body, or the elements are boxed.
NewComposite ==
    /\ Runs({"NewComposite"}, op.a)
    /\ \E v \in IF op.b = 1 THEN {Own, Held(op.a)} ELSE {Own} :
          Moves(pc + 1, Append(Without(op.a), v))
    /\ UNCHANGED locals

Boxed ==
    /\ Runs({"Boxed"}, op.a)
    /\ Moves(pc + 1, Append(Without(op.a), Held(op.a)))
    /\ UNCHANGED locals

\* One element of a composite holds some of its handles.  An array's index is
\* the operand above it; out of range the access traps.
Element ==
    /\ Runs({"Element"}, op.a)
    /\ \E v \in SUBSET stack[Len(stack) - op.a + 1] :
          Moves(pc + 1, Append(Without(op.a), v))
    /\ UNCHANGED locals

Other ==
    /\ Runs({"Other"}, op.a)
    /\ Moves(pc + 1, Append(Without(op.a), Own))
    /\ UNCHANGED locals

Push == Runs({"Const"}, 0) /\ Moves(pc + 1, Append(stack, Own)) /\ UNCHANGED locals
Dup == Runs({"Dup"}, 1) /\ Moves(pc + 1, Append(stack, Top)) /\ UNCHANGED locals
PopN == Runs({"PopN"}, op.a) /\ Moves(pc + 1, Without(op.a)) /\ UNCHANGED locals

SetLocal ==
    /\ Runs({"SetLocal"}, 1)
    /\ Moves(pc + 1, Without(1))
    /\ locals' = [locals EXCEPT ![op.a] = Top]

GetLocal ==
    /\ Runs({"GetLocal"}, 0)
    /\ Moves(pc + 1, Append(stack, locals[op.a]))
    /\ UNCHANGED locals

\* The value's bytes are copied into the slot's body.
SetData ==
    /\ Runs({"SetData"}, 1)
    /\ Moves(pc + 1, Seen(Without(1), {op.a}))
    /\ locals' = Seen(locals, {op.a})

\* The index lies above the value; out of range nothing is written.  The
\* outcome words are one operand.
SetDataIndexed ==
    /\ Runs({"SetDataIndexed"}, 2)
    /\ \E w \in {{}} \cup {{s} : s \in Covered(op)} :
          /\ Moves(pc + 1, Append(Seen(Without(2), w), Own))
          /\ locals' = Seen(locals, w)

\* A callee, or whoever runs while the chunk is suspended, may write any slot.
Call ==
    /\ Runs({"Call", "Yield"}, IF op.o = "Yield" THEN 1 ELSE op.a)
    /\ \E w \in SUBSET Slots :
          /\ Moves(pc + 1,
                   Append(Seen(Without(IF op.o = "Yield" THEN 1 ELSE op.a), w), Own))
          /\ locals' = Seen(locals, w)

Branch ==
    /\ Runs({"If", "BreakIf"}, 1)
    /\ \E target \in {pc + 1, op.a} : Moves(target, Without(1))
    /\ UNCHANGED locals

Jump ==
    /\ Runs({"Else", "Break", "EndLoop"}, 0)
    /\ Moves(op.a, stack)
    /\ UNCHANGED locals

Marker ==
    /\ Runs({"EndIf", "Loop", "Stream"}, 0)
    /\ Moves(pc + 1, stack)
    /\ UNCHANGED locals

\* Reset clears the locals and restarts after Stream; a return ends the frame
\* and the next call starts with fresh ones.
Reset ==
    /\ Runs({"Reset"}, 0)
    /\ \E j \in DOMAIN ops : ops[j].o = "Stream" /\ Moves(j + 1, <<>>)
    /\ locals' = [k \in Locals |-> Own]

Return ==
    /\ Runs({"Return"}, 1)
    /\ Moves(1, <<>>)
    /\ locals' = [k \in Locals |-> Own]

Next ==
    \/ GetData \/ GetDataIndexed \/ View \/ Flat
    \/ NewComposite \/ Boxed \/ Element \/ Other
    \/ Push \/ Dup \/ PopN \/ SetLocal \/ GetLocal
    \/ SetData \/ SetDataIndexed \/ Call
    \/ Branch \/ Jump \/ Marker \/ Reset \/ Return

Spec == Init /\ [][Next]_vars

-----------------------------------------------------------------------------
Values == SUBSET [at : Slots, changed : BOOLEAN]

\* Operands an instruction looks into or hands on; PopN only drops them.
Consumed(i) ==
    CASE i.o \in {"Flat", "SetData", "Yield", "Return"} -> 1
      [] i.o = "SetDataIndexed" -> 2
      [] i.o \in {"NewComposite", "Boxed", "Element", "Call", "Other"} -> i.a
      [] OTHER -> 0

\* A private composite read is a value: whoever consumes it sees the body as
\* it was when it was read, whatever the chunk, its callees and the code that
\* runs while it is suspended wrote in between; and what leaves the chunk (an
\* argument, a yielded or returned value) holds no handle.
ReadsAreValues ==
    pc \in DOMAIN ops =>
        \A j \in DOMAIN stack :
            j > Len(stack) - Consumed(op) =>
                /\ \A h \in stack[j] : ~h.changed
                /\ op.o \in Hands => stack[j] = Own

\* The condition under which the rule is right to end a life at a NewComposite:
\* one that ends the life of an uncopied read has an element and packs.
\* is_dead_end asks neither, so the compiler does not guarantee it: an empty
\* literal above the handle leaves it on the stack, and a tuple or array that
\* boxes its elements keeps it.
Packs(i) == i.o = "NewComposite" => i.a > 0 /\ i.b = 0
UncopiedReadsPack(code) ==
    \A p \in {p \in DOMAIN code : code[p].o \in Reads /\ p \notin plan(code)} :
        \A i \in {p} \cup UNION {Uses(code, code[def].a) :
                               def \in {d \in skip_views(code, p + 1) \cap DOMAIN code :
                                       code[d].o = "SetLocal"}} :
            \A q \in skip_views(code, i + 1) \cap DOMAIN code : Packs(code[q])
=============================================================================
