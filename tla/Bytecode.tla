------------------------------ MODULE Bytecode ------------------------------
(***************************************************************************)
(* The instructions that the verifier of src/src/verify.rs and the         *)
(* dispatch loop of src/src/vm.rs share: structured control flow, calls,   *)
(* yields, locals, the arithmetic of a counted loop and the construction   *)
(* of composites.  An instruction is a record: o is the opcode, a its      *)
(* operand (a target, a slot, a literal, a count, a callee, a native) and  *)
(* b its second operand (an argument count, a body size in bytes).         *)
(* Instruction positions start at 0, as in the source, and a chunk is its  *)
(* block type, its instructions and the sizes of its frame.  A module is a *)
(* sequence of chunks and Call's operand an index into it.                 *)
(***************************************************************************)
EXTENDS Integers, Sequences, SequencesExt

CONSTANT NativeBounds  \* per native [wcet, wcmu, max]: the host's attestations

ASSUME NativeAssumption ==
    \A i \in DOMAIN NativeBounds :
        NativeBounds[i] \in [wcet : Nat, wcmu : Nat, max : Nat \cup {-1}]

Op(o, a, b) == [o |-> o, a |-> a, b |-> b]
Nullary(o) == Op(o, 0, 0)
Unary(o, a) == Op(o, a, 0)

Chunk(kind, ops, params, locals) ==
    [kind |-> kind, ops |-> ops, params |-> params, locals |-> locals]

\* The instruction at ip; ch.ops is a sequence, positions are 0-based.
At(ch, ip) == ch.ops[ip + 1]
Size(ch) == Len(ch.ops)
Positions(ch) == 0 .. Size(ch) - 1
PositionsOf(ch, o) == {ip \in Positions(ch) : At(ch, ip).o = o}
Has(ch, o) == PositionsOf(ch, o) # {}
FirstOf(ch, o) == Min(PositionsOf(ch, o))

\* Native calls, always the reified form the compiler emits: they push the
\* value (or the error code) and, above it, the failure flag.
Natives == {"CallVerifiedNative", "CallExternalNative"}

\* Instructions that only move values between the frame's slots, the operands
\* and the data segment.
Straight == {"Const", "PushImmediate", "GetLocal", "SetLocal", "GetData",
             "CmpGe", "CmpEq", "CheckedAdd", "PopN", "NewComposite"}
Opcodes == Straight \cup Natives
           \cup {"If", "Else", "EndIf", "Loop", "EndLoop", "Break", "BreakIf",
                 "Stream", "Reset", "Yield", "Call", "Return", "Trap"}

\* What the decoder delivers; of the immediates only Unit, true and false.
Instruction == {op \in [o : Opcodes, a : Nat, b : Nat] :
                    op.o = "PushImmediate" => op.a <= 2}
Chunks == [kind : {"Func", "Reentrant", "Stream"}, ops : Seq(Instruction),
           params : Nat, locals : Nat]

Callees(ch) == {At(ch, ip).a : ip \in PositionsOf(ch, "Call")}

(***************************************************************************)
(* The cost model: pipelined cycles and arena bytes of one instruction.    *)
(***************************************************************************)
nominal_op_cycles(op) ==
    CASE op.o \in {"CmpGe", "CmpEq", "CheckedAdd", "Return"} -> 2
      [] op.o = "NewComposite" -> 5
      [] op.o \in Natives \cup {"Call"} -> 10
      [] OTHER -> 1

heap_alloc(op) == IF op.o = "NewComposite" THEN op.b ELSE 0

(***************************************************************************)
(* The operand-stack models.  growth and shrink are the peak model of the  *)
(* memory bound: the reach above the level before the instruction, and     *)
(* the subtrahend that makes growth - shrink its net.                      *)
(***************************************************************************)
stack_growth(op) ==
    CASE op.o \in Natives -> 2
      [] op.o \in {"Const", "PushImmediate", "GetLocal", "GetData",
                   "CheckedAdd", "NewComposite", "Call"} -> 1
      [] OTHER -> 0

stack_shrink(op) ==
    CASE op.o \in {"SetLocal", "CmpGe", "CmpEq", "If", "BreakIf"} -> 1
      [] op.o \in {"PopN", "NewComposite"} -> op.a
      [] op.o \in Natives \cup {"Call"} -> op.b
      [] OTHER -> 0

\* Kinds of Trap.
NoMatchingArm == 1
NoMatchingHead == 2
LoopLimitExceeded == 3
HostError == 4

\* What the handlers pop and push: operands required, and the net.
op_depth_effect(op) ==
    CASE op.o \in {"Const", "PushImmediate", "GetLocal", "GetData"} -> <<0, 1>>
      [] op.o \in {"SetLocal", "If", "BreakIf"} -> <<1, -1>>
      [] op.o \in {"CmpGe", "CmpEq"} -> <<2, -1>>
      [] op.o = "CheckedAdd" -> <<2, 1>>
      [] op.o = "Yield" -> <<1, 0>>
      [] op.o = "PopN" -> <<op.a, -op.a>>
      [] op.o = "NewComposite" -> <<op.a, 1 - op.a>>
      [] op.o = "Call" -> <<op.b, 1 - op.b>>
      [] op.o \in Natives -> <<op.b, 2 - op.b>>
      [] op.o = "Trap" /\ op.a = HostError -> <<1, -1>>
      [] OTHER -> <<0, 0>>
=============================================================================
