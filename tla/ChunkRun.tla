------------------------------ MODULE ChunkRun ------------------------------
(***************************************************************************)
(* The dispatch loop of src/src/vm.rs running an admitted module, one      *)
(* instruction per step.  The module has passed the checks of module Flow, *)
(* which say what its instructions may take for granted of the operands,   *)
(* the locals and the call stack; AttestedRun adds the other passes and    *)
(* the resource bounds that the verifier attests for the module.           *)
(*                                                                         *)
(* A value is an integer: Word constants are themselves, false and true    *)
(* are 0 and 1, Other stands for every value no property tells apart and *)
(* Empty for the Unit an unwritten slot holds.  Frames carry, beside the   *)
(* fields of CallFrame, the cycles and bytes they have used.  The guards   *)
(* by which the VM answers an instruction that lacks an operand are left   *)
(* out: FrameIsolated says that no instruction does.                       *)
(***************************************************************************)
EXTENDS Flow

CONSTANTS
    Modules,    \* modules a host may load, each a sequence of chunks
    Inputs,     \* what the host passes and resumes with
    CostCap     \* the frames' cycle counters stop here, above every bound

Other == 7
Empty == -2

ASSUME ChunkRunAssumption ==
    /\ Modules \subseteq Seq(Chunks)
    /\ Inputs \subseteq Nat \ {Other}
    /\ CostCap \in Nat

VARIABLES
    mod,      \* the loaded module
    attested, \* the bounds the verifier computed for it (here: the call depth)
    frames,   \* self.frames: chunk, ip and base, with what the frame has used
    stack,    \* self.stack: locals and operands of every frame
    status,   \* what the last run returned, or Running
    yields    \* yields since the entry or the last reset

vars == <<mod, attested, frames, stack, status, yields>>

-----------------------------------------------------------------------------
ChunkOf(f) == mod[f.chunk]
Frame == frames[Len(frames)]
Code == ChunkOf(Frame)
Next_ip == At(Code, Frame.ip)
Operands == Len(stack) - Frame.base - Code.locals
Top == stack[Len(stack)]
Pop(n) == SubSeq(stack, 1, Len(stack) - n)
Fill(n) == [i \in 1 .. n |-> Empty]

\* A machine that has run nothing yet.
Fresh == frames = <<>> /\ stack = <<>> /\ status = "Idle" /\ yields = 0

Init ==
    /\ mod \in {m \in Modules : verify_flow(m) /\ topological_call_order(m)}
    /\ attested.depth = module_call_depth(mod)
    /\ Fresh

NewFrame_Above(c, base) ==
    [chunk |-> c, ip |-> 0, base |-> base + 1, cost |-> 0, heap |-> 0,
     yielded |-> FALSE]
NewFrame(c, base) ==
    [chunk |-> c, ip |-> 0, base |-> base, cost |-> 0, heap |-> 0,
     yielded |-> FALSE]

\* call_function: the arguments and the unwritten locals, then the frame.
call_function(c) ==
    /\ status \in {"Idle", "Finished"}
    /\ \E args \in [1 .. mod[c].params -> Inputs] :
          stack' = stack \o args
                   \o Fill(mod[c].locals - mod[c].params)
    /\ frames' = Append(frames, NewFrame(c, Len(stack)))
    /\ status' = "Running"
    /\ yields' = 0
    /\ UNCHANGED <<mod, attested>>

\* The frames whose time a resume restarts: a Reentrant chunk's is per resume.
Resumed(fs) ==
    [k \in DOMAIN fs |->
        IF ChunkOf(fs[k]).kind = "Reentrant" THEN [fs[k] EXCEPT !.cost = 0]
        ELSE fs[k]]

StreamFrames == {k \in DOMAIN frames : ChunkOf(frames[k]).kind = "Stream"}

\* resume: the input goes to slot 0 of the innermost stream, and after a
\* yield it is also the value of the yield expression.
resume ==
    /\ status \in {"Yielded", "Reset"}
    /\ \E v \in Inputs :
          LET s == IF StreamFrames # {} THEN Max(StreamFrames) ELSE 1
              into == IF s \in StreamFrames /\ ChunkOf(frames[s]).params > 0
                      THEN [stack EXCEPT ![frames[s].base + 1] = v] ELSE stack
          IN stack' = IF status = "Reset" THEN into ELSE Append(into, v)
    /\ frames' = Resumed(frames)
    /\ status' = "Running"
    /\ UNCHANGED <<mod, attested, yields>>

\* reset_after_error: the host abandons a trapped run.
reset_after_error ==
    /\ status = "Error"
    /\ frames' = <<>> /\ stack' = <<>> /\ status' = "Idle"
    /\ yields' = 0
    /\ UNCHANGED <<mod, attested>>

-----------------------------------------------------------------------------
\* Dispatch of the instruction at the top frame: its cost, and where to.
Dispatching(kinds) ==
    status = "Running" /\ Next_ip.o \in kinds

Capped(n) == IF n > CostCap THEN CostCap ELSE n
Charged(to, cycles) ==
    [frames EXCEPT ![Len(frames)].ip = to,
                   ![Len(frames)].cost = Capped(@ + cycles)]
Stepped(to) == Charged(to, nominal_op_cycles(Next_ip))

\* Bytes taken from the arena's top region count for every frame of the run.
Allocated(fs, bytes) == [k \in DOMAIN fs |-> [fs[k] EXCEPT !.heap = @ + bytes]]

\* What CmpGe finds: the first operand against the second.
is_ge_Gt(x, y) == x > y
is_ge(x, y) == x >= y

\* What the instructions of Straight leave on the stack.
Result(op) ==
    CASE op.o = "Const" -> {Append(stack, op.a)}
      [] op.o = "PushImmediate" ->
            {Append(stack, <<Other, 1, 0>>[op.a + 1])}
      [] op.o = "GetLocal" -> {Append(stack, stack[Frame.base + op.a + 1])}
      [] op.o = "SetLocal" ->
            {[Pop(1) EXCEPT ![Frame.base + op.a + 1] = Top]}
      [] op.o = "GetData" -> {Append(stack, v) : v \in {0, 1}}
      [] op.o = "CmpGe" ->
            {Append(Pop(2), IF is_ge(stack[Len(stack) - 1], Top) THEN 1 ELSE 0)}
      [] op.o = "CmpEq" ->
            {Append(Pop(2), IF stack[Len(stack) - 1] = Top THEN 1 ELSE 0)}
      [] op.o = "CheckedAdd" ->
            {Pop(2) \o <<stack[Len(stack) - 1] + Top, Other, Other>>}
      [] op.o = "PopN" -> {Pop(op.a)}
      [] op.o = "NewComposite" -> {Append(Pop(op.a), Other)}

StraightOp ==
    /\ Dispatching(Straight)
    /\ stack' \in Result(Next_ip)
    /\ frames' = Allocated(Stepped(Frame.ip + 1), heap_alloc(Next_ip))
    /\ UNCHANGED <<mod, attested, status, yields>>

BranchOp ==
    /\ Dispatching({"If", "BreakIf"})
    /\ stack' = Pop(1)
    /\ frames' = Stepped(IF (Next_ip.o = "If") = (Top = 0) THEN Next_ip.a
                         ELSE Frame.ip + 1)
    /\ UNCHANGED <<mod, attested, status, yields>>

JumpOp ==
    /\ Dispatching({"Else", "EndLoop", "Break"})
    /\ frames' = Stepped(Next_ip.a)
    /\ UNCHANGED <<mod, attested, stack, status, yields>>

MarkerOp ==
    /\ Dispatching({"EndIf", "Loop", "Stream"})
    /\ frames' = Stepped(Frame.ip + 1)
    /\ UNCHANGED <<mod, attested, stack, status, yields>>

CallOp ==
    /\ Dispatching({"Call"})
    /\ LET op == Next_ip
           callee == mod[op.a]
       IN /\ stack' = stack \o Fill(callee.locals - op.b)
          /\ frames' = Append(Stepped(Frame.ip + 1),
                              NewFrame(op.a, Len(stack) - op.b))
    /\ UNCHANGED <<mod, attested, status, yields>>

\* A native runs for its attested time and allocates its attested bytes, and
\* may fail: the flag above its value says so.
NativeOp ==
    /\ Dispatching(Natives)
    /\ LET op == Next_ip
           bound == NativeBounds[op.a]
       IN /\ \E failed \in {0, 1} : stack' = Pop(op.b) \o <<Other, failed>>
          /\ frames' = Allocated(Charged(Frame.ip + 1,
                                         nominal_op_cycles(op) + bound.wcet),
                                 bound.wcmu)
    /\ UNCHANGED <<mod, attested, status, yields>>

ReturnOp ==
    /\ Dispatching({"Return"})
    /\ frames' = SubSeq(frames, 1, Len(frames) - 1)
    /\ status' = IF Len(frames) = 1 THEN "Finished" ELSE "Running"
    /\ stack' = SubSeq(stack, 1, Frame.base)
                \o IF Len(frames) = 1 THEN <<>> ELSE <<Top>>
    /\ UNCHANGED <<mod, attested, yields>>

\* Yield suspends every frame of the run.
YieldOp ==
    /\ Dispatching({"Yield"})
    /\ stack' = Pop(1)
    /\ frames' = [k \in DOMAIN frames |->
                    [Stepped(Frame.ip + 1)[k] EXCEPT !.yielded = TRUE]]
    /\ status' = "Yielded"
    /\ yields' = yields + 1
    /\ UNCHANGED <<mod, attested>>

\* Reset clears the locals of its frame, the operands above them and the
\* arena's top region, and rewinds to the instruction after Stream.
ResetOp ==
    /\ Dispatching({"Reset"})
    /\ stack' = SubSeq(stack, 1, Frame.base) \o Fill(Code.locals)
    /\ frames' = [k \in DOMAIN frames |->
                    IF k = Len(frames)
                    THEN [frames[k] EXCEPT !.ip = FirstOf(Code, "Stream") + 1,
                                           !.cost = 0, !.heap = 0,
                                           !.yielded = FALSE]
                    ELSE [frames[k] EXCEPT !.heap = 0]]
    /\ status' = "Reset"
    /\ yields' = 0
    /\ UNCHANGED <<mod, attested>>

\* A trap is an error; that of a host error takes the code with it.
TrapOp ==
    /\ Dispatching({"Trap"})
    /\ stack' = Pop(op_depth_effect(Next_ip)[1])
    /\ frames' = Stepped(Frame.ip + 1)
    /\ status' = "Error"
    /\ UNCHANGED <<mod, attested, yields>>

run == \/ StraightOp \/ BranchOp \/ JumpOp \/ MarkerOp \/ CallOp \/ NativeOp
       \/ ReturnOp \/ YieldOp \/ ResetOp \/ TrapOp

Next ==
    \/ \E c \in DOMAIN mod : call_function(c)
    \/ resume
    \/ reset_after_error
    \/ run

\* The dispatch loop keeps running; the host owes nothing.
Spec == Init /\ [][Next]_vars /\ WF_vars(run)

-----------------------------------------------------------------------------
Running == status = "Running"

FrameType == [chunk : DOMAIN mod, ip : Nat, base : Nat, cost : Nat, heap : Nat,
              yielded : BOOLEAN]

\* Every variable has its type, and every frame's locals lie below the frames
\* and operands above it.
TypeOK ==
    /\ status \in {"Idle", "Running", "Yielded", "Reset", "Finished", "Error"}
    /\ yields \in Nat
    /\ stack \in Seq(Nat \cup {Empty})
    /\ frames \in Seq(FrameType)
    /\ \A k \in DOMAIN frames :
          frames[k].base + ChunkOf(frames[k]).locals
              <= IF k = Len(frames) THEN Len(stack) ELSE frames[k + 1].base

\* Return pops the value it returns, which op_depth_effect does not count.
Consumes(op) == IF op.o = "Return" THEN 1 ELSE op_depth_effect(op)[1]

\* A frame pops only operands of its own, and no frame runs off its code.
FrameIsolated ==
    /\ \A k \in DOMAIN frames :
          status # "Error" => frames[k].ip < Size(ChunkOf(frames[k]))
    /\ Running => Consumes(Next_ip) <= Operands

\* No instruction reads a local that no path to it has written, also after a
\* Reset has emptied the locals and a resume has refilled only the parameter.
InitBeforeUse ==
    Running /\ Next_ip.o = "GetLocal" => stack[Frame.base + Next_ip.a + 1] # Empty

\* The frames never outgrow the attested call depth, which sizes their stack.
CallDepthBounded == Len(frames) <= attested.depth

\* A stream that reaches its Reset has yielded since its last one, whatever
\* branch it took and whether it yielded itself or through a callee.
Productive == Running /\ Next_ip.o = "Reset" => Frame.yielded

\* What verify.rs says of a chunk it counts as a yield of its callers: every
\* path through it, to whichever of its Returns, has yielded.
DelegatedYieldCovers ==
    Running /\ Next_ip.o = "Return"
            /\ Frame.chunk \in compute_always_yielding(mod) => Frame.yielded

-----------------------------------------------------------------------------
(***************************************************************************)
(* What the compiler guarantees of the chunks it emits and verify does not *)
(* check: a stream starts with Stream, so that no operand lies below it    *)
(* for Reset to drop; Return finds a value; a call passes every parameter; *)
(* parameters are a prefix of the locals.  Bytecode from elsewhere that    *)
(* verify admits may do otherwise, and then the properties above fail.     *)
(***************************************************************************)
Lowered(m) ==
    \A c \in DOMAIN m :
        /\ m[c].kind = "Stream" => At(m[c], 0).o = "Stream"
        /\ \A ip \in PositionsOf(m[c], "Return") :
              interp_region(m[c])[ip + 1] # 0
        /\ \A ip \in PositionsOf(m[c], "Call") :
              At(m[c], ip).b = m[At(m[c], ip).a].params
        /\ m[c].params <= m[c].locals

\* A callee that counts as a yield of its callers reaches no Return in silence,
\* which verify takes for granted.
DelegatesCover(m) ==
    LET always == compute_always_yielding(m)
        called == UNION {Callees(m[c]) : c \in DOMAIN m}
    IN \A c \in always \cap called :
          LET S == Silent(m[c], 0, always)
          IN /\ Silence(m[c], 0, always, S)
             /\ S \cap PositionsOf(m[c], "Return") = {}
=============================================================================
