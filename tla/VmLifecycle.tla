---------------------------- MODULE VmLifecycle ----------------------------
(***************************************************************************)
(* The host-facing life of a Keleusma virtual machine (src/vm.rs) and the  *)
(* operand certificate that proven execution rests on                      *)
(* (src/verify_execution.rs).                                              *)
(*                                                                         *)
(* The host may call any public method in any order between two runs of    *)
(* the dispatch loop: enter a chunk, resume after a yield or a reset,      *)
(* resume from a breakpoint, recover from an error, change the execution   *)
(* mode or the trap policy, arm breakpoints, swap the module.  A run is    *)
(* one step per instruction.  Values are abstracted away: the operand      *)
(* stack is its height, an instruction is what it does to that height and  *)
(* to the control flow.                                                    *)
(*                                                                         *)
(* Instructions are numbered from 1 here, from 0 in the source.            *)
(***************************************************************************)
EXTENDS Integers, Sequences, FiniteSetsExt

CONSTANTS
    Modules,        \* the images a host may load or swap in
    Code,           \* Code[m]: the chunks of image m
    StackCapacity,  \* operand slots the arena can hold
    FrameCapacity,  \* call frames the arena can hold
    Positions,      \* <<chunk, instruction>>: where the host may arm a breakpoint
    NoPos           \* no breakpoint position

VARIABLES
    image,              \* the module the VM runs
    frames, height,     \* the call frames; the length of the operand stack
    started,
    suspended_at_reset,
    execution_checks, pop_proof, proof_state,
    trap_policy,
    breakpoints, skip_breakpoint_at,
    saturated,          \* the arena's epoch counter is exhausted
    run                 \* "idle": the host has control; "resumed": the loop was
                        \* entered by resume_from_breakpoint and has executed
                        \* nothing yet; "going": it is executing

stacks == <<frames, height>>
proof == <<execution_checks, pop_proof, proof_state>>
debug == <<breakpoints, skip_breakpoint_at>>
vars == <<image, stacks, started, suspended_at_reset, proof, trap_policy,
          debug, saturated, run>>

----------------------------------------------------------------------------
(* Instructions: how many operands one requires, the net change, and where *)
(* control goes next.                                                      *)

Simple(need, net, to) == [kind |-> "simple", need |-> need, net |-> net, to |-> to, idx |-> 0]
Call(idx, n) == [kind |-> "call", need |-> n, net |-> 1 - n, to |-> {}, idx |-> idx]
Marker(kind) == [kind |-> kind, need |-> 0, net |-> 0, to |-> {}, idx |-> 0]
Yield == [Marker("yield") EXCEPT !.need = 1]
Return == Marker("return")
Reset == Marker("reset")
Stream == Marker("stream")
Trap == Marker("trap")

Streams(ch) == {i \in DOMAIN ch.ops : ch.ops[i].kind = "stream"}
StreamEntry(ch) == (CHOOSE i \in Streams(ch) : TRUE) + 1

(* What verify::verify has established of every module a VM loads.         *)

\* What the kinds of instruction do to the operands.
op_depth_effect(op) ==
    /\ op.need >= 0 /\ op.need + op.net >= 0
    /\ op.kind = "call" => op.net = 1 - op.need
    /\ op.kind = "yield" => op.need = 1 /\ op.net = 0
    /\ op.kind \in {"return", "reset", "stream"} => op.need = 0 /\ op.net = 0

\* No path runs off the end of a chunk.
verify_stack_depth(ch) ==
    \A j \in DOMAIN ch.ops :
      LET op == ch.ops[j] IN
      /\ op.kind = "simple" => op.to # {} /\ op.to \subseteq DOMAIN ch.ops
      /\ op.kind \in {"stream", "call", "yield"} => j + 1 \in DOMAIN ch.ops

\* A callee exists and has a local for every argument.
verify_call(m, op) ==
    op.kind = "call" => op.idx \in DOMAIN Code[m] /\ op.need <= Code[m][op.idx].locals

\* A reset has its one stream.
verify_block_type(ch) ==
    /\ Cardinality(Streams(ch)) <= 1
    /\ (\E j \in DOMAIN ch.ops : ch.ops[j].kind = "reset") => Streams(ch) # {}

\* That the parameters are a prefix of the locals is taken for granted by
\* call_function and checked by prove_chunk only.
verify_chunk(m, i) ==
    LET ch == Code[m][i] IN
    /\ 0 <= ch.params /\ ch.params <= ch.locals
    /\ \A j \in DOMAIN ch.ops : op_depth_effect(ch.ops[j]) /\ verify_call(m, ch.ops[j])
    /\ verify_stack_depth(ch)
    /\ verify_block_type(ch)

Kinds == {"simple", "call", "yield", "return", "reset", "stream", "trap"}
Instructions == [kind: Kinds, need: Int, net: Int, to: SUBSET Nat, idx: Nat]

ASSUME VmAssumption ==
    /\ StackCapacity \in Nat \ {0}
    /\ FrameCapacity \in Nat
    /\ \A m \in Modules :
         /\ Code[m] \in Seq([params: Int, locals: Int, ops: Seq(Instructions)])
         /\ Len(Code[m]) > 0
         /\ \A i \in DOMAIN Code[m] : Len(Code[m][i].ops) > 0 /\ verify_chunk(m, i)

----------------------------------------------------------------------------
(* The operand certificate.                                                *)

Unreached == -1

Required(op) == IF op.kind = "return" THEN 1 ELSE op.need

Successors(ch, i) ==
    LET op == ch.ops[i] IN
    CASE op.kind = "simple" -> op.to
      [] op.kind \in {"return", "trap"} -> {}
      [] op.kind = "reset" -> {StreamEntry(ch)}
      [] OTHER -> {i + 1}

\* The depth an edge out of i carries when the depth at i is d.
EdgeDepth(ch, i, d) == IF ch.ops[i].kind = "reset" THEN 1 ELSE d + ch.ops[i].net

\* Lower bounds on the operands at each instruction, which every edge respects
\* and with which every reached instruction is content.
Certifies(ch, depths) ==
    /\ depths[1] = 0
    /\ \A i \in DOMAIN ch.ops :
         depths[i] # Unreached =>
           /\ depths[i] >= Required(ch.ops[i])
           /\ \A t \in Successors(ch, i) :
                0 <= depths[t] /\ depths[t] <= EdgeDepth(ch, i, depths[i])

\* A first arrival follows a simple path, and a reset introduces one operand:
\* no minimum is larger.  (The source's coarser bound only sizes the budget of
\* the work list.)
DepthBound(ch) == MapThenSumSet(LAMBDA i : Max({ch.ops[i].net, 0}), DOMAIN ch.ops) + 1

Annotations(ch) == [DOMAIN ch.ops -> Unreached .. DepthBound(ch)]

\* The work list lowers the bounds until no edge does: it ends without an error
\* exactly when some annotation certifies the chunk, the minima being the
\* largest one.
prove_chunk(ch) == \E depths \in Annotations(ch) : Certifies(ch, depths)
verify_pop_elision(m) == \A i \in DOMAIN Code[m] : prove_chunk(Code[m][i])

classify_traps(m) ==
    \A i \in DOMAIN Code[m] : \A j \in DOMAIN Code[m][i].ops : Code[m][i].ops[j].kind # "trap"

Certified == {m \in Modules : classify_traps(m) /\ verify_pop_elision(m)}
TrapFree == {m \in Modules : classify_traps(m)}

\* The shape the compiler gives a loop: Stream is its first instruction.
StreamFirst == \A m \in Modules : \A i \in DOMAIN Code[m] : Streams(Code[m][i]) \subseteq {1}

----------------------------------------------------------------------------
(* The machine.                                                            *)

Chunk(f) == Code[image][f.chunk]
Top == frames[Len(frames)]
Op == Chunk(Top).ops[Top.ip]
Pos == <<Top.chunk, Top.ip>>

Jump(ip) == [frames EXCEPT ![Len(frames)].ip = ip]
Callers == SubSeq(frames, 1, Len(frames) - 1)

Proven == execution_checks = "Proven"
Idle == run = "idle"
AtEnd == Top.ip > Len(Chunk(Top).ops)

prove_image(m, policy) == policy = "RequireTrapFree" /\ m \in Certified

Init ==
    /\ image \in Modules
    /\ frames = <<>>
    /\ height = 0
    /\ started = FALSE
    /\ suspended_at_reset = FALSE
    /\ execution_checks = "Checked"
    /\ pop_proof = FALSE
    /\ proof_state = "Inactive"
    /\ trap_policy = "Allow"
    /\ breakpoints = {}
    /\ skip_breakpoint_at = NoPos
    /\ saturated = FALSE
    /\ run = "idle"

----------------------------------------------------------------------------
(* Configuration.                                                          *)

\* Enabled at any time, not only on a fresh or reset instance.
set_execution_checks_any_time(checks) ==
    /\ Idle
    /\ checks = "Proven" => prove_image(image, trap_policy)
    /\ execution_checks' = checks
    /\ pop_proof' = (checks = "Proven")
    /\ proof_state' = IF checks = "Proven" THEN "Ready" ELSE "Inactive"
    /\ UNCHANGED <<image, stacks, started, suspended_at_reset, trap_policy,
                   debug, saturated, run>>

set_execution_checks(checks) ==
    /\ Idle
    /\ checks = "Proven" => /\ ~started /\ frames = <<>> /\ height = 0
                            /\ prove_image(image, trap_policy)
    /\ execution_checks' = checks
    /\ pop_proof' = (checks = "Proven")
    /\ proof_state' = IF checks = "Proven" THEN "Ready" ELSE "Inactive"
    /\ UNCHANGED <<image, stacks, started, suspended_at_reset, trap_policy,
                   debug, saturated, run>>

\* Traps may be allowed while proven execution is on.
set_trap_policy_unguarded(policy) ==
    /\ Idle
    /\ policy = "RequireTrapFree" => image \in TrapFree
    /\ trap_policy' = policy
    /\ UNCHANGED <<image, stacks, started, suspended_at_reset, proof, debug, saturated, run>>

set_trap_policy(policy) ==
    /\ Idle
    /\ policy = "Allow" => ~Proven
    /\ policy = "RequireTrapFree" => image \in TrapFree
    /\ trap_policy' = policy
    /\ UNCHANGED <<image, stacks, started, suspended_at_reset, proof, debug, saturated, run>>

set_breakpoint(p) ==
    /\ Idle
    /\ breakpoints' = breakpoints \cup {p}
    /\ UNCHANGED <<image, stacks, started, suspended_at_reset, proof, trap_policy,
                   skip_breakpoint_at, saturated, run>>

clear_breakpoint(p) ==
    /\ Idle
    /\ p \in breakpoints
    /\ breakpoints' = breakpoints \ {p}
    /\ skip_breakpoint_at' = IF skip_breakpoint_at = p THEN NoPos ELSE skip_breakpoint_at
    /\ UNCHANGED <<image, stacks, started, suspended_at_reset, proof, trap_policy,
                   saturated, run>>

clear_breakpoints ==
    /\ Idle
    /\ breakpoints' = {}
    /\ skip_breakpoint_at' = NoPos
    /\ UNCHANGED <<image, stacks, started, suspended_at_reset, proof, trap_policy,
                   saturated, run>>

----------------------------------------------------------------------------
(* Entering the dispatch loop.                                             *)

\* Proven execution is entered only from the states the method allows, and
\* stays poisoned until the run has a result.
begin_proven_entry(allowed) ==
    /\ Proven => pop_proof /\ proof_state \in allowed
    /\ proof_state' = IF Proven THEN "Poisoned" ELSE proof_state
    /\ UNCHANGED <<execution_checks, pop_proof>>

\* Poisons only once the arguments have been accepted.
call_function_poisoning_late(i) ==
    LET ch == Code[image][i] IN
    /\ Idle
    /\ \/ /\ begin_proven_entry({"Ready", "Finished"})
          /\ height + ch.locals <= StackCapacity
          /\ Len(frames) < FrameCapacity
          /\ height' = height + ch.locals
          /\ frames' = Append(frames, [chunk |-> i, ip |-> 1, base |-> height])
          /\ started' = TRUE
          /\ run' = "going"
       \/ /\ Proven => pop_proof /\ proof_state \in {"Ready", "Finished"}
          /\ \E k \in 0 .. ch.locals :
               height + k <= StackCapacity /\ height' = height + k
          /\ UNCHANGED <<frames, started, run, proof>>
    /\ UNCHANGED <<image, suspended_at_reset, trap_policy, debug, saturated>>

\* An argument may be refused after some of the locals have been pushed.
call_function(i) ==
    LET ch == Code[image][i] IN
    /\ Idle
    /\ begin_proven_entry({"Ready", "Finished"})
    /\ \/ /\ height + ch.locals <= StackCapacity
          /\ Len(frames) < FrameCapacity
          /\ height' = height + ch.locals
          /\ frames' = Append(frames, [chunk |-> i, ip |-> 1, base |-> height])
          /\ started' = TRUE
          /\ run' = "going"
       \/ /\ \E k \in 0 .. ch.locals :
               height + k <= StackCapacity /\ height' = height + k
          /\ UNCHANGED <<frames, started, run>>
    /\ UNCHANGED <<image, suspended_at_reset, trap_policy, debug, saturated>>

Suspended == started /\ frames # <<>>

StreamFrames == {i \in DOMAIN frames : Streams(Chunk(frames[i])) # {}}

\* The slot of the innermost stream frame that receives the input exists.
InputSlotPresent ==
    \A i \in StreamFrames :
      (i = Max(StreamFrames) /\ Chunk(frames[i]).params > 0) => height > frames[i].base

\* The input answers the yield; after a reset there is no yield to answer.
resume ==
    /\ Idle
    /\ begin_proven_entry({"Yielded", "Reset"})
    /\ \/ /\ Suspended
          /\ InputSlotPresent
          /\ height' = height + (IF suspended_at_reset THEN 0 ELSE 1)
          /\ height' <= StackCapacity
          /\ run' = "going"
       \/ UNCHANGED <<height, run>>
    /\ UNCHANGED <<image, frames, started, suspended_at_reset, trap_policy, debug, saturated>>

\* Admitted after a yield as well, where an input is due.
resume_from_breakpoint_any_suspension ==
    /\ Idle
    /\ begin_proven_entry({"Breakpoint", "Yielded"})
    /\ \/ Suspended /\ skip_breakpoint_at' = Pos /\ run' = "resumed"
       \/ ~Suspended /\ UNCHANGED <<skip_breakpoint_at, run>>
    /\ UNCHANGED <<image, stacks, started, suspended_at_reset, trap_policy,
                   breakpoints, saturated>>

resume_from_breakpoint ==
    /\ Idle
    /\ begin_proven_entry({"Breakpoint"})
    /\ \/ Suspended /\ skip_breakpoint_at' = Pos /\ run' = "resumed"
       \/ ~Suspended /\ UNCHANGED <<skip_breakpoint_at, run>>
    /\ UNCHANGED <<image, stacks, started, suspended_at_reset, trap_policy,
                   breakpoints, saturated>>

----------------------------------------------------------------------------
(* The dispatch loop.                                                      *)

\* Sets the flag at a reset and never clears it.
Exit_keeping_flag(result) ==
    /\ run' = "idle"
    /\ suspended_at_reset' = (suspended_at_reset \/ result = "Reset")
    /\ proof_state' = IF Proven /\ result # "Err" THEN result ELSE proof_state
    /\ UNCHANGED <<execution_checks, pop_proof>>

\* How run() turns the loop's result into the state the host finds.
Exit(result) ==
    /\ run' = "idle"
    /\ suspended_at_reset' = (result = "Reset")
    /\ proof_state' = IF Proven /\ result # "Err" THEN result ELSE proof_state
    /\ UNCHANGED <<execution_checks, pop_proof>>

\* A panic unwinds past the rest of run().
Unwind == run' = "idle" /\ UNCHANGED <<suspended_at_reset, proof>>

Continue == run' = "going" /\ UNCHANGED <<suspended_at_reset, proof>>

BreakpointHit ==
    /\ ~Idle
    /\ ~AtEnd
    /\ Pos \in breakpoints
    /\ skip_breakpoint_at # Pos
    /\ Exit("Breakpoint")
    /\ UNCHANGED <<image, stacks, started, trap_policy, debug, saturated>>

\* The next instruction is executed: its position is not armed, or is the one
\* suppressed once.
Dispatch(kind) ==
    /\ ~Idle
    /\ ~AtEnd
    /\ Op.kind = kind
    /\ Pos \in breakpoints => skip_breakpoint_at = Pos
    /\ skip_breakpoint_at' = IF breakpoints # {} /\ skip_breakpoint_at = Pos
                             THEN NoPos ELSE skip_breakpoint_at
    /\ UNCHANGED <<image, started, trap_policy, breakpoints>>

OpSimple ==
    /\ Dispatch("simple")
    /\ height >= Op.need
    /\ height' = height + Op.net
    /\ height' <= StackCapacity
    /\ \E t \in Op.to : frames' = Jump(t)
    /\ Continue
    /\ UNCHANGED saturated

OpStream ==
    /\ Dispatch("stream")
    /\ frames' = Jump(Top.ip + 1)
    /\ Continue
    /\ UNCHANGED <<height, saturated>>

OpCall ==
    LET callee == Code[image][Op.idx]
        new_base == height - Op.need
    IN /\ Dispatch("call")
       /\ new_base >= 0
       /\ height' = new_base + callee.locals
       /\ height' <= StackCapacity
       /\ Len(frames) < FrameCapacity
       /\ frames' = Append(Jump(Top.ip + 1), [chunk |-> Op.idx, ip |-> 1, base |-> new_base])
       /\ Continue
       /\ UNCHANGED saturated

\* What is left of the stack when the top frame returns.
Truncated == IF height - 1 < Top.base THEN height - 1 ELSE Top.base

OpReturn ==
    /\ Dispatch("return")
    /\ height > 0
    /\ frames' = Callers
    /\ \/ Callers = <<>> /\ height' = Truncated /\ Exit("Finished")
       \/ Callers # <<>> /\ height' = Truncated + 1 /\ Continue
    /\ UNCHANGED saturated

OpYield ==
    /\ Dispatch("yield")
    /\ height > 0
    /\ height' = height - 1
    /\ frames' = Jump(Top.ip + 1)
    /\ Exit("Yielded")
    /\ UNCHANGED saturated

\* The top end of the arena is reset; that its epoch may be exhausted is
\* ignored here.
OpReset ==
    /\ Dispatch("reset")
    /\ height >= Top.base + Chunk(Top).locals
    /\ height' = Top.base + Chunk(Top).locals
    /\ frames' = Jump(StreamEntry(Chunk(Top)))
    /\ Exit("Reset")
    /\ saturated' \in {saturated, TRUE}

\* Operands an instruction may have pushed before it fails.
Spill == CASE Op.kind = "call" -> Code[image][Op.idx].locals - Op.need
           [] Op.net > 0 -> Op.net
           [] OTHER -> 0

\* The instruction fails, or a panic of a native or of an index out of the
\* stack unwinds, with some of its operands consumed or some of its results
\* pushed.
OpFails ==
    /\ \/ Dispatch("simple") \/ Dispatch("call") \/ Dispatch("yield") \/ Dispatch("trap")
       \/ Dispatch("return") /\ height = 0
       \/ Dispatch("reset") /\ height < Top.base + Chunk(Top).locals
    /\ \E h \in 0 .. StackCapacity :
         height - Op.need <= h /\ h <= height + Spill /\ height' = h
    /\ frames' = Jump(Top.ip + 1)
    /\ Exit("Err") \/ Unwind
    /\ UNCHANGED saturated

\* The top frame is past the end of its chunk, where an instruction that
\* failed as the last one leaves it: it returns without truncating.
EndOfChunk ==
    /\ ~Idle
    /\ AtEnd
    /\ frames' = Callers
    /\ \/ Callers = <<>> /\ height' = (IF height = 0 THEN 0 ELSE height - 1) /\ Exit("Finished")
       \/ Callers # <<>> /\ height' = (IF height = 0 THEN 1 ELSE height) /\ Continue
    /\ UNCHANGED <<image, started, trap_policy, debug, saturated>>

----------------------------------------------------------------------------
(* Recovery and hot swap.                                                  *)

\* Both arena ends are reset after the stacks have been dropped; the reset
\* fails, with the stacks gone, on an exhausted epoch.
full_reset_arena_internal ==
    /\ frames' = <<>>
    /\ height' = 0
    /\ saturated' \in {saturated, TRUE}

reset_after_error ==
    /\ Idle
    /\ full_reset_arena_internal
    /\ started' = FALSE
    /\ proof_state' = CASE ~saturated /\ pop_proof -> "Ready"
                        [] Proven -> "Poisoned"
                        [] OTHER -> proof_state
    /\ UNCHANGED <<image, suspended_at_reset, execution_checks, pop_proof, trap_policy,
                   debug, run>>

\* Everything a swap checks before its commit point.
SwapAdmitted(m) ==
    /\ trap_policy = "RequireTrapFree" => m \in TrapFree
    /\ Proven => prove_image(m, trap_policy)

\* Keeps the old module's coroutine.
replace_module_keeping_frames(m) ==
    /\ Idle
    /\ SwapAdmitted(m)
    /\ Proven => ~saturated
    /\ image' = m
    /\ pop_proof' = Proven
    /\ proof_state' = IF Proven THEN "Ready" ELSE proof_state
    /\ UNCHANGED <<stacks, started, saturated, suspended_at_reset, execution_checks,
                   trap_policy, debug, run>>

replace_module(m) ==
    /\ Idle
    /\ SwapAdmitted(m)
    /\ Proven => ~saturated
    /\ image' = m
    /\ full_reset_arena_internal
    /\ started' = FALSE
    /\ pop_proof' = Proven
    /\ proof_state' = IF Proven THEN "Ready" ELSE proof_state
    /\ UNCHANGED <<suspended_at_reset, execution_checks, trap_policy, debug, run>>

\* The swap returns an error after its commit point: the arena reset failed in
\* proven mode, or a seeded composite could not be made persistent.
replace_module_fails_late(m) ==
    /\ Idle
    /\ SwapAdmitted(m)
    /\ image' = m
    /\ full_reset_arena_internal
    /\ pop_proof' = FALSE
    /\ proof_state' = IF Proven THEN "Poisoned" ELSE proof_state
    /\ UNCHANGED <<started, suspended_at_reset, execution_checks, trap_policy, debug, run>>

----------------------------------------------------------------------------
Host ==
    \/ \E c \in {"Checked", "Proven"} : set_execution_checks(c)
    \/ \E q \in {"Allow", "RequireTrapFree"} : set_trap_policy(q)
    \/ \E p \in Positions : set_breakpoint(p) \/ clear_breakpoint(p)
    \/ clear_breakpoints
    \/ \E i \in DOMAIN Code[image] : call_function(i)
    \/ resume
    \/ resume_from_breakpoint
    \/ reset_after_error
    \/ \E m \in Modules : replace_module(m) \/ replace_module_fails_late(m)

run_inner ==
    \/ BreakpointHit \/ OpSimple \/ OpStream \/ OpCall \/ OpReturn \/ OpYield
    \/ OpReset \/ OpFails \/ EndOfChunk

Next == Host \/ run_inner

Spec == Init /\ [][Next]_vars

----------------------------------------------------------------------------
(* Properties.                                                             *)

ProofStates == {"Inactive", "Ready", "Yielded", "Reset", "Breakpoint", "Finished", "Poisoned"}

\* Every variable has its type; no frame or operand is held beyond what the
\* arena can hold, and a frame names a chunk of the loaded image.
TypeOK ==
    /\ image \in Modules
    /\ height \in 0 .. StackCapacity
    /\ Len(frames) <= FrameCapacity
    /\ \A i \in DOMAIN frames :
         /\ frames[i] \in [chunk: DOMAIN Code[image], ip: Nat \ {0}, base: 0 .. StackCapacity]
         /\ frames[i].ip <= Len(Chunk(frames[i]).ops) + 1
    /\ {started, suspended_at_reset, pop_proof, saturated} \subseteq BOOLEAN
    /\ execution_checks \in {"Checked", "Proven"}
    /\ proof_state \in ProofStates
    /\ trap_policy \in {"Allow", "RequireTrapFree"}
    /\ breakpoints \subseteq Positions
    /\ run \in {"idle", "resumed", "going"}
    /\ ~Idle => Suspended

\* In proven execution the dispatch loop never meets an instruction whose
\* operands are not above the frame's locals, whatever the host called before:
\* the certificate's lower bound holds of the physical stack at every step.
ProvenOperands ==
    ~Idle /\ Proven =>
      /\ ~AtEnd
      /\ height >= Top.base + Chunk(Top).locals + Required(Op)

\* Proven execution starts a call on empty stacks only, so the memory bound
\* verified from an empty stack is the one that applies: no debris of a failed
\* call or of an abandoned coroutine lies underneath.
CallableIsClean ==
    Idle /\ Proven /\ proof_state \in {"Ready", "Finished"} => frames = <<>> /\ height = 0

\* The proof state tells the truth about the coroutine: a proven VM that says
\* it is suspended is, it waits for an input exactly when resume would push
\* one, and the slot that receives the input exists.
SuspensionMatches ==
    Idle /\ Proven /\ proof_state \in {"Yielded", "Reset", "Breakpoint"} =>
      /\ Suspended
      /\ suspended_at_reset <=> proof_state = "Reset"
      /\ InputSlotPresent

\* A certificate in hand is one of the image that is loaded, under the policy
\* that is in force, across swaps, policy changes and failures.
ProofFollowsImage == pop_proof => Proven /\ prove_image(image, trap_policy)

\* A poisoned machine becomes usable again only with its stacks emptied, or by
\* going back to checked execution: no path leads from a failed run to proven
\* execution over what the failed run left.
PoisonClearedClean ==
    [][Idle /\ proof_state = "Poisoned" /\ proof_state' # "Poisoned" =>
         \/ frames' = <<>> /\ height' = 0 /\ ~started'
         \/ execution_checks' = "Checked"]_vars
=============================================================================
