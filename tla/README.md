# Verification of Keleusma

Keleusma is a total functional stream processor: scripts compile to bytecode, a
verifier bounds their time and memory, and a stack machine runs them as
coroutines inside a Rust host. This directory holds TLA+ models of the runtime
whose state outlives a call, of the verifier whose bounds it relies on and of two
passes of the compiler, TLC configurations that check them on
small instances, and TLAPS proofs that hold for every instance.

Line numbers below and in `PROJECT.json` are those of the source beside which this
directory is kept.

## 1. Inventory

| Component | State it keeps | Operations | Interacts with | What is hard | What makes it correct |
|---|---|---|---|---|---|
| Arena (`keleusma-arena/src/lib.rs`) | persistent boundary, two heads, two watermarks, epoch, the bytes | allocate at either end, resize the persistent region (two ways), rewind, reset, zero | the VM's stacks, strings and composites live in it; handles outlive resets | handles that outlive what they point to, epoch saturation, relocation, contracts of unsafe rewinds | regions never cross; a live collection keeps its bytes; a handle either reads its own bytes or is stale |
| VM (`src/vm.rs`) | image, frames, operand stack, suspension flags, breakpoints, trap policy, execution mode and certificate | `call`, `resume`, `resume_from_breakpoint`, `reset_after_error`, `replace_module`, mode and policy setters, the dispatch loop | arena; verifier at load, swap and mode change; host natives | every order of host calls, failures in the middle of an operation, panics of natives, swaps | proven execution never lacks an operand, never runs over debris, never trusts another image's certificate |
| Operand certificate (`src/verify_execution.rs`) | work list over a chunk | `prove_chunk` | used by the VM to enter proven execution | it must agree with every way the VM re-enters a chunk | a certified bound holds of the physical stack |
| Task runner (`keleusma-cli/src/runtasks/scheduler.rs`) | tasks, their state and wake-up reason, event queue, shutdown deadline, restart history | one dispatch loop; signals; manifest reload | one VM and one arena per task; signal handlers; two clocks | signals and time racing the loop, restarts, reloads in the middle of a shutdown, a full queue | a shutdown ends; sleepers and waiters wake; restarts are bounded; a fresh VM is called, not resumed |
| Private data slots (`src/vm.rs` 3203–3606, `src/compiler/alias_copy.rs`) | slots and a pool in the persistent region | construct, read, write, swap, drop; the compiler chooses which reads to copy | arena, opaque references, scheduler restarts | a read is a handle into a body that a later write overwrites; ownership across restart and swap | a value read does not change; each value dropped once (the latter not modelled) |
| Native registry (`src/vm.rs`) | table of natives, cached classification | register, verify, call | host | stale cache on resume | a native runs only under its declared classification (not modelled) |
| Verifier (`src/verify.rs`, `src/verify_init.rs`) | none between calls | structural checks, operand depths, definite initialisation, WCET, WCMU, yield coverage, resumes | compiler, `Vm::new`; the host sizes its arena and its resume loop by it | recursion over structured control flow, breaks, yields of callees, loops resumed in the middle | no execution exceeds its bound; a stream yields; no unset local is read |
| Typed verifier (`src/verify_typed.rs`) | none between calls | abstract interpretation of the operand stack: its height and the types on it | `verify`, `Vm::new` | joins at merges, loops that must be neutral | no instruction lacks an operand; none meets an ill-typed one (the latter not modelled) |
| Compiler (`src/lexer.rs` … `src/compiler.rs`), self-hosted compiler | none between calls | source to bytecode | verifier | size of the language | translation preserves meaning |
| Wire format, signatures, encryption | none between calls | encode, decode, verify | loader | malformed input, policy matrix | round trip, refusal |
| RTOS example (`examples/rtos/src/kernel.rs`) | task states, event bus, ticker, restart counts | `run_until`, `dispatch`, `earliest_wakeup` | one VM per task, the platform's clock | its own record of what each VM can do next; sleeping with nothing to wake it but its own deadlines; a restart budget | it asks of a VM what the VM can do; it sleeps on nothing it should be doing; it is a fixed-priority cooperative scheduler |
| Marshalling, shared buffer, standard bundles, LSP, playground, bench, macros, native code generator | | conversions and entry points | host | | |

Three behaviours make this system hard to test: a host may call the VM in any
order, so most bugs need four or five calls in an order nobody wrote a test for;
things fail half-way (an argument refused after others were pushed, a swap that
fails after its commit point, a panic that unwinds through the dispatch loop); and
identifiers outlive what they name (arena handles, certificates, wake-up
reasons, suppressed breakpoints).

## 2. Modules

| Module | What it is |
|---|---|
| `Arena` | the arena with its clients |
| `MCArena` | instance for TLC |
| `ArenaProofs` | invariants of the arena, for every capacity, base address, epoch width and set of clients |
| `RunTasks` | the dispatch loop of `run-tasks`, its tasks, signals and the clock |
| `MCRunTasks` | instances for TLC |
| `RunTasksProofs` | safety of the dispatch loop, for any number of tasks, any priorities, periods and manifests |
| `VmLifecycle` | the host API of the VM, one step per instruction, and the operand certificate |
| `MCVmLifecycle` | small programs for TLC |
| `VmLifecycleProofs` | soundness of proven execution, for every set of verified modules and every capacity |
| `Bytecode` | the instructions the verifier and the machine share, their costs and stack effects |
| `Flow` | the verifier's passes that follow control: operand ranges and heights, block types, yields, initialisation, call graph |
| `ChunkRun` | the machine running a module that `Flow` admits |
| `ChunkRunProofs` | soundness of the passes of `Flow`, for every module they admit and every sequence of host calls |
| `Verifier` | the verifier's recursive walks: nesting, depths, time, memory, resumes |
| `Lowering` | how the compiler lays out control flow |
| `AttestedRun` | the machine running a module that the whole verifier admits beside its attestation; composes `ChunkRun` and `Verifier` |
| `AttestedRunProofs` | what holds of `ChunkRun` holds of attested modules; limit loops trap only past their cap |
| `SlotProofs` | the attested operand slots suffice, for every attested module |
| `MCChunkRun` | programs for TLC |
| `CoopScheduler` | the abstract scheduler: fixed priority, a restart budget |
| `RtosKernel` | the microkernel's dispatch loop; implements `CoopScheduler` |
| `MCRtosKernel` | instance for TLC |
| `RtosKernelProofs` | safety of the microkernel and the refinement, for any tasks, budgets, payloads and events |
| `AliasCopy` | the compiler's choice of reads to copy, and the chunk running with it |
| `MCAliasCopy` | chunks for TLC |
| `AliasCopyProofs` | soundness of the copy rule, for every limit and every chunk whose composites pack uncopied reads |

`VmLifecycle` keeps one bit of the arena (its epoch is exhausted); `RunTasks` and
`RtosKernel` keep of each VM what it can do next. `AttestedRun` composes compiler,
verifier and machine.

### Arena

The variables are the fields of `Arena` plus `bytes`, which abstracts the content of
a byte to who wrote it last, and `allocs`, what each client holds: a collection
(which borrows the arena, so that no `&mut self` method runs while it lives) or an
`ArenaHandle` (which borrows nothing and remembers its epoch). Every method that
changes the arena is one action, failures included. The safety contracts of the unsafe
methods are guards (`Unreferenced`, `ExclusiveBorrow`), because calling them
otherwise is the caller's fault. `MaxEpoch` stands for `u64::MAX`.

`rewind_bottom` takes any mark, as the code does: one taken before the persistent region grew (or a mark of
zero) puts the bottom head below the boundary (Observed). The history variable `old_mark` remembers that this happened
since the last full reset, and the properties about where bytes lie (`RegionsOrdered`, `VecIntact`, `HandleIntact`,
`PersistentPreserved`) hold until then; `StaleStaysStale` and `TypeOK` hold regardless.
With the head below the boundary `resize_persistent_capacity` would subtract below zero (`lib.rs:578`), so that
action stops there; every other operation goes on.

### RunTasks

One iteration of `dispatch_loop` up to the choice of a task is the action `Iterate`;
running the task to its next yield, with the handling of what it yielded and of its
exit, is `dispatch_one`; the sleep of an idle iteration ends with `WakeUp`. `Signal`
and `Tick` may interleave anywhere between. Time is relative: a deadline is what is
left of it, so the state space stays finite. A script is abstracted to
the events it may post and to what it may yield. `restarted` is a history variable that
remembers every restart with its age, where the code prunes its own history. The model has one clock, the loop's.

### VmLifecycle

The operand stack is its height, an instruction what it does to the height
and to control. `run` says who has control: the host (`idle`) or the dispatch loop.
Host methods are enabled while the host has control, in any order. `OpFails`
lets any instruction that can fail do so after having consumed or pushed some of its
operands, either with an error or by a panic that unwinds past the end of `run()`.
`replace_module_fails_late` is a swap that returns an error after its commit
point. The modules are constants: `verify_chunk` states what `verify::verify`
established of them, `Certifies` is the certificate that `prove_chunk` searches for, and
`prove_chunk` is its existence. The work list's own steps are not modelled:
its minima are the largest certificate, and it fails only when there is none.

### Bytecode, Flow, ChunkRun, Verifier, Lowering, AttestedRun

`Flow` holds the passes of `verify.rs`, `verify_typed.rs` and `verify_init.rs` that decide, for every
edge of control, what an instruction may rely on: the operand height before it (`interp_region`, with the checks
of the joins, of loop neutrality and of the floor), the locals written on every path to it
(`must_analysis`, on the complement of the source's sets), the positions a chunk reaches without a yield (`Walked`),
and the depth of the call graph. Each is a recursive function followed by the condition the pass
checks of the result. `ChunkRun` loads a module that these passes admit and executes one instruction
per step: frames, locals and operands on one stack, as in `vm.rs`, calls, yields, resets, natives that fail, traps
and the host's recovery. `Verifier` holds the walks that recurse over nested regions: block nesting, operand
depths with their limit, execution time, memory and the number of resumes. `Lowering` turns small program trees into instructions
the way `compiler.rs` does, with its slots, its patched jumps and the canonical header of a counted
loop. `AttestedRun` starts `ChunkRun` with a module that `verify` as a whole admits and keeps its
`Attestation`; each frame counts the cycles and bytes it has used, and the properties compare the two. Its behaviours
are behaviours of `ChunkRun`: its initial condition implies `ChunkRun`'s conjunct by conjunct and `Next` is the same.
The modules the runs use are built with `Lowering` (in `MCChunkRun`).

The walks of `Verifier` call themselves on nested regions, and one another on the chunks a chunk calls. Both are
written as functions of the position: what a walk yields for the region from `ip` on is a value of a
recursive function at `ip`, computed from the positions after it, and the bounds of a module are the rounds of
one step, as many as calls can nest. Only `Lowering` has a `RECURSIVE` operator, so the other modules
can be proved about.

`SlotsSound` (operand slots) leaves modules with a match expression out, and `WcetSound`
leaves Reentrant chunks out whose yielding loop body branches: in both cases the
bound is really exceeded (`bounds_match`; Observed). `HeapSound` (arena bytes) leaves nothing out.

### CoopScheduler, RtosKernel

One iteration of `run_until` is one step, because `run` borrows the kernel: nobody posts
in between. A step promotes the sleepers whose time has come and the waiters of the
drained events, then dispatches the first ready task, sleeps, or returns.
`vm` is what each machine can do (called, resumed, nothing after a failure); a
dispatch asks for what the kernel's own `started` flag says. Payloads go through the casts of the code.
`CoopScheduler` says what a user of the kernel relies on: the first runnable
task runs one slice, a task that fails and has restarts left starts afresh, one that has
none left is done, and blocked tasks only become runnable. First ready, first served is what the code does
(`kernel.rs:247`) and `MANUAL.md:480` says; the header of the file and `SPEC.md` say something else (Observed),
and no property claims that. `RtosKernel` implements it:
`phase` is the class of the task's state, `fresh` that its machine is not suspended, `left` what
remains of its budget.

### AliasCopy

A chunk is a sequence of instructions, a value the set of handles it holds: each the slot it refers to and
whether that slot has been written since the read. A value of its own (`Own`) holds none, a boxed composite holds
its elements'. `plan` is the rule of `alias_copy.rs`, line by
line; `Init` compiles with it (a copied read gives an owned value), and `Next` runs the
chunk: a call or a yield may write any slot. Instructions that treat a handle
alike are one (`View`, `Flat`, `Element`, `Other`). The compiler emits `NewComposite` Flat for every
tuple and array literal, and the machine decides at run time whether it packs the elements or boxes them; the model
leaves that open where the elements need not be flat (`b` = 1), and so a box may keep handles. The rule does not see the
difference: `UncopiedReadsPack` says which chunks it gets right, and is the hypothesis of the theorem and the
selection of the run. The sequence the compiler emits for an
indexed read (`emit_data_read`) is one instruction. A module's `Call` stands
for every way control leaves the chunk and comes back.

## 3. Runs

Passing runs:

| Run | Instance | What it shows |
|---|---|---|
| `arena` | 3 bytes at an odd address, sizes and alignments 1 and 2, two epochs, two clients under symmetry | all arena properties after every sequence of operations, rewinds to old marks included. Three bytes hold a persistent byte and an allocation at each end; the odd base makes every aligned request pad; after one reset the epoch is saturated and the next one is refused |
| `run_tasks` | two tasks, the first preferred and restarted on error, one signal, a queue of one | safety of the loop with contention for the processor, the queue and the restart budget; a shutdown ends, sleepers and waiters wake. Its types are checked in `run_tasks_reload` |
| `run_tasks_reload` | one task, all signals, two manifests that differ in tick, grace, policy and limit, dispatches that take time | the state keeps its types and the queue its capacity; a reload at any moment neither extends a shutdown nor defeats the restart limit, and a restarted machine is called, not resumed |
| `vm` | a compiler-shaped loop that calls a branching function, a function that may trap, a breakpoint position, four operands and two frames | every order of host calls, with failures and panics at every instruction, an exhausted epoch and swaps. Two frames and four operands suffice for the loop inside its callee and for every overflow |
| `bounds` | about 240 modules: functions, coroutines and streams with branches, counted and capped loops, breaks, nested loops, matches, native calls and two heads, above a helper that yields or allocates; raw bytecode the verifier refuses | no execution exceeds the attested time, memory, call depth or resumes; streams yield in every iteration; no unset local is read, no frame pops another's operand, no call exceeds the reserved frames; a capped loop traps only past its cap; every dispatch returns. Loops of two passes show the passes before, between and after a yield; the inputs lie around the cap |
| `rtos` | two tasks, the first with one restart, a ticker, payloads that alias an event id and that are negative, run with and without a time budget, four clock values | the kernel matches its machines, sleeps only when it may, implements `CoopScheduler`, and sleepers wake |
| `alias` | about 6500 chunks: each binding, use and write in all six orders under twelve arrangements of loops, branches and breaks, inside a stream; reads consumed from the stack; tuples that pack or box copied reads; two slots, two locals, limits 1 and 2 instead of 16 and 32 so that both are met | a private composite read is a value, where the composite that ends an uncopied read packs it (`UncopiedReadsPack` selects the chunks) |

`CHECK_DEADLOCK FALSE` is set where the system may stop: both runners exit or return, and a host
that has called nothing owes the machine nothing.

Fairness. `RunTasks`: weak for the loop's own steps (the thread is scheduled, a
dispatch ends because its worst case is bounded) and strong for `Tick` (the clock
advances however busy the thread is). `RtosKernel`: weak for the loop and for the clock (up to the
model's last tick). `ChunkRun`: weak for the dispatch loop, none for the host. No task is obliged to wait, no signal to
arrive. `WakeupsArrive` (of `RunTasks`) and `SleepersWake` (of `RtosKernel`) promise that a task becomes ready, not that it runs: with fixed
priorities it may not (`scheduler.rs:670`, `kernel.rs:249`).

Violations, each a disagreement between what the repository says and what it does
(quoted in `PROJECT.json`):

| Run | What the counterexample shows |
|---|---|
| `run_tasks_first` | a task that yields voluntarily after its first dispatch is called again as if it had never run; `WAKEUP_VOLUNTARY` is never used |
| `vm_reset_reentry` | the certificate counts an operand after a reset that `resume` does not push: a certified loop that pushes before `Stream` consumes its own local on its second iteration |
| `bounds_match` | after a match the memory walk continues one operand too low, and a call with three operands uses a slot more than attested |
| `bounds_delegation` | a two-headed function whose first head returns early counts as always yielding |
| `alias_empty` | an empty struct literal after a read counts as its consumer, so the read is not copied and a callee's write shows in the tuple built afterwards |

Every property of a passing run has a mutant, a plausible bug in one mapped
definition (kept beside it under a telling name), under which TLC finds the property violated.

Observed on the way and not given a run of their own:

- Arena. `zero_dual_headed` and `zero_all` wipe bytes before they
  report a saturated epoch (`lib.rs:683`; `HandleIntact` states the exception);
  `rewind_bottom` takes `min(mark, bottom_top)` (`lib.rs:911`), so a mark from before the persistent region grew, or the mark
  of zero that the comment at `lib.rs:929` calls equivalent to `reset_bottom`, puts the bottom head below the
  persistent boundary, against the invariant the code states at `lib.rs:575`: the next `resize_persistent_capacity` subtracts below zero
  (`lib.rs:578`); allocations land in the persistent region; a top allocation may follow below the boundary, after which
  `reset_bottom` makes the heads cross; and after `clear_peaks` the usage `bottom_peak()` reports is a subtraction below zero. A handle whose bytes
  a growing persistent region absorbs keeps resolving (`lib.rs:839`, against `lib.rs:556`).
- Task runner. `kernel::last_event_id` keeps an old id (`scheduler.rs:650`, against
  `RUN_TASKS.md:210`); the loop and `kernel::now_ms` measure time from different origins
  (`scheduler.rs:518`, against `RUN_TASKS.md:96`); a full queue swallows the shutdown event
  (`scheduler.rs:564`, against `RUN_TASKS.md:539`); a restart builds the new VM in the arena before it
  drops the old one (`scheduler.rs:865`).
- VM. A swap can fail after the steps its comment calls the
  only fallible ones (`vm.rs:4725`, `vm.rs:4900`); after such a failure, or
  on an exhausted epoch, `reset_after_error` leaves a proven machine that refuses every call;
  disarming the last breakpoint before resuming from it leaves a suppression behind (`vm.rs:6092`, against `vm.rs:5824`);
  native attestations are indexed by registration order (`vm.rs:5297`, `verify.rs:1598`) while dispatch resolves natives by name.
- Verifier. The bound of a Reentrant chunk is per resume (`verify.rs:1733`), but a resume may take
  the end of one pass of a loop and the beginning of the next on different branches, which no single pass
  costs (module `Spliced` of `MCChunkRun`, left out of `WcetSound`).
  Nothing requires an operand at `Return` (`op_depth_effect` gives it none, `verify.rs:2995`, while `vm.rs:6568` pops
  one), an empty operand stack at `Stream` (`Reset` truncates to the locals, `vm.rs:6481`), or a `Call` to pass every parameter
  (`verify.rs:3722`, `verify_typed.rs:1171`); that the parameters fit into the locals is checked
  only by the certificate (`verify_execution.rs:43`). The compiler emits none of these, bytecode from elsewhere may:
  `Lowered` states them, and the proofs of `ChunkRun` need them. The operand-depth walk takes the larger of two
  depths where branches meet; only the typed pass, which refuses the module, makes that sound.
  The walks of depths, slots and time take the branches of an `If` from where its `Else` and `EndIf` lie; the nesting pass
  requires of an `Else` only that it goes to some `EndIf` (`verify.rs:3305`), and the walk of the slots ends
  at the first `Reset` (`verify.rs:1539`), whatever code is behind it. In both cases the slots counted need not be those used: `BlocksJoin`
  states what the compiler emits, and the proof about the slots needs it.
- Microkernel. The comment "Runs forever unless every task finishes" does not cover tasks that wait for events
  without a ticker, where `run_until` returns. The loop takes the first ready task of the list (`kernel.rs:247`), where
  `kernel.rs:4` says it "picks the ready task with the earliest pending wakeup": of two tasks due at 5 and at 2, both ready
  at 6, the first in the list runs first. For the same reason a task that never waits starves those behind it,
  whereas `SPEC.md` 6.2 bounds a task's dispatch latency by the longest slice of one other task. A negative deadline sleeps forever,
  and event ids 256 apart are the same.
- Copies. `compiler.rs:11319`–`11390` emits `NewComposite` Flat for every tuple and array literal, and `is_dead_end`
  (`alias_copy.rs:146`) takes each of them for the end of the handle. The machine boxes the elements when one of them has no
  flat form, such as text on a narrow word or a boxed composite (`vm.rs:6674`, `vm.rs:6812`), or when the body exceeds the access
  offset (`vm.rs:6772`), and the box keeps the handles of its elements. A read that is the last element of such a
  literal, or whose local is, is not copied: the tuple shows later writes of the slot and carries the handle out of the chunk,
  against `alias_copy.rs:31` ("leaves nothing that refers to its body"). The model has the case: with `MCBoxingChunks` of
  `MCAliasCopy` for `Chunks`, TLC finds `ReadsAreValues` violated. `UncopiedReadsPack` leaves such chunks out.

## 4. Proofs

All proofs are by an inductive invariant; the theorems are listed in `PROJECT.json`.

**Arena** (assumptions: the constants are natural numbers, alignments are positive, the byte
contents are distinct). `IInv` is `Layout` (types, order of the regions,
watermarks), `EpochsPast` (no client's epoch is in the future) and, until an old mark is replayed, `Placed` (where the allocations of
the current epoch lie) and `Written` (their bytes are theirs). The
interesting facts, that a collection keeps its bytes and that the staleness check is sound, are
not inductive alone: that an allocation overwrites nobody's bytes needs `Placed`, and
that a reset strands no handle needs `EpochsPast`. While `old_mark` holds, the epochs alone carry the argument: at the
next full reset (`FullReset`) no allocation is current, so `Placed` and `Written` hold again, and the heads are back
on their sides of the boundary.

**RunTasks** (assumptions: the shape of the manifests, and that ages are counted beyond every window). `IInv`
adds to the four safety invariants the shape of the state, that the dispatched task is ready, and that a disabled task
is finished. `WakeupStable`, `FinishedIsFinal` and `GraceNeverExtended` are action properties
proved from it. `TypeOK` is proved on top, with what is left of a queue whose front was pruned.
`RestartRateLimited` compares the history the code keeps, pruned by whichever manifest was
current at the time, with the real restarts. `HistoryInv` says that the two agree from the latest restart backwards, and
that a real restart beyond the kept ones has left the window of some manifest. The property cannot speak of
the current window only: a reload that shortens the window and a later one that widens it again make the code
forget restarts the wider window would count.

**VmLifecycle** (assumption `VmAssumption`: what the verifier established of the modules;
`ProvenOperands`, `CallableIsClean` and `SuspensionMatches` rest on `IInv` and on the hypothesis
`StreamFirst`, that a loop's first instruction is `Stream`, as `compiler.rs` emits it;
`vm_reset_reentry` shows that it is needed).
`ProvenLayout` says, for who has control and what the last run ended in, that the
frames lie one above the other with their locals below the next base, and that each
has the operands its certificate promises, except one that may be due: a callee's
result or the input that answers a yield (`Layout`). The proof has one lemma for each
way the layout changes (enter, move, push, pop), one for what a reset finds, and one
step per action. The induction is over steps: it needs no bound on the programs.
`ProofFollowsImage` and `PoisonClearedClean` are proved for every program, and so is `TypeOK`,
which uses no certificate: `TypeInv` keeps every frame at an instruction of its chunk or just past
the last one (where a failing instruction leaves it) and the stacks within their capacities, with
one lemma per way the frames change (`JumpOK`, `PushOK`, `PopOK`). It needs room for one operand:
a frame that falls off the end of its chunk over an empty stack hands its caller a value.

**ChunkRun** (assumption `ChunkRunAssumption`: modules are sequences of chunks, inputs are values; the module has
passed `verify_flow` and has an acyclic call graph). Every theorem is stated under
`Lowered(mod)`, what the compiler guarantees and `verify` does not check (Observed), and `ProductiveTheorem`
moreover under `DelegatesCover(mod)`, that no callee which counts as a yield returns in silence, which
`bounds_delegation` shows is needed. Both hypotheses are evaluated by TLC: `CompiledAssumption` says that every
compiled module of the runs meets them, the half-yielding one alone excepted.

- `IInv` relates the machine to the verifier's tables. Each frame stands at a live instruction of its chunk;
  its operands are as many as `interp_region` computed there, less the one that is due while a callee runs or the
  host holds a yield (`Placed`); an empty local lies where `must_analysis` has not seen it written, but
  for the parameter of a stream between a reset and its resume (`Filled`); the frames lie one above the
  other (`Stacked`). None of `TypeOK`, `FrameIsolated` and `InitBeforeUse` is inductive alone:
  that a `Return` leaves the caller with its operands needs the height of a frame that is not on top. The proof
  has one lemma per way a frame changes and one per instruction class.
- `DepthInv` adds to the k-th frame the calls still possible below it: a call moves one from the second to the first. That
  the recorded depth is the greatest rests on the maximum of a finite set of naturals, proved by least counterexample
  (`WFMin`), since the library's induction theorems cannot be instantiated.
- `QuietInv` says where a frame that has not yielded can be: at a position `Walked` reaches in silence, or
  waiting for a callee that will yield for it (`Calm`). A callee's return without a yield
  would break it, hence `DelegatesCover`.

The proofs use the checks that follow each analysis (`EdgesAgree`, `Settled`, `Silence`,
`topological_call_order`), and nothing of how the tables were computed.

**AttestedRun** (`AttestedRunProofs`, same assumption). `verify` includes the passes of `Flow` and the memory bounds the order of
calls, so `AttestedSpec` implies `Spec` (`AttestedRefines`) and the theorems above hold of attested modules.
`LimitTrapTheorem` is stated under `LimitsDispatched(mod)`: behind every limit loop stand the 24 instructions that
`compile_loop_outcome_dispatch` emits, and nothing outside jumps into their middle. `LimitInv` gives each
of them a `Claim`: what the top operands and the loop's three locals (outcome, variable, end of the range) are to
one another just before it. Every instruction establishes the claim of the next one from its own; the
first has none, so nothing is assumed of the loop's body, and its calls, yields and resumes only matter in that no
frame stands inside the 24 while a callee runs or the host has control (`Parked`).
At the trap the claim is that the variable is below the end.

**Operand slots** (`SlotProofs`, same assumption). `SlotsTheorem`: under `Lowered(mod)` and `BlocksJoin` of every chunk, no frame and
what it has called use more slots than attested. The verifier
counts in two walks that know nothing of each other: the heights of the operands follow the edges of a chunk
(`interp_region`), the slots follow its blocks (`wcmu_region`, with an offset that it carries through branches and
loops). The proof has four parts.

- Recursion. A recursive function over positions is replaced by the table of its values, shown
  well-typed by the first step of the recursion where it is not (`Least`); so is the stack of open blocks.
- `Kept`: at every position control can reach, the walk's offset is at least the height (both counted from the
  innermost block, `Base`). `AllKept` takes the
  first position where that fails and looks at the edge that leads to it, with a lemma per kind of edge
  (`EnterKept`, `BranchKept`, `ElseKept`, `EndIfKept`, `LeaveKept`). It does not hold of an `EndIf` whose offset
  comes from one branch and whose height comes from the other; there the branch it closes bounds it (`Joins`).
- `Fixpoint`: after as many rounds as calls can nest the bounds of a module solve their own equation, by the least
  depth of a chunk for which they do not.
- `SlotInv`: frames below the top stand behind the `Call` of the frame above, and their operands, locals and bounds
  add up (`Nesting`, `Within`). That a frame is within its bound is not inductive without the frame
  above being within its own.

`SlotsSoundTheorem` is the same in the form the runs check, in which a module with a match is exempt. The three hypotheses
are evaluated by TLC as well: `CompiledAssumption` says that every compiled module satisfies `Lowered` and
`LimitsDispatched`, and `BlocksJoin` in all its chunks unless it has a match.

**RtosKernel** (assumptions: event ids are bytes, budgets and times are natural numbers).
`Invariant` is `TypeOK`, `DispatchMatchesMachine` and `SleepJustified`; none needs a
strengthening beyond the types. The refinement maps every iteration to a slice, a
failure or a wake-up of `CoopScheduler`; the work is to show that the first
ready task of the refreshed list is the first runnable one of the abstract state
and that a restart is paid for before the machine is fresh.

**AliasCopy** (assumption `AliasCopyAssumption`: jumps go forward, loops nest, operands are in
range; both theorems moreover under the hypothesis `UncopiedReadsPack` for every chunk: the composite that ends
an uncopied read, or a use of its binding, has an element and packs its elements. `alias_empty` shows that the first half is
needed, `MCBoxingChunks` that the second is; the compiler guarantees neither). The invariant says where a handle
that was not copied can be: on top of the stack with only views before the
instruction that ends its life, or in the one local it was bound to; so no box ever holds one. A local's handle
may be stale only while control is outside the interval from the binding to the last
use, loops included (`Outside`). The heart of the proof is `OutsideStays`: no step but the binding enters the interval, because a
jump over the binding is refused by the rule and a back edge cannot cross the end of a loop
that nests.

Only model-checked:

- the liveness properties (`DispatchEnds`, `ShutdownCompletes`, `WakeupsArrive`, `SleepersWake`): fairness is out of the prover's
  reach;
- `WcetSound`, `HeapSound` and `ResumesBounded`. Their bounds multiply what a loop's body costs by the number of its
  passes, which the verifier reads off the constants before the loop. An
  inductive invariant would have to relate a frame's counter to the passes that are left of every enclosing
  loop, from the values of the loop variables in its locals, across calls and resumes. No single position's bound says that, as it does
  for the operand slots, which a loop gives back;
- what `Lowering` emits (`Lowered`, `LimitsDispatched`, `BlocksJoin`): it is recursive over program trees.

## 5. Not modelled, and why

Values and their conversions (the models keep what control depends on), and with them the types of the typed
verifier, the shared buffer, marshalling and the native code generator. The front end, the rest of the
compiler, the self-hosted compiler, the wire format and cryptography: deterministic functions
of unbounded input without state between calls, by far the largest part of the repository, and out of a
model checker's reach except for single passes such as the two that are modelled. Manifest parsing, systemd
notifications and the bindings of the hosted runtime (input and output). Of the verifier: text-size
terms and saturation at 2^32. Of the VM: the native registry, and who owns and drops the value of a private slot.

## 6. Plan

Done: `Arena`, `RunTasks`, `VmLifecycle`, `Flow` with `ChunkRun`, `Verifier` with `Lowering` and `AttestedRun`, `RtosKernel`
with `CoopScheduler`, `AliasCopy`; every safety property of a passing run is proved but the three above. Next, in order:

1. Proofs: the passes left of a loop as a function of its locals, shown to fall with each pass; then
   the number of resumes, the time and the memory as potentials over it.
2. `CertificateWalk`: the work list of `prove_chunk` as a state machine, shown to implement
   "a certificate exists", the operator used by `VmLifecycle`.
3. Slot ownership: values of the private slots over construction, swap, task restart and drop,
   each dropped once.
4. `VmLifecycle` with natives, the shared buffer and the load-time trust matrix.
