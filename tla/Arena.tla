------------------------------- MODULE Arena -------------------------------
(***************************************************************************)
(* The bump arena of keleusma-arena (keleusma-arena/src/lib.rs).           *)
(*                                                                         *)
(* One buffer of Capacity bytes is split into a persistent prefix          *)
(* [0, persistent_capacity) and a dual-headed region above it, whose       *)
(* bottom head grows up and whose top head grows down.  Every reclaiming   *)
(* operation advances a saturating epoch; an ArenaHandle remembers the     *)
(* epoch it was issued under and is refused as Stale when it no longer     *)
(* matches.  Offsets are relative to the buffer's base address, which only *)
(* alignment looks at.                                                     *)
(*                                                                         *)
(* A byte's content is abstracted to who wrote it last: an allocation, the *)
(* owner of the persistent region, or a zeroing call.  The clients of the  *)
(* arena are of two kinds.  A "vec" is a collection built on BottomHandle  *)
(* or TopHandle: it borrows the arena, so no &mut self method runs while   *)
(* it lives.  A "handle" is an ArenaHandle: it borrows nothing and         *)
(* survives every reset.                                                   *)
(***************************************************************************)
EXTENDS Integers

CONSTANTS
    Capacity,   \* bytes of the backing buffer
    BaseAddr,   \* address of the buffer's first byte
    MaxEpoch,   \* stands for u64::MAX, where the epoch counter saturates
    Ids,        \* names of the clients that may hold an allocation
    Sizes,      \* allocation sizes a client may request
    Aligns,     \* alignments a client may request
    Zero, Data  \* byte contents: zeroed, written by the persistent owner

ASSUME ArenaAssumption ==
    /\ Capacity \in Nat
    /\ BaseAddr \in Nat
    /\ MaxEpoch \in Nat
    /\ Sizes \subseteq Nat
    /\ Aligns \subseteq Nat \ {0}

ASSUME ContentAssumption == Zero \notin Ids /\ Data \notin Ids /\ Zero # Data

VARIABLES
    persistent_capacity, bottom_top, top_top, bottom_peak, top_peak_low, epoch,
    bytes,                  \* who wrote each byte of the buffer last
    allocs,                 \* the allocation each client holds
    old_mark                \* history: since the last full reset, the bottom head
                            \* was rewound to a mark below the persistent boundary

heads == <<bottom_top, top_top>>
peaks == <<bottom_peak, top_peak_low>>
vars == <<persistent_capacity, heads, peaks, epoch, bytes, allocs, old_mark>>

Offsets == 0 .. Capacity
Addrs == 0 .. (Capacity - 1)
Contents == Ids \cup {Zero, Data}

Free == [kind |-> "free", ptr |-> 0, len |-> 0, epoch |-> 0, end |-> "bottom"]

Allocs == [kind: {"free", "vec", "handle"}, ptr: Offsets, len: Nat,
           epoch: 0 .. MaxEpoch, end: {"bottom", "top"}]

Init ==
    /\ persistent_capacity = 0
    /\ bottom_top = 0
    /\ top_top = Capacity
    /\ bottom_peak = 0
    /\ top_peak_low = Capacity
    /\ epoch = 0
    /\ bytes = [a \in Addrs |-> Zero]
    /\ allocs = [i \in Ids |-> Free]
    /\ old_mark = FALSE

----------------------------------------------------------------------------
(* What clients hold.                                                      *)

Extent(a) == a.ptr .. (a.ptr + a.len - 1)

HoldsVec(i) == allocs[i].kind = "vec"
HoldsHandle(i) == allocs[i].kind = "handle"

\* The region test that makes an address epoch-gated.
addr_is_ephemeral(ptr) == persistent_capacity <= ptr /\ ptr < Capacity

\* A persistent or foreign address is always live; an ephemeral one is live
\* under the epoch the handle captured.
addr_is_live(ptr, handle_epoch) ==
    addr_is_ephemeral(ptr) => handle_epoch = epoch

\* ArenaHandle::get answers Ok (otherwise Stale).
Resolves(i) == HoldsHandle(i) /\ addr_is_live(allocs[i].ptr, allocs[i].epoch)

\* &mut self: the borrow checker admits the call only when no collection
\* borrows the arena.
ExclusiveBorrow == \A i \in Ids : ~HoldsVec(i)

\* The safety contract of the unsafe rewinds: nothing a client may still
\* dereference lies in the reclaimed range.
Unreferenced(range) ==
    \A i \in Ids : HoldsVec(i) \/ Resolves(i) => Extent(allocs[i]) \cap range = {}

----------------------------------------------------------------------------
(* Allocation.  A request that does not fit returns AllocError and changes *)
(* nothing.                                                                *)

\* Round an offset up, or down, to the next aligned address.
AlignUp(offset, align) == offset + ((align - ((BaseAddr + offset) % align)) % align)
AlignDown(offset, align) == offset - ((BaseAddr + offset) % align)

\* The client keeps the returned pointer as `kind` and initialises its bytes.
Take(i, kind, end, ptr, size) ==
    /\ allocs' = [allocs EXCEPT ![i] = [kind |-> kind, ptr |-> ptr, len |-> size,
                                        epoch |-> epoch, end |-> end]]
    /\ bytes' = [a \in Addrs |-> IF ptr <= a /\ a < ptr + size THEN i ELSE bytes[a]]

\* Mutant: the heads may cross, the limit is taken to be the buffer's end.
alloc_bottom_to_capacity(i, kind, size, align) ==
    LET aligned_offset == AlignUp(bottom_top, align)
        new_top == aligned_offset + size
    IN  /\ allocs[i] = Free
        /\ new_top <= Capacity
        /\ bottom_top' = new_top
        /\ bottom_peak' = IF new_top > bottom_peak THEN new_top ELSE bottom_peak
        /\ Take(i, kind, "bottom", aligned_offset, size)
        /\ UNCHANGED <<persistent_capacity, top_top, top_peak_low, epoch, old_mark>>

alloc_bottom(i, kind, size, align) ==
    LET aligned_offset == AlignUp(bottom_top, align)
        new_top == aligned_offset + size
    IN  /\ allocs[i] = Free
        /\ new_top <= top_top
        /\ bottom_top' = new_top
        /\ bottom_peak' = IF new_top > bottom_peak THEN new_top ELSE bottom_peak
        /\ Take(i, kind, "bottom", aligned_offset, size)
        /\ UNCHANGED <<persistent_capacity, top_top, top_peak_low, epoch, old_mark>>

alloc_top(i, kind, size, align) ==
    LET new_end_offset == top_top - size
        aligned_offset == AlignDown(new_end_offset, align)
    IN  /\ allocs[i] = Free
        /\ new_end_offset >= 0
        /\ aligned_offset >= 0
        /\ aligned_offset >= bottom_top
        /\ top_top' = aligned_offset
        /\ top_peak_low' = IF aligned_offset < top_peak_low
                           THEN aligned_offset ELSE top_peak_low
        /\ Take(i, kind, "top", aligned_offset, size)
        /\ UNCHANGED <<persistent_capacity, bottom_top, bottom_peak, epoch, old_mark>>

\* Dropping a collection or a handle: deallocate is a no-op.
deallocate(i) ==
    /\ allocs[i] # Free
    /\ allocs' = [allocs EXCEPT ![i] = Free]
    /\ UNCHANGED <<persistent_capacity, heads, peaks, epoch, bytes, old_mark>>

----------------------------------------------------------------------------
(* The persistent region.                                                  *)

\* The owner of the region writes through persistent_ptr.
WritePersistent(a) ==
    /\ a < persistent_capacity
    /\ bytes' = [bytes EXCEPT ![a] = Data]
    /\ UNCHANGED <<persistent_capacity, heads, peaks, epoch, allocs, old_mark>>

\* ExceedsCapacity and EpochSaturated are decided before any mutation.
resize_persistent(new_size) ==
    /\ ExclusiveBorrow
    /\ new_size <= Capacity
    /\ epoch < MaxEpoch
    /\ persistent_capacity' = new_size
    /\ bottom_top' = new_size
    /\ top_top' = Capacity
    /\ bottom_peak' = new_size
    /\ top_peak_low' = Capacity
    /\ epoch' = epoch + 1
    /\ old_mark' = FALSE
    /\ UNCHANGED <<bytes, allocs>>

\* Mutant: the copy lands one byte too low.
resize_persistent_capacity_off_by_one(new_size) ==
    LET old == persistent_capacity
        bottom_len == bottom_top - old
        new_bottom_top == new_size + bottom_len
    IN  /\ ExclusiveBorrow
        /\ new_size <= Capacity
        /\ new_size # old
        /\ old <= bottom_top
        /\ new_bottom_top <= top_top
        /\ epoch < MaxEpoch
        /\ bytes' = [a \in Addrs |-> IF new_size <= a + 1 /\ a + 1 < new_bottom_top
                                     THEN bytes[a + 1 - new_size + old] ELSE bytes[a]]
        /\ persistent_capacity' = new_size
        /\ bottom_top' = new_bottom_top
        /\ bottom_peak' = new_bottom_top
        /\ epoch' = epoch + 1
        /\ UNCHANGED <<top_top, top_peak_low, allocs, old_mark>>

\* Keep the persistent prefix and move the bottom bytes by the delta; the
\* copy reads the bytes as they were before it (memmove).  With the bottom head
\* below the boundary `bottom_top - old` underflows and no call returns Ok: it
\* panics where overflow is checked, and where it wraps it is refused as
\* DualHeadedOverlap or runs off the buffer; the arena is never seen resized.
resize_persistent_capacity(new_size) ==
    LET old == persistent_capacity
        bottom_len == bottom_top - old
        new_bottom_top == new_size + bottom_len
    IN  /\ ExclusiveBorrow
        /\ new_size <= Capacity
        /\ new_size # old
        /\ old <= bottom_top
        /\ new_bottom_top <= top_top
        /\ epoch < MaxEpoch
        /\ bytes' = [a \in Addrs |-> IF new_size <= a /\ a < new_bottom_top
                                     THEN bytes[a - new_size + old] ELSE bytes[a]]
        /\ persistent_capacity' = new_size
        /\ bottom_top' = new_bottom_top
        /\ bottom_peak' = new_bottom_top
        /\ epoch' = epoch + 1
        /\ UNCHANGED <<top_top, top_peak_low, allocs, old_mark>>

Zeroed(first, end) == [a \in Addrs |-> IF first <= a /\ a < end THEN Zero ELSE bytes[a]]

zero_persistent ==
    /\ ExclusiveBorrow
    /\ bytes' = Zeroed(0, persistent_capacity)
    /\ UNCHANGED <<persistent_capacity, heads, peaks, epoch, allocs, old_mark>>

zero_persistent_range(start, len) ==
    /\ start + len <= persistent_capacity
    /\ bytes' = Zeroed(start, start + len)
    /\ UNCHANGED <<persistent_capacity, heads, peaks, epoch, allocs, old_mark>>

----------------------------------------------------------------------------
(* Reset, zero, rewind.                                                    *)

\* Both heads return to their ends, from wherever a rewind had left them.
HeadsReset ==
    /\ bottom_top' = persistent_capacity
    /\ top_top' = Capacity
    /\ old_mark' = FALSE

PeaksReset ==
    /\ bottom_peak' = persistent_capacity
    /\ top_peak_low' = Capacity

\* The zeroing calls wipe the bytes first and look at the epoch afterwards:
\* on a saturated epoch they return EpochSaturated with the bytes gone and the
\* heads, and every handle, as they were.
ZeroFrom(start) ==
    /\ ExclusiveBorrow
    /\ bytes' = Zeroed(start, Capacity)
    /\ \/ /\ epoch < MaxEpoch
          /\ HeadsReset
          /\ PeaksReset
          /\ epoch' = epoch + 1
       \/ /\ epoch = MaxEpoch
          /\ UNCHANGED <<heads, peaks, epoch, old_mark>>
    /\ UNCHANGED <<persistent_capacity, allocs>>

zero_dual_headed == ZeroFrom(persistent_capacity)
zero_all == ZeroFrom(0)

\* Mutants: the epoch runs past its width; it wraps; it is not advanced.
reset_unsaturated ==
    /\ ExclusiveBorrow
    /\ HeadsReset
    /\ epoch' = epoch + 1
    /\ UNCHANGED <<persistent_capacity, peaks, bytes, allocs>>

reset_wrapping ==
    /\ ExclusiveBorrow
    /\ HeadsReset
    /\ epoch' = (epoch + 1) % (MaxEpoch + 1)
    /\ UNCHANGED <<persistent_capacity, peaks, bytes, allocs>>

reset_keeping_epoch ==
    /\ ExclusiveBorrow
    /\ HeadsReset
    /\ UNCHANGED <<persistent_capacity, peaks, epoch, bytes, allocs>>

\* reset needs the exclusive borrow; reset_unchecked is the same change under
\* a contract that says the same thing.
reset ==
    /\ ExclusiveBorrow
    /\ epoch < MaxEpoch
    /\ HeadsReset
    /\ epoch' = epoch + 1
    /\ UNCHANGED <<persistent_capacity, peaks, bytes, allocs>>

\* Mutant: the bottom head is reset as well.
reset_top_unchecked_both_ends ==
    /\ \A i \in Ids : HoldsVec(i) => allocs[i].end = "bottom"
    /\ epoch < MaxEpoch
    /\ HeadsReset
    /\ epoch' = epoch + 1
    /\ UNCHANGED <<persistent_capacity, peaks, bytes, allocs>>

\* Bottom collections keep their storage; no collection lives in the top end.
reset_top_unchecked ==
    /\ \A i \in Ids : HoldsVec(i) => allocs[i].end = "bottom"
    /\ epoch < MaxEpoch
    /\ top_top' = Capacity
    /\ epoch' = epoch + 1
    /\ UNCHANGED <<persistent_capacity, bottom_top, peaks, bytes, allocs, old_mark>>

\* The contract: no handle of any earlier epoch is reachable.
force_reset_epoch ==
    /\ ExclusiveBorrow
    /\ \A i \in Ids : ~HoldsHandle(i)
    /\ HeadsReset
    /\ epoch' = 0
    /\ UNCHANGED <<persistent_capacity, peaks, bytes, allocs>>

clear_peaks ==
    /\ ExclusiveBorrow
    /\ bottom_peak' = bottom_top
    /\ top_peak_low' = top_top
    /\ UNCHANGED <<persistent_capacity, heads, epoch, bytes, allocs, old_mark>>

Lesser(m, n) == IF m < n THEN m ELSE n
Greater(m, n) == IF m > n THEN m ELSE n

\* A mark is an earlier position of the head, which may date from before the
\* persistent region grew (the mark of zero always does): the head then lands
\* below the boundary.  The contract only forbids references into the range.
rewind_bottom(mark) ==
    /\ Unreferenced(mark .. (bottom_top - 1))
    /\ bottom_top' = Lesser(mark, bottom_top)
    /\ old_mark' = (old_mark \/ mark < persistent_capacity)
    /\ UNCHANGED <<persistent_capacity, top_top, peaks, epoch, bytes, allocs>>

rewind_top(mark) ==
    /\ Unreferenced(top_top .. (mark - 1))
    /\ top_top' = Greater(mark, top_top)
    /\ UNCHANGED <<persistent_capacity, bottom_top, peaks, epoch, bytes, allocs, old_mark>>

\* No client refers to the bottom (top) region at all.
reset_bottom ==
    /\ Unreferenced(persistent_capacity .. (bottom_top - 1))
    /\ bottom_top' = persistent_capacity
    /\ UNCHANGED <<persistent_capacity, top_top, peaks, epoch, bytes, allocs, old_mark>>

reset_top ==
    /\ Unreferenced(top_top .. (Capacity - 1))
    /\ top_top' = Capacity
    /\ UNCHANGED <<persistent_capacity, bottom_top, peaks, epoch, bytes, allocs, old_mark>>

----------------------------------------------------------------------------
Next ==
    \/ \E i \in Ids, kind \in {"vec", "handle"}, size \in Sizes, align \in Aligns :
          alloc_bottom(i, kind, size, align) \/ alloc_top(i, kind, size, align)
    \/ \E i \in Ids : deallocate(i)
    \/ \E a \in Addrs : WritePersistent(a)
    \/ \E n \in Offsets : resize_persistent(n) \/ resize_persistent_capacity(n)
    \/ zero_persistent
    \/ \E start, len \in Offsets : zero_persistent_range(start, len)
    \/ zero_dual_headed
    \/ zero_all
    \/ reset
    \/ reset_top_unchecked
    \/ force_reset_epoch
    \/ clear_peaks
    \/ \E mark \in Offsets : rewind_bottom(mark) \/ rewind_top(mark)
    \/ reset_bottom
    \/ reset_top

Spec == Init /\ [][Next]_vars

----------------------------------------------------------------------------
(* Properties.                                                             *)

\* Every field of the Arena struct, every byte and every client has its type.
TypeOK ==
    /\ persistent_capacity \in Offsets
    /\ bottom_top \in Offsets
    /\ top_top \in Offsets
    /\ bottom_peak \in Offsets
    /\ top_peak_low \in Offsets
    /\ epoch \in 0 .. MaxEpoch
    /\ bytes \in [Addrs -> Contents]
    /\ allocs \in [Ids -> Allocs]
    /\ old_mark \in BOOLEAN

\* The three regions never cross, so bottom_used and the bottom_len of
\* resize_persistent_capacity do not underflow, after any sequence of
\* allocations, resizes, rewinds and resets but one.  Replaying a mark from
\* before the persistent region grew breaks "Invariant: the bottom head never
\* sits below the persistent boundary", which the resize asserts; a top
\* allocation and a reset_bottom then cross the heads.  The next full reset
\* repairs both.
RegionsOrdered ==
    ~old_mark => persistent_capacity <= bottom_top /\ bottom_top <= top_top

\* The watermarks cover the heads, wherever rewinds and resets put them: top_peak()
\* never under-reports, and neither does bottom_peak() where its subtraction does
\* not underflow (it does after clear_peaks with the head below the boundary).
PeaksCoverHeads ==
    /\ top_peak_low <= top_top
    /\ persistent_capacity <= bottom_peak => bottom_top <= bottom_peak

\* A collection's storage holds what the collection wrote for as long as it
\* lives: no other allocation, relocation, zeroing or reset touches it.  After
\* an old mark, allocations may lie in the persistent region, whose owner
\* writes there: the property starts again at the next full reset.
VecIntact ==
    ~old_mark =>
        \A i \in Ids : HoldsVec(i) => \A a \in Extent(allocs[i]) : bytes[a] = i

\* A handle into the dual-headed region that still resolves reads the bytes
\* written through it: whatever reclaimed or moved them advanced the epoch.
\* The exceptions are a zeroing call on a saturated epoch, which wipes the bytes
\* of handles that go on resolving, and an old mark, as for VecIntact.
HandleIntact ==
    ~old_mark =>
        \A i \in Ids :
            Resolves(i) /\ addr_is_ephemeral(allocs[i].ptr) =>
                \A a \in Extent(allocs[i]) :
                    bytes[a] = i \/ (epoch = MaxEpoch /\ bytes[a] = Zero)

\* A handle that went stale stays stale for as long as its address stays in
\* the dual-headed region, whatever is reset or resized later.
StaleStep ==
    \A i \in Ids :
        /\ HoldsHandle(i) /\ allocs'[i] = allocs[i]
        /\ ~Resolves(i)
        /\ persistent_capacity' <= allocs[i].ptr
        => ~Resolves(i)'

StaleStaysStale == [][StaleStep]_vars

\* The persistent bytes that a step keeps in the region are never overwritten
\* by an allocation or by relocated bytes: only the region's owner and the
\* zeroing calls change them ("preserved across every form of reset").  After
\* an old mark an allocation may be placed among them.
PersistentStep ==
    ~old_mark =>
        \A a \in Addrs :
            a < persistent_capacity /\ a < persistent_capacity' =>
                bytes'[a] \in {bytes[a], Zero, Data}

PersistentPreserved == [][PersistentStep]_vars
=============================================================================
