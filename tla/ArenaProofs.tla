---------------------------- MODULE ArenaProofs ----------------------------
(***************************************************************************)
(* Proofs about the arena, for every capacity, base address, epoch width   *)
(* and set of clients.                                                     *)
(*                                                                         *)
(* HandleIntact and VecIntact are not inductive: they say nothing of where *)
(* the bytes of an allocation lie, and the arena overwrites bytes by       *)
(* position.  The strengthening adds where: an allocation its client may   *)
(* still use lies between the persistent boundary and the head of its end  *)
(* (Placed), and no client holds an epoch of the future (EpochsPast),      *)
(* which is what makes advancing the epoch enough to disown a handle.      *)
(* Where the bytes lie is known only until a mark from before the          *)
(* persistent region grew is replayed; the epochs alone then carry the     *)
(* argument to the next full reset, which makes it known again.            *)
(***************************************************************************)
EXTENDS Arena, TLAPS

\* The client may use its bytes now: a collection, or a handle of this epoch.
Current(i) == HoldsVec(i) \/ (HoldsHandle(i) /\ allocs[i].epoch = epoch)

EpochsPast == \A i \in Ids : HoldsHandle(i) => allocs[i].epoch <= epoch

\* Current allocations lie between the boundary and the head of their end.
Placed ==
    \A i \in Ids : Current(i) =>
        \A a \in Extent(allocs[i]) :
            /\ a \in Addrs
            /\ allocs[i].end = "bottom" => persistent_capacity <= a /\ a < bottom_top
            /\ allocs[i].end = "top" => top_top <= a

\* Current allocations hold what their client wrote, or, for a handle on a
\* saturated epoch, zeros.
Written ==
    \A i \in Ids : Current(i) =>
        \A a \in Extent(allocs[i]) :
            \/ bytes[a] = i
            \/ HoldsHandle(i) /\ epoch = MaxEpoch /\ bytes[a] = Zero

Layout == TypeOK /\ RegionsOrdered /\ PeaksCoverHeads
IInv == Layout /\ EpochsPast /\ (~old_mark => Placed /\ Written)

----------------------------------------------------------------------------
(* Alignment.                                                              *)

\* Rounding up never moves an offset down: `aligned_addr >= cur_addr`.
LEMMA AlignUpBound ==
    ASSUME NEW x \in Nat, NEW al \in Aligns
    PROVE  AlignUp(x, al) \in Nat /\ x <= AlignUp(x, al)
<1>1. al \in Nat /\ al > 0 /\ BaseAddr \in Nat
    BY ArenaAssumption
<1>2. (BaseAddr + x) % al \in 0 .. (al - 1)
    BY <1>1
<1>3. (al - ((BaseAddr + x) % al)) % al \in 0 .. (al - 1)
    BY <1>1, <1>2
<1> QED BY <1>1, <1>3 DEF AlignUp

\* Rounding down never moves an offset up.
LEMMA AlignDownBound ==
    ASSUME NEW x \in Nat, NEW al \in Aligns
    PROVE  AlignDown(x, al) \in Int /\ AlignDown(x, al) <= x
<1>1. al \in Nat /\ al > 0 /\ BaseAddr \in Nat
    BY ArenaAssumption
<1>2. (BaseAddr + x) % al \in 0 .. (al - 1)
    BY <1>1
<1> QED BY <1>1, <1>2 DEF AlignDown

----------------------------------------------------------------------------
(* The layout of the buffer.                                               *)

\* Every step keeps the fields typed, the regions ordered and the watermarks
\* over the heads.
LEMMA LayoutStep ==
    ASSUME Layout, [Next]_vars
    PROVE  Layout'
<1> USE ArenaAssumption
<1> USE DEF Layout, RegionsOrdered, PeaksCoverHeads, Offsets
<1>a. /\ persistent_capacity \in Nat /\ bottom_top \in Nat /\ top_top \in Nat
      /\ bottom_peak \in Nat /\ top_peak_low \in Nat /\ epoch \in Nat
      /\ persistent_capacity <= Capacity /\ bottom_top <= Capacity /\ top_top <= Capacity
      /\ bottom_peak <= Capacity /\ top_peak_low <= Capacity /\ epoch <= MaxEpoch
    BY DEF TypeOK
<1>b. bytes \in [Addrs -> Contents] /\ allocs \in [Ids -> Allocs]
    BY DEF TypeOK
<1>1. ASSUME NEW i \in Ids, NEW kind \in {"vec", "handle"}, NEW size \in Sizes,
             NEW align \in Aligns, alloc_bottom(i, kind, size, align)
      PROVE  Layout'
  <2> DEFINE off == AlignUp(bottom_top, align)
  <2>1. off \in Nat /\ bottom_top <= off /\ size \in Nat
      BY <1>a, AlignUpBound
  <2>2. off + size <= top_top /\ bottom_top' = off + size
      BY <1>1 DEF alloc_bottom
  <2>3. off \in 0 .. Capacity
      BY <2>1, <2>2, <1>a
  <2>4. allocs' \in [Ids -> Allocs]
      BY <2>1, <2>3, <1>1, <1>a, <1>b DEF alloc_bottom, Take, Allocs
  <2>5. bytes' \in [Addrs -> Contents]
      BY <1>1, <1>b DEF alloc_bottom, Take, Contents
  <2>6. bottom_peak' \in Nat /\ bottom_top' <= bottom_peak' /\ bottom_peak' <= Capacity
      BY <2>1, <2>2, <1>1, <1>a DEF alloc_bottom
  <2>7. UNCHANGED <<persistent_capacity, top_top, top_peak_low, epoch, old_mark>>
      BY <1>1 DEF alloc_bottom
  <2> HIDE DEF off
  <2> QED BY <2>1, <2>2, <2>4, <2>5, <2>6, <2>7, <1>a DEF TypeOK
<1>2. ASSUME NEW i \in Ids, NEW kind \in {"vec", "handle"}, NEW size \in Sizes,
             NEW align \in Aligns, alloc_top(i, kind, size, align)
      PROVE  Layout'
  <2> DEFINE off == AlignDown(top_top - size, align)
  <2>0. size \in Nat /\ top_top - size \in Nat
      BY <1>2, <1>a DEF alloc_top
  <2>1. off \in Int /\ off <= top_top - size
      BY <2>0, AlignDownBound
  <2>2. off >= 0 /\ off >= bottom_top /\ top_top' = off
      BY <1>2 DEF alloc_top
  <2>3. off \in 0 .. Capacity
      BY <2>0, <2>1, <2>2, <1>a
  <2>4. allocs' \in [Ids -> Allocs]
      BY <2>0, <2>3, <1>2, <1>a, <1>b DEF alloc_top, Take, Allocs
  <2>5. bytes' \in [Addrs -> Contents]
      BY <1>2, <1>b DEF alloc_top, Take, Contents
  <2>6. top_peak_low' \in Nat /\ top_peak_low' <= top_top' /\ top_peak_low' <= Capacity
      BY <2>1, <2>2, <2>3, <1>2, <1>a DEF alloc_top
  <2>7. UNCHANGED <<persistent_capacity, bottom_top, bottom_peak, epoch, old_mark>>
      BY <1>2 DEF alloc_top
  <2> HIDE DEF off
  <2> QED BY <2>0, <2>1, <2>2, <2>3, <2>4, <2>5, <2>6, <2>7, <1>a DEF TypeOK
<1>3. ASSUME NEW i \in Ids, deallocate(i)
      PROVE  Layout'
  <2>1. Free \in Allocs
      BY DEF Free, Allocs
  <2> QED BY <2>1, <1>3, <1>a, <1>b DEF deallocate, TypeOK, heads, peaks
<1>4. ASSUME NEW a \in Addrs, WritePersistent(a)
      PROVE  Layout'
    BY <1>4, <1>a, <1>b DEF WritePersistent, TypeOK, heads, peaks, Contents
<1>5. ASSUME NEW n \in Offsets, resize_persistent(n)
      PROVE  Layout'
  <2>1. old_mark' \in BOOLEAN
      BY <1>5 DEF resize_persistent
  <2>2. /\ persistent_capacity' = n /\ bottom_top' = n /\ bottom_peak' = n
        /\ top_top' = Capacity /\ top_peak_low' = Capacity
        /\ epoch' = epoch + 1 /\ epoch < MaxEpoch
        /\ UNCHANGED <<bytes, allocs>>
      BY <1>5 DEF resize_persistent
  <2>3. RegionsOrdered' /\ PeaksCoverHeads'
      BY <2>2
  <2> QED BY <2>1, <2>2, <2>3, <1>a, <1>b DEF TypeOK
<1>6. ASSUME NEW n \in Offsets, resize_persistent_capacity(n)
      PROVE  Layout'
  <2>1. bytes' \in [Addrs -> Contents]
    <3>1. \A a \in Addrs : n <= a /\ a < n + (bottom_top - persistent_capacity)
             => a - n + persistent_capacity \in Addrs
        BY <1>a DEF Addrs
    <3> QED BY <3>1, <1>6, <1>b DEF resize_persistent_capacity
  <2> QED BY <2>1, <1>6, <1>a, <1>b DEF resize_persistent_capacity, TypeOK
<1>7. ASSUME NEW s, NEW e, bytes' = Zeroed(s, e)
      PROVE  bytes' \in [Addrs -> Contents]
    BY <1>7, <1>b DEF Zeroed, Contents
<1>8. CASE zero_persistent
  <2>1. bytes' \in [Addrs -> Contents]
      BY <1>7, <1>8 DEF zero_persistent
  <2> QED BY <2>1, <1>8, <1>a, <1>b DEF zero_persistent, TypeOK, heads, peaks
<1>9. ASSUME NEW s \in Offsets, NEW len \in Offsets, zero_persistent_range(s, len)
      PROVE  Layout'
  <2>1. bytes' \in [Addrs -> Contents]
      BY <1>7, <1>9 DEF zero_persistent_range
  <2> QED BY <2>1, <1>9, <1>a, <1>b DEF zero_persistent_range, TypeOK, heads, peaks
<1>10. ASSUME NEW s, ZeroFrom(s)
       PROVE  Layout'
  <2>1. bytes' \in [Addrs -> Contents]
      BY <1>7, <1>10 DEF ZeroFrom
  <2>2. UNCHANGED <<persistent_capacity, allocs>>
      BY <1>10 DEF ZeroFrom
  <2>3. CASE epoch < MaxEpoch /\ HeadsReset /\ PeaksReset /\ epoch' = epoch + 1
    <3>1. old_mark' \in BOOLEAN
        BY <2>3 DEF HeadsReset
    <3>2. /\ bottom_top' = persistent_capacity /\ top_top' = Capacity
          /\ bottom_peak' = persistent_capacity /\ top_peak_low' = Capacity
        BY <2>3 DEF HeadsReset, PeaksReset
    <3>3. RegionsOrdered' /\ PeaksCoverHeads'
        BY <3>2, <2>2, <1>a
    <3> QED BY <3>1, <3>2, <3>3, <2>1, <2>2, <2>3, <1>a, <1>b DEF TypeOK
  <2>4. CASE UNCHANGED <<heads, peaks, epoch, old_mark>>
      BY <2>1, <2>2, <2>4, <1>a, <1>b DEF TypeOK, heads, peaks
  <2> QED BY <2>3, <2>4, <1>10 DEF ZeroFrom
<1>11. CASE reset
  <2>1. old_mark' \in BOOLEAN
      BY <1>11 DEF reset, HeadsReset
  <2>2. /\ bottom_top' = persistent_capacity /\ top_top' = Capacity
        /\ epoch' = epoch + 1 /\ epoch < MaxEpoch
        /\ UNCHANGED <<persistent_capacity, bottom_peak, top_peak_low, bytes, allocs>>
      BY <1>11 DEF reset, HeadsReset, peaks
  <2>3. RegionsOrdered' /\ PeaksCoverHeads'
      BY <2>2, <1>a
  <2> QED BY <2>1, <2>2, <2>3, <1>a, <1>b DEF TypeOK
<1>12. CASE reset_top_unchecked
    BY <1>12, <1>a, <1>b DEF reset_top_unchecked, TypeOK, peaks
<1>13. CASE force_reset_epoch
  <2>1. old_mark' \in BOOLEAN
      BY <1>13 DEF force_reset_epoch, HeadsReset
  <2>2. /\ bottom_top' = persistent_capacity /\ top_top' = Capacity /\ epoch' = 0
        /\ UNCHANGED <<persistent_capacity, bottom_peak, top_peak_low, bytes, allocs>>
      BY <1>13 DEF force_reset_epoch, HeadsReset, peaks
  <2>3. RegionsOrdered' /\ PeaksCoverHeads'
      BY <2>2, <1>a
  <2> QED BY <2>1, <2>2, <2>3, <1>a, <1>b DEF TypeOK
<1>14. CASE clear_peaks
    BY <1>14, <1>a, <1>b DEF clear_peaks, TypeOK, heads
<1>15. ASSUME NEW m \in Offsets, rewind_bottom(m)
       PROVE  Layout'
  <2>1. old_mark' \in BOOLEAN
      BY <1>15 DEF rewind_bottom
  <2>2. /\ bottom_top' = Lesser(m, bottom_top) /\ m \in Nat
        /\ UNCHANGED <<persistent_capacity, top_top, bottom_peak, top_peak_low, epoch,
                       bytes, allocs>>
      BY <1>15 DEF rewind_bottom, peaks
  <2>3. bottom_top' \in Offsets /\ bottom_top' <= bottom_top /\ PeaksCoverHeads'
      BY <2>2, <1>a DEF Lesser
  <2>4. ~old_mark' => ~old_mark /\ ~(m < persistent_capacity)
      BY <1>15, Zenon DEF rewind_bottom
  <2>5. RegionsOrdered'
      BY <2>2, <2>4, <1>a DEF Lesser
  <2> QED BY <2>1, <2>2, <2>3, <2>5, <1>a, <1>b DEF TypeOK
<1>16. ASSUME NEW m \in Offsets, rewind_top(m)
       PROVE  Layout'
    BY <1>16, <1>a, <1>b DEF rewind_top, Greater, TypeOK, peaks
<1>17. CASE reset_bottom
    BY <1>17, <1>a, <1>b DEF reset_bottom, TypeOK, peaks
<1>18. CASE reset_top
    BY <1>18, <1>a, <1>b DEF reset_top, TypeOK, peaks
<1>19. CASE UNCHANGED vars
    BY <1>19, <1>a, <1>b DEF vars, heads, peaks, TypeOK
<1> QED
    BY <1>1, <1>2, <1>3, <1>4, <1>5, <1>6, <1>8, <1>9, <1>10, <1>11, <1>12,
       <1>13, <1>14, <1>15, <1>16, <1>17, <1>18, <1>19
    DEF Next, zero_dual_headed, zero_all

LEMMA LayoutInitially == Init => Layout
<1> SUFFICES ASSUME Init
             PROVE  Layout
    OBVIOUS
<1> USE ArenaAssumption
<1>1. old_mark \in BOOLEAN
    BY DEF Init
<1>2. RegionsOrdered /\ PeaksCoverHeads
    BY DEF Init, RegionsOrdered, PeaksCoverHeads
<1>3. /\ persistent_capacity \in Offsets /\ bottom_top \in Offsets /\ top_top \in Offsets
      /\ bottom_peak \in Offsets /\ top_peak_low \in Offsets /\ epoch \in 0 .. MaxEpoch
      /\ bytes \in [Addrs -> Contents] /\ allocs \in [Ids -> Allocs]
    BY DEF Init, Offsets, Addrs, Contents, Allocs, Free
<1> QED BY <1>1, <1>2, <1>3 DEF Layout, TypeOK

LEMMA LayoutInvariant == Spec => []Layout
<1>1. Init => Layout
    BY LayoutInitially
<1>2. Layout /\ [Next]_vars => Layout'
    BY LayoutStep
<1> QED BY <1>1, <1>2, PTL DEF Spec

\* Every field of the arena keeps its type in every behaviour: the heads and
\* the watermarks stay offsets into the buffer, the epoch within its width.
THEOREM TypeTheorem == Spec => []TypeOK
<1>1. Layout => TypeOK
    BY DEF Layout
<1> QED BY LayoutInvariant, <1>1, PTL

\* In every behaviour of the arena, at every state not reached from the last full
\* reset through a mark older than the persistent region's growth, the regions
\* do not cross; and at every state at all the watermarks cover the heads, where
\* bottom_peak() does not itself underflow.
THEOREM LayoutTheorem == Spec => [](RegionsOrdered /\ PeaksCoverHeads)
<1>1. Layout => RegionsOrdered /\ PeaksCoverHeads
    BY DEF Layout
<1> QED BY LayoutInvariant, <1>1, PTL

----------------------------------------------------------------------------
(* The bytes of the clients.                                               *)

Integrity == EpochsPast /\ Placed /\ Written

\* What is known while no old mark has been replayed.
Intact ==
    /\ Layout /\ Integrity
    /\ persistent_capacity <= bottom_top /\ bottom_top <= top_top

\* Advancing the epoch while no collection borrows the arena disowns every
\* client: no handle is of the new epoch, whatever happens to the bytes.
LEMMA EpochDisowns ==
    ASSUME TypeOK, EpochsPast, ExclusiveBorrow, epoch' = epoch + 1, allocs' = allocs
    PROVE  Integrity'
<1>1. \A i \in Ids : allocs[i].epoch \in Nat /\ epoch \in Nat
    BY ArenaAssumption DEF TypeOK, Allocs
<1>2. \A i \in Ids : ~Current(i)'
    BY <1>1 DEF EpochsPast, ExclusiveBorrow, Current, HoldsVec, HoldsHandle
<1>3. EpochsPast'
    BY <1>1 DEF EpochsPast, HoldsHandle
<1> QED BY <1>2, <1>3 DEF Integrity, Placed, Written

\* An allocation adds one client whose bytes lie where no current client's do,
\* and writes nothing else.
LEMMA TakeKeepsIntegrity ==
    ASSUME Intact, NEW i \in Ids, NEW kind \in {"vec", "handle"},
           NEW end \in {"bottom", "top"}, NEW ptr \in Nat, NEW size \in Nat,
           allocs[i] = Free, Take(i, kind, end, ptr, size),
           epoch' = epoch, persistent_capacity' = persistent_capacity,
           bottom_top <= ptr, ptr + size <= top_top,
           bottom_top' \in Nat, top_top' \in Nat,
           bottom_top <= bottom_top', top_top' <= top_top,
           end = "bottom" => ptr + size <= bottom_top',
           end = "top" => top_top' <= ptr
    PROVE  Integrity'
<1> DEFINE new == [kind |-> kind, ptr |-> ptr, len |-> size, epoch |-> epoch, end |-> end]
<1>a. /\ persistent_capacity \in Nat /\ bottom_top \in Nat /\ top_top \in Nat
      /\ persistent_capacity <= bottom_top /\ top_top <= Capacity /\ Capacity \in Nat
      /\ epoch \in Nat /\ bytes \in [Addrs -> Contents] /\ allocs \in [Ids -> Allocs]
    BY ArenaAssumption DEF Intact, Integrity, Layout, TypeOK, Offsets
<1>1. allocs'[i] = new /\ \A j \in Ids \ {i} : allocs'[j] = allocs[j]
    BY <1>a DEF Take
<1>2. \A a \in Addrs : bytes'[a] = IF ptr <= a /\ a < ptr + size THEN i ELSE bytes[a]
    BY DEF Take
<1>3. ASSUME NEW a \in Extent(new)
      PROVE  a \in Addrs /\ bytes'[a] = i /\ ptr <= a /\ a < ptr + size
    BY <1>3, <1>2, <1>a DEF Extent, Addrs
<1>4. ASSUME NEW j \in Ids \ {i}, Current(j)'
      PROVE  /\ Current(j)
             /\ \A a \in Extent(allocs[j]) :
                    a \in Addrs /\ bytes'[a] = bytes[a]
  <2>1. Current(j)
      BY <1>1, <1>4 DEF Current, HoldsVec, HoldsHandle
  <2>2. \A a \in Extent(allocs[j]) : a \in Addrs /\ (a < bottom_top \/ top_top <= a)
      BY <2>1, <1>a DEF Intact, Integrity, Placed, Allocs
  <2>3. \A a \in Addrs : a \in Int
      BY DEF Addrs
  <2>4. \A a \in Extent(allocs[j]) : a \in Addrs /\ ~(ptr <= a /\ a < ptr + size)
      BY <2>2, <2>3, <1>a
  <2> QED BY <2>1, <2>4, <1>2
<1>5. EpochsPast'
  <2>1. allocs'[i].epoch = epoch
      BY <1>1
  <2>2. \A j \in Ids : HoldsHandle(j)' => allocs'[j].epoch <= epoch
      BY <2>1, <1>1, <1>a DEF Intact, Integrity, EpochsPast, HoldsHandle
  <2> QED BY <2>2 DEF EpochsPast
<1>6. Placed'
  <2> SUFFICES ASSUME NEW j \in Ids, Current(j)', NEW a \in Extent(allocs[j])'
               PROVE  /\ a \in Addrs
                      /\ (allocs[j].end)' = "bottom" =>
                            persistent_capacity <= a /\ a < bottom_top'
                      /\ (allocs[j].end)' = "top" => top_top' <= a
      BY DEF Placed
  <2>1. CASE j = i
    <3>1. a \in Extent(new)
        BY <2>1, <1>1 DEF Extent
    <3> QED BY <3>1, <2>1, <1>1, <1>3, <1>a DEF Addrs
  <2>2. CASE j # i
    <3>1. Current(j) /\ a \in Extent(allocs[j]) /\ allocs'[j] = allocs[j]
        BY <2>2, <1>1, <1>4 DEF Extent
    <3>2. /\ a \in Addrs
          /\ allocs[j].end = "bottom" => persistent_capacity <= a /\ a < bottom_top
          /\ allocs[j].end = "top" => top_top <= a
        BY <3>1 DEF Intact, Integrity, Placed
    <3>3. a \in Int
        BY <3>2 DEF Addrs
    <3> QED BY <3>1, <3>2, <3>3, <1>a
  <2> QED BY <2>1, <2>2
<1>7. Written'
  <2> SUFFICES ASSUME NEW j \in Ids, Current(j)', NEW a \in Extent(allocs[j])'
               PROVE  \/ bytes'[a] = j
                      \/ HoldsHandle(j)' /\ epoch' = MaxEpoch /\ bytes'[a] = Zero
      BY DEF Written
  <2>1. CASE j = i
    <3>1. a \in Extent(new)
        BY <2>1, <1>1 DEF Extent
    <3> QED BY <3>1, <2>1, <1>3
  <2>2. CASE j # i
    <3>1. Current(j) /\ a \in Extent(allocs[j]) /\ allocs'[j] = allocs[j]
        BY <2>2, <1>1, <1>4 DEF Extent
    <3>2. bytes'[a] = bytes[a]
        BY <3>1, <2>2, <1>4
    <3>3. bytes[a] = j \/ (HoldsHandle(j) /\ epoch = MaxEpoch /\ bytes[a] = Zero)
        BY <3>1 DEF Intact, Integrity, Written
    <3> QED BY <3>1, <3>2, <3>3 DEF HoldsHandle
  <2> QED BY <2>1, <2>2
<1> QED BY <1>5, <1>6, <1>7 DEF Integrity

\* A write that stays inside the persistent region misses every current client.
LEMMA PersistentWriteKeepsIntegrity ==
    ASSUME Intact, UNCHANGED <<persistent_capacity, heads, epoch, allocs>>,
           \A a \in Addrs : persistent_capacity <= a => bytes'[a] = bytes[a]
    PROVE  Integrity'
<1>1. /\ persistent_capacity \in Nat /\ bottom_top \in Nat /\ top_top \in Nat
      /\ persistent_capacity <= top_top /\ allocs \in [Ids -> Allocs]
    BY DEF Intact, Integrity, Layout, TypeOK, Offsets
<1>2. \A j \in Ids : Current(j)' <=> Current(j)
    BY DEF Current, HoldsVec, HoldsHandle
<1>3. EpochsPast' /\ Placed'
    BY <1>2 DEF Intact, Integrity, EpochsPast, Placed, Extent, heads, HoldsHandle
<1>4. \A j \in Ids : Current(j) => \A a \in Extent(allocs[j]) : bytes'[a] = bytes[a]
  <2> SUFFICES ASSUME NEW j \in Ids, Current(j), NEW a \in Extent(allocs[j])
               PROVE  bytes'[a] = bytes[a]
      OBVIOUS
  <2>1. a \in Addrs /\ a \in Int /\ (persistent_capacity <= a \/ top_top <= a)
      BY <1>1 DEF Intact, Integrity, Placed, Addrs, Allocs
  <2> QED BY <2>1, <1>1
<1>5. Written'
    BY <1>2, <1>4 DEF Intact, Integrity, Written, Extent, HoldsHandle
<1> QED BY <1>3, <1>5 DEF Integrity

\* A rewind that leaves unreferenced the range it reclaims keeps every current
\* client below (above) the head of its end.
LEMMA RewindKeepsIntegrity ==
    ASSUME Intact, UNCHANGED <<persistent_capacity, epoch, bytes, allocs>>,
           NEW low \in Offsets, NEW high \in Offsets,
           Unreferenced(low .. (high - 1)),
           \/ bottom_top' = low /\ high = bottom_top /\ top_top' = top_top
           \/ top_top' = high /\ low = top_top /\ bottom_top' = bottom_top
    PROVE  Integrity'
<1>1. /\ persistent_capacity \in Nat /\ bottom_top \in Nat /\ top_top \in Nat
      /\ low \in Nat /\ high \in Nat
    BY ArenaAssumption DEF Intact, Integrity, Layout, TypeOK, Offsets
<1>2. \A j \in Ids : Current(j)' <=> Current(j)
    BY DEF Current, HoldsVec, HoldsHandle
<1>3. EpochsPast' /\ Written'
    BY <1>2 DEF Intact, Integrity, EpochsPast, Written, Extent, HoldsHandle
<1>4. ASSUME NEW j \in Ids, Current(j), NEW a \in Extent(allocs[j])
      PROVE  a \in Int /\ a \in Addrs /\ ~(low <= a /\ a < high)
  <2>1. HoldsVec(j) \/ Resolves(j)
      BY <1>4 DEF Current, Resolves, addr_is_live
  <2>2. Extent(allocs[j]) \cap (low .. (high - 1)) = {}
      BY <2>1 DEF Unreferenced
  <2>3. a \in Addrs
      BY <1>4 DEF Intact, Integrity, Placed
  <2>4. a \in Int /\ a \notin low .. (high - 1)
      BY <2>2, <2>3 DEF Addrs
  <2> QED BY <2>3, <2>4, <1>1
<1>5. Placed'
  <2> SUFFICES ASSUME NEW j \in Ids, Current(j), NEW a \in Extent(allocs[j])
               PROVE  /\ a \in Addrs
                      /\ allocs[j].end = "bottom" =>
                            persistent_capacity <= a /\ a < bottom_top'
                      /\ allocs[j].end = "top" => top_top' <= a
      BY <1>2 DEF Placed, Extent
  <2>1. /\ allocs[j].end = "bottom" => persistent_capacity <= a /\ a < bottom_top
        /\ allocs[j].end = "top" => top_top <= a
      BY DEF Intact, Integrity, Placed
  <2> QED BY <2>1, <1>1, <1>4
<1> QED BY <1>3, <1>5 DEF Integrity

\* Every step keeps the bytes of the current clients.
LEMMA IntegrityStep ==
    ASSUME Intact, [Next]_vars
    PROVE  Integrity'
<1> USE ArenaAssumption
<1>a. /\ persistent_capacity \in Nat /\ bottom_top \in Nat /\ top_top \in Nat
      /\ epoch \in Nat /\ top_top <= Capacity
      /\ persistent_capacity <= bottom_top /\ bottom_top <= top_top
      /\ bytes \in [Addrs -> Contents] /\ allocs \in [Ids -> Allocs]
    BY DEF Intact, Integrity, Layout, TypeOK, Offsets
<1>b. TypeOK /\ EpochsPast
    BY DEF Intact, Integrity, Layout
<1>1. ASSUME NEW i \in Ids, NEW kind \in {"vec", "handle"}, NEW size \in Sizes,
             NEW align \in Aligns, alloc_bottom(i, kind, size, align)
      PROVE  Integrity'
  <2> DEFINE off == AlignUp(bottom_top, align)
  <2>1. off \in Nat /\ bottom_top <= off /\ size \in Nat
      BY <1>a, AlignUpBound
  <2>2. /\ off + size <= top_top /\ bottom_top' = off + size
        /\ allocs[i] = Free /\ Take(i, kind, "bottom", off, size)
        /\ UNCHANGED <<persistent_capacity, top_top, epoch>>
      BY <1>1 DEF alloc_bottom
  <2> HIDE DEF off
  <2> QED BY <2>1, <2>2, <1>a, TakeKeepsIntegrity
<1>2. ASSUME NEW i \in Ids, NEW kind \in {"vec", "handle"}, NEW size \in Sizes,
             NEW align \in Aligns, alloc_top(i, kind, size, align)
      PROVE  Integrity'
  <2> DEFINE off == AlignDown(top_top - size, align)
  <2>1. size \in Nat /\ top_top - size \in Nat
      BY <1>2, <1>a DEF alloc_top
  <2>2. off \in Int /\ off <= top_top - size
      BY <2>1, AlignDownBound
  <2>3. /\ off >= 0 /\ off >= bottom_top /\ top_top' = off
        /\ allocs[i] = Free /\ Take(i, kind, "top", off, size)
        /\ UNCHANGED <<persistent_capacity, bottom_top, epoch>>
      BY <1>2 DEF alloc_top
  <2> HIDE DEF off
  <2>4. off \in Nat /\ off + size <= top_top /\ off <= top_top
      BY <2>1, <2>2, <2>3, <1>a
  <2> QED BY <2>1, <2>3, <2>4, <1>a, TakeKeepsIntegrity
<1>3. ASSUME NEW i \in Ids, deallocate(i)
      PROVE  Integrity'
  <2>1. /\ allocs'[i] = Free /\ \A j \in Ids \ {i} : allocs'[j] = allocs[j]
        /\ UNCHANGED <<persistent_capacity, bottom_top, top_top, epoch, bytes>>
      BY <1>3, <1>a DEF deallocate, heads
  <2>2. ~Current(i)' /\ \A j \in Ids \ {i} : Current(j)' <=> Current(j)
      BY <2>1 DEF Current, HoldsVec, HoldsHandle, Free
  <2>3. EpochsPast'
    <3>1. ~HoldsHandle(i)'
        BY <2>1 DEF Free, HoldsHandle
    <3> QED BY <3>1, <2>1, <1>a DEF Intact, Integrity, EpochsPast, HoldsHandle
  <2>4. Placed' /\ Written'
      BY <2>1, <2>2 DEF Intact, Integrity, Placed, Written, Extent, HoldsHandle
  <2> QED BY <2>3, <2>4 DEF Integrity
<1>4. ASSUME NEW a \in Addrs, WritePersistent(a)
      PROVE  Integrity'
  <2>1. \A b \in Addrs : persistent_capacity <= b => bytes'[b] = bytes[b]
      BY <1>4, <1>a DEF WritePersistent, Addrs
  <2> QED BY <2>1, <1>4, PersistentWriteKeepsIntegrity DEF WritePersistent
<1>5. ASSUME NEW n \in Offsets, resize_persistent(n)
      PROVE  Integrity'
    BY <1>5, <1>b, EpochDisowns DEF resize_persistent
<1>6. ASSUME NEW n \in Offsets, resize_persistent_capacity(n)
      PROVE  Integrity'
    BY <1>6, <1>b, EpochDisowns DEF resize_persistent_capacity
<1>7. ASSUME NEW s \in Int, NEW e \in Int, e <= persistent_capacity, bytes' = Zeroed(s, e)
      PROVE  \A a \in Addrs : persistent_capacity <= a => bytes'[a] = bytes[a]
    BY <1>7, <1>a DEF Zeroed, Addrs
<1>8. CASE zero_persistent
  <2>1. \A a \in Addrs : persistent_capacity <= a => bytes'[a] = bytes[a]
      BY <1>7, <1>8, <1>a DEF zero_persistent
  <2> QED BY <2>1, <1>8, PersistentWriteKeepsIntegrity DEF zero_persistent
<1>9. ASSUME NEW s \in Offsets, NEW len \in Offsets, zero_persistent_range(s, len)
      PROVE  Integrity'
  <2>1. \A a \in Addrs : persistent_capacity <= a => bytes'[a] = bytes[a]
      BY <1>7, <1>9, <1>a DEF zero_persistent_range, Offsets
  <2> QED BY <2>1, <1>9, PersistentWriteKeepsIntegrity DEF zero_persistent_range
<1>10. ASSUME NEW s, ZeroFrom(s)
       PROVE  Integrity'
  <2>1. CASE epoch < MaxEpoch
      BY <2>1, <1>10, <1>a, <1>b, EpochDisowns DEF ZeroFrom
  <2>2. CASE epoch = MaxEpoch
    <3>1. /\ UNCHANGED <<persistent_capacity, bottom_top, top_top, epoch, allocs>>
          /\ ExclusiveBorrow /\ bytes' = Zeroed(s, Capacity)
        BY <2>2, <1>10, <1>a DEF ZeroFrom, heads
    <3>2. \A j \in Ids : (Current(j)' <=> Current(j)) /\ (Current(j) => HoldsHandle(j))
        BY <3>1 DEF Current, HoldsVec, HoldsHandle, ExclusiveBorrow
    <3>3. EpochsPast' /\ Placed'
        BY <3>1, <3>2 DEF Intact, Integrity, EpochsPast, Placed, Extent, HoldsHandle
    <3>4. \A a \in Addrs : bytes'[a] \in {bytes[a], Zero}
        BY <3>1 DEF Zeroed
    <3>5. Written'
      <4> SUFFICES ASSUME NEW j \in Ids, Current(j), NEW a \in Extent(allocs[j])
                   PROVE  bytes'[a] \in {j, Zero}
          BY <2>2, <3>1, <3>2 DEF Written, Extent, HoldsHandle
      <4>1. a \in Addrs /\ bytes[a] \in {j, Zero}
          BY DEF Intact, Integrity, Placed, Written
      <4> QED BY <4>1, <3>4
    <3> QED BY <3>3, <3>5 DEF Integrity
  <2> QED BY <2>1, <2>2, <1>10 DEF ZeroFrom
<1>11. CASE reset
    BY <1>11, <1>b, EpochDisowns DEF reset
<1>12. CASE reset_top_unchecked
  <2>1. /\ UNCHANGED <<persistent_capacity, bottom_top, bytes, allocs>>
        /\ epoch' = epoch + 1
        /\ \A i \in Ids : HoldsVec(i) => allocs[i].end = "bottom"
      BY <1>12 DEF reset_top_unchecked
  <2>2. \A j \in Ids :
            allocs[j].epoch \in Nat /\ (HoldsHandle(j) => allocs[j].epoch <= epoch)
      BY <1>a, <1>b DEF Allocs, EpochsPast
  <2>3. \A j \in Ids : Current(j)' =>
            Current(j) /\ HoldsVec(j) /\ ~HoldsHandle(j) /\ allocs[j].end = "bottom"
      BY <2>1, <2>2, <1>a DEF Current, HoldsVec, HoldsHandle
  <2>4. EpochsPast'
      BY <2>1, <2>2, <1>a DEF EpochsPast, HoldsHandle
  <2>5. Placed'
      BY <2>1, <2>3 DEF Intact, Integrity, Placed, Extent
  <2>6. Written'
      BY <2>1, <2>3 DEF Intact, Integrity, Written, Extent, HoldsHandle
  <2> QED BY <2>4, <2>5, <2>6 DEF Integrity
<1>13. CASE force_reset_epoch
  <2>1. allocs' = allocs /\ epoch' = 0 /\ \A j \in Ids : allocs[j].kind = "free"
      BY <1>13, <1>a DEF force_reset_epoch, ExclusiveBorrow, HoldsVec, HoldsHandle, Allocs
  <2>2. \A j \in Ids : ~Current(j)'
      BY <2>1 DEF Current, HoldsVec, HoldsHandle
  <2>3. EpochsPast'
      BY <2>1 DEF EpochsPast, HoldsHandle
  <2> QED BY <2>2, <2>3 DEF Integrity, Placed, Written
<1>14. CASE clear_peaks
    BY <1>14, PersistentWriteKeepsIntegrity DEF clear_peaks
<1>15. ASSUME NEW m \in Offsets, rewind_bottom(m)
       PROVE  Integrity'
  <2>1. CASE m < bottom_top
      BY <2>1, <1>15, <1>a, RewindKeepsIntegrity
         DEF rewind_bottom, Lesser, Offsets
  <2>2. CASE ~(m < bottom_top)
      BY <2>2, <1>15, <1>a, PersistentWriteKeepsIntegrity
         DEF rewind_bottom, Lesser, heads
  <2> QED BY <2>1, <2>2
<1>16. ASSUME NEW m \in Offsets, rewind_top(m)
       PROVE  Integrity'
  <2>1. CASE m > top_top
      BY <2>1, <1>16, <1>a, RewindKeepsIntegrity DEF rewind_top, Greater, Offsets
  <2>2. CASE ~(m > top_top)
      BY <2>2, <1>16, <1>a, PersistentWriteKeepsIntegrity DEF rewind_top, Greater, heads
  <2> QED BY <2>1, <2>2
<1>17. CASE reset_bottom
    BY <1>17, <1>a, RewindKeepsIntegrity DEF reset_bottom, Offsets
<1>18. CASE reset_top
    BY <1>18, <1>a, RewindKeepsIntegrity DEF reset_top, Offsets
<1>19. CASE UNCHANGED vars
    BY <1>19, PersistentWriteKeepsIntegrity DEF vars
<1> QED
    BY <1>1, <1>2, <1>3, <1>4, <1>5, <1>6, <1>8, <1>9, <1>10, <1>11, <1>12,
       <1>13, <1>14, <1>15, <1>16, <1>17, <1>18, <1>19
    DEF Next, zero_dual_headed, zero_all

----------------------------------------------------------------------------
\* Advancing the epoch is enough to keep every client in the past, old marks or not.
LEMMA EpochsStep ==
    ASSUME TypeOK, EpochsPast, [Next]_vars
    PROVE  EpochsPast'
<1>a. epoch \in Nat /\ allocs \in [Ids -> Allocs]
    BY ArenaAssumption DEF TypeOK
<1>1. ASSUME NEW i \in Ids, NEW kind, NEW end, NEW ptr, NEW size,
             Take(i, kind, end, ptr, size), epoch' = epoch
      PROVE  EpochsPast'
    BY <1>1, <1>a DEF Take, EpochsPast, HoldsHandle
<1>2. ASSUME NEW i \in Ids, deallocate(i)
      PROVE  EpochsPast'
    BY <1>2, <1>a DEF deallocate, Free, EpochsPast, HoldsHandle
<1>3. CASE allocs' = allocs /\ epoch' \in {epoch, epoch + 1}
  <2>1. epoch <= epoch' /\ epoch' \in Nat
      BY <1>3, <1>a
  <2>2. \A i \in Ids : allocs[i].epoch \in Nat
      BY <1>a, ArenaAssumption DEF Allocs
  <2> QED BY <1>3, <1>a, <2>1, <2>2 DEF EpochsPast, HoldsHandle
<1>4. CASE force_reset_epoch
    BY <1>4 DEF force_reset_epoch, EpochsPast, HoldsHandle
<1> QED
    BY <1>1, <1>2, <1>3, <1>4
    DEF Next, vars, alloc_bottom, alloc_top, WritePersistent, resize_persistent,
        resize_persistent_capacity, zero_persistent, zero_persistent_range,
        zero_dual_headed, zero_all, ZeroFrom, reset, reset_top_unchecked, clear_peaks,
        rewind_bottom, rewind_top, reset_bottom, reset_top

\* The step that forgets an old mark is a full reset, which disowns every client.
LEMMA FullReset ==
    ASSUME TypeOK, EpochsPast, old_mark, ~old_mark', [Next]_vars
    PROVE  Integrity'
<1>1. CASE ExclusiveBorrow /\ epoch' = epoch + 1 /\ allocs' = allocs
    BY <1>1, EpochDisowns
<1>2. CASE force_reset_epoch
  <2>1. allocs' = allocs /\ \A i \in Ids : ~HoldsVec(i) /\ ~HoldsHandle(i)
      BY <1>2 DEF force_reset_epoch, ExclusiveBorrow
  <2> QED BY <2>1 DEF Integrity, EpochsPast, Placed, Written, Current, HoldsVec, HoldsHandle
<1>3. old_mark' # old_mark
    OBVIOUS
<1> QED
    BY <1>1, <1>2, <1>3, Zenon
    DEF Next, vars, alloc_bottom, alloc_top, deallocate, WritePersistent,
        resize_persistent, resize_persistent_capacity, zero_persistent,
        zero_persistent_range, zero_dual_headed, zero_all, ZeroFrom, reset,
        reset_top_unchecked, clear_peaks, rewind_bottom, rewind_top, reset_bottom,
        reset_top

----------------------------------------------------------------------------
\* The strengthened invariant holds in every behaviour of the arena.
LEMMA Inductive == Spec => []IInv
<1>1. Init => IInv
  <2>1. Init => Layout
      BY LayoutInitially
  <2>2. Init => \A i \in Ids : ~HoldsVec(i) /\ ~HoldsHandle(i)
      BY DEF Init, HoldsVec, HoldsHandle, Free
  <2> QED BY <2>1, <2>2 DEF IInv, EpochsPast, Placed, Written, Current
<1>2. IInv /\ [Next]_vars => IInv'
  <2> SUFFICES ASSUME IInv, [Next]_vars
               PROVE  IInv'
      OBVIOUS
  <2>1. Layout' /\ EpochsPast'
      BY LayoutStep, EpochsStep DEF IInv, Layout
  <2>2. ASSUME ~old_mark'
        PROVE  Placed' /\ Written'
    <3>1. CASE old_mark
        BY <2>2, <3>1, FullReset DEF IInv, Layout, Integrity
    <3>2. CASE ~old_mark
      <4>1. Intact
          BY <3>2 DEF IInv, Intact, Integrity, Layout, RegionsOrdered
      <4> QED BY <4>1, IntegrityStep DEF Integrity
    <3> QED BY <3>1, <3>2
  <2> QED BY <2>1, <2>2 DEF IInv
<1> QED BY <1>1, <1>2, PTL DEF Spec

\* A collection's bytes are its own for as long as it lives, while no mark from
\* before the persistent region grew has been replayed since the last full reset.
THEOREM VecIntactTheorem == Spec => []VecIntact
<1>1. IInv => VecIntact
    BY DEF IInv, Written, VecIntact, Current, HoldsVec, HoldsHandle
<1> QED BY <1>1, Inductive, PTL

\* Under the same condition, a handle into the dual-headed region that resolves
\* reads its own bytes, or zeros once the epoch is saturated: the stale check of
\* ArenaHandle::get is sound for every sequence of resets, resizes, rewinds and
\* zeroings.
THEOREM HandleIntactTheorem == Spec => []HandleIntact
<1>1. IInv => HandleIntact
    BY DEF IInv, Written, HandleIntact, Current, HoldsHandle, Resolves, addr_is_live
<1> QED BY <1>1, Inductive, PTL

\* A stale handle stays stale while its address stays in the dual-headed
\* region: only force_reset_epoch lowers the epoch, and no handle is held then.
THEOREM StaleStaysStaleTheorem == Spec => StaleStaysStale
<1>1. ASSUME IInv, [Next]_vars, NEW i \in Ids, HoldsHandle(i)
      PROVE  epoch' >= epoch
  <2>1. epoch \in Nat /\ ~force_reset_epoch
      BY <1>1, ArenaAssumption DEF IInv, Layout, TypeOK, force_reset_epoch
  <2> QED
      BY <2>1, <1>1 DEF Next, vars, alloc_bottom, alloc_top, deallocate, WritePersistent,
         resize_persistent, resize_persistent_capacity, zero_persistent,
         zero_persistent_range, zero_dual_headed, zero_all, ZeroFrom, reset,
         reset_top_unchecked, clear_peaks, rewind_bottom,
         rewind_top, reset_bottom, reset_top
<1>2. ASSUME IInv, [Next]_vars, NEW i \in Ids, HoldsHandle(i), allocs'[i] = allocs[i],
             ~Resolves(i), persistent_capacity' <= allocs[i].ptr
      PROVE  ~Resolves(i)'
  <2>1. addr_is_ephemeral(allocs[i].ptr) /\ allocs[i].epoch # epoch
      BY <1>2 DEF Resolves, addr_is_live
  <2>2. allocs[i].epoch <= epoch /\ allocs[i].epoch \in Nat /\ epoch \in Nat /\ epoch' \in Nat
    <3>1. TypeOK'
        BY <1>2, LayoutStep DEF IInv, Layout
    <3> QED BY <3>1, <1>2, ArenaAssumption DEF IInv, Layout, TypeOK, Allocs, EpochsPast
  <2>3. allocs[i].epoch # epoch'
      BY <2>1, <2>2, <1>1, <1>2
  <2> QED BY <2>1, <2>3, <1>2 DEF Resolves, addr_is_live, addr_is_ephemeral, HoldsHandle
<1>3. IInv /\ [Next]_vars => [StaleStep]_vars
    BY <1>2 DEF StaleStep
<1> QED BY <1>3, Inductive, PTL DEF Spec, StaleStaysStale

\* No allocation and no relocation writes a byte of the persistent region that
\* stays in it, while no old mark has been replayed since the last full reset.
THEOREM PersistentPreservedTheorem == Spec => PersistentPreserved
<1>1. ASSUME Layout, [Next]_vars, ~old_mark, NEW a \in Addrs,
             a < persistent_capacity, a < persistent_capacity'
      PROVE  bytes'[a] \in {bytes[a], Zero, Data}
  <2>a. /\ persistent_capacity \in Nat /\ bottom_top \in Nat /\ top_top \in Nat
        /\ persistent_capacity <= bottom_top /\ bottom_top <= top_top
        /\ bytes \in [Addrs -> Contents] /\ a \in Int
      BY <1>1, ArenaAssumption DEF Layout, TypeOK, Offsets, RegionsOrdered, Addrs
  <2>1. ASSUME NEW i \in Ids, NEW kind \in {"vec", "handle"}, NEW size \in Sizes,
               NEW align \in Aligns, alloc_bottom(i, kind, size, align)
        PROVE  bytes'[a] = bytes[a]
    <3> DEFINE off == AlignUp(bottom_top, align)
    <3>1. off \in Nat /\ bottom_top <= off
        BY <2>a, AlignUpBound
    <3>2. bytes'[a] = IF off <= a /\ a < off + size THEN i ELSE bytes[a]
        BY <2>1 DEF alloc_bottom, Take
    <3> HIDE DEF off
    <3> QED BY <3>1, <3>2, <2>a, <1>1
  <2>2. ASSUME NEW i \in Ids, NEW kind \in {"vec", "handle"}, NEW size \in Sizes,
               NEW align \in Aligns, alloc_top(i, kind, size, align)
        PROVE  bytes'[a] = bytes[a]
    <3> DEFINE off == AlignDown(top_top - size, align)
    <3>1. top_top - size \in Nat /\ off >= bottom_top
        BY <2>a, <2>2, ArenaAssumption DEF alloc_top
    <3>2. off \in Int
        BY <3>1, AlignDownBound
    <3>3. bytes'[a] = IF off <= a /\ a < off + size THEN i ELSE bytes[a]
        BY <2>2 DEF alloc_top, Take
    <3> HIDE DEF off
    <3> QED BY <3>1, <3>2, <3>3, <2>a, <1>1
  <2>3. ASSUME NEW b \in Addrs, WritePersistent(b)
        PROVE  bytes'[a] \in {bytes[a], Data}
      BY <2>3, <2>a DEF WritePersistent
  <2>4. ASSUME NEW n \in Offsets, resize_persistent_capacity(n)
        PROVE  bytes'[a] = bytes[a]
      BY <2>4, <2>a, <1>1, ArenaAssumption DEF resize_persistent_capacity, Offsets
  <2>5. ASSUME NEW s, NEW e, bytes' = Zeroed(s, e)
        PROVE  bytes'[a] \in {bytes[a], Zero}
      BY <2>5 DEF Zeroed
  <2>6. CASE UNCHANGED bytes
      BY <2>6
  <2> QED
      BY <2>1, <2>2, <2>3, <2>4, <2>5, <2>6, <1>1
      DEF Next, vars, deallocate, resize_persistent, zero_persistent,
          zero_persistent_range, zero_dual_headed, zero_all, ZeroFrom, reset,
          reset_top_unchecked, force_reset_epoch, clear_peaks, rewind_bottom,
          rewind_top, reset_bottom, reset_top
<1>2. Layout /\ [Next]_vars => [PersistentStep]_vars
    BY <1>1 DEF PersistentStep
<1> QED BY <1>2, Inductive, PTL DEF Spec, IInv, PersistentPreserved
=============================================================================
