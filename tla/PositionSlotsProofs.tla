------------------------ MODULE PositionSlotsProofs ------------------------
(***************************************************************************)
(* Proofs about PositionSlots, for every ladder, every account size and    *)
(* every number of resizes: its types, width <= capacity, and that it      *)
(* implements PositionBand.                                                *)
(***************************************************************************)
EXTENDS PositionSlots, TLAPS

-----------------------------------------------------------------------------
(***************************************************************************)
(* The inductive invariant.  TypeOK alone is not inductive: that a copied  *)
(* record is a record rests on the copy loop staying inside the storage,   *)
(* which is CapacityCoversWidth.                                           *)
(***************************************************************************)
MoveInRange == pc = "move" => moved <= Count
IInv == TypeOK /\ CapacityCoversWidth /\ MoveInRange

(* Fees owed are a natural number, whatever the checkpoint.                *)
LEMMA FeesOwedNat ==
  ASSUME NEW s \in Nat, NEW g \in Nat, NEW c \in Nat
  PROVE  FeesOwed(s, g, c) \in Nat
<1>1. SatSub(g, c) \in Nat
  BY DEF SatSub
<1>2. QED
  BY <1>1 DEF FeesOwed

(* Syncing a record leaves a record, with its share untouched.             *)
LEMMA SyncedRecord ==
  ASSUME NEW rec \in Record, NEW g \in Nat
  PROVE  /\ Synced(rec, g) \in Record
         /\ Synced(rec, g).share = rec.share
         /\ Synced(rec, g).checkpoint = g
         /\ Synced(rec, g).pending = rec.pending + FeesOwed(rec.share, g, rec.checkpoint)
<1>1. FeesOwed(rec.share, g, rec.checkpoint) \in Nat
  BY FeesOwedNat DEF Record
<1>2. QED
  BY <1>1 DEF Record, Synced

LEMMA InitInv == Init => IInv
  BY SlotsAssumption
  DEF Init, IInv, TypeOK, CapacityCoversWidth, MoveInRange, Bins, Slots, Record,
      NoRecord, Width, Idle

(* Record updates stay records.                                            *)
LEMMA RecordUpdates ==
  ASSUME NEW rec \in Record, NEW n \in Nat
  PROVE  /\ [rec EXCEPT !.share = n] \in Record
         /\ [rec EXCEPT !.pending = n] \in Record
         /\ [rec EXCEPT !.share = n].share = n
         /\ [rec EXCEPT !.share = n].checkpoint = rec.checkpoint
         /\ [rec EXCEPT !.share = n].pending = rec.pending
         /\ [rec EXCEPT !.pending = n].share = rec.share
         /\ [rec EXCEPT !.pending = n].checkpoint = rec.checkpoint
         /\ [rec EXCEPT !.pending = n].pending = n
  BY DEF Record

(* Bin ids are integers, and so are the edges of both bands.              *)
LEMMA Edges ==
  ASSUME TypeOK
  PROVE  /\ lower \in Int /\ upper \in Int /\ lower <= upper
         /\ target.lower \in Int /\ target.upper \in Int
         /\ target.lower <= target.upper
         /\ capacity \in Nat /\ moved \in Nat
  BY SlotsAssumption DEF TypeOK, Bins

(* PositionMut::slot never points outside the account.                     *)
LEMMA ReachableSlot ==
  ASSUME IInv, NEW b \in Bins, Reachable(b)
  PROVE  SlotOf(b) \in Slots(capacity) /\ pc = "ready"
<1>1. b \in Int
  BY SlotsAssumption DEF Bins
<1>2. QED
  BY <1>1, Edges DEF Reachable, Contains, SlotOf, Slots, IInv

(* What a resize keeps lies inside both bands.                             *)
LEMMA KeptRange ==
  ASSUME TypeOK
  PROVE  /\ Src \in Nat /\ Dst \in Nat /\ Count \in Nat
         /\ KeptLower \in Int /\ KeptUpper \in Int
         /\ Src = KeptLower - lower /\ Dst = KeptLower - target.lower
         /\ Count > 0 => /\ Count = KeptUpper - KeptLower + 1
                         /\ Src + Count <= Width(lower, upper)
                         /\ Dst + Count <= TargetWidth
         /\ Count = 0 => KeptLower > KeptUpper
  BY Edges DEF Src, Dst, Count, KeptLower, KeptUpper, Larger, Smaller, Width,
               TargetWidth

(* The copy loop reads and writes inside the account.                      *)
LEMMA CopyInStorage ==
  ASSUME TypeOK, CapacityCoversWidth, MoveInRange, pc = "move", ~MoveDone
  PROVE  /\ Src + CopyIndex \in Slots(capacity)
         /\ Dst + CopyIndex \in Slots(capacity)
         /\ CopyIndex \in 0 .. Count - 1
         /\ moved + 1 <= Count
<1>1. moved \in Nat /\ moved < Count
  BY Edges, KeptRange DEF MoveInRange, MoveDone
<1>2. CopyIndex \in 0 .. Count - 1
  BY <1>1, KeptRange DEF CopyIndex
<1>3. Width(lower, upper) <= capacity /\ TargetWidth <= capacity
  BY DEF CapacityCoversWidth
<1>4. Width(lower, upper) \in Int /\ TargetWidth \in Int
  BY Edges DEF Width, TargetWidth
<1>5. QED
  BY <1>1, <1>2, <1>3, <1>4, Edges, KeptRange DEF Slots

(* A slot of a live account holds a record.                             *)
LEMMA SettledRecord ==
  ASSUME TypeOK, pc = "ready", NEW k \in Slots(capacity), k < Usable
  PROVE  SettledSlot(k) \in Record
<1>1. mem[k] \in Record
  BY DEF TypeOK
<1>2. lower + k \in Bins
  BY SlotsAssumption DEF TypeOK, Slots, Usable, Smaller, Width, Bins
<1>3. growth[lower + k] \in Nat
  BY <1>2 DEF TypeOK
<1>4. QED
  BY <1>1, <1>3, SyncedRecord DEF SettledSlot

-----------------------------------------------------------------------------
(***************************************************************************)
(* Each action preserves the invariant.                                    *)
(***************************************************************************)
LEMMA OpenInv ==
  ASSUME IInv, NEW l \in Bins, NEW u \in Bins, NEW bins \in 1 .. MaxWidth,
         Open(l, u, bins)
  PROVE  IInv'
<1>1. CapacityFor(bins) \in Nat
  BY SlotsAssumption DEF CapacityFor, Larger
<1>2. TypeOK'
  BY <1>1, SlotsAssumption
  DEF IInv, TypeOK, Open, registers, Record, NoRecord, ValidBand
<1>3. CapacityCoversWidth' /\ MoveInRange'
  BY DEF Open, CapacityCoversWidth, MoveInRange
<1>4. QED
  BY <1>2, <1>3 DEF IInv

(* A rewritten slot of a ready account leaves the invariant.               *)
LEMMA SlotWriteInv ==
  ASSUME IInv, pc = "ready", NEW k, NEW rec \in Record,
         mem' = [mem EXCEPT ![k] = rec],
         UNCHANGED <<pc, header, registers, growth, paid>>
  PROVE  IInv'
  BY DEF IInv, TypeOK, CapacityCoversWidth, MoveInRange, header, registers,
         TargetWidth

LEMMA SharesInv ==
  ASSUME IInv, NEW b \in Bins, NEW n \in Amounts,
         AddShares(b, n) \/ RemoveShares(b, n)
  PROVE  IInv'
<1> DEFINE k == SlotOf(b)
           s == Synced(mem[k], growth[b])
<1>1. k \in Slots(capacity) /\ pc = "ready"
  BY ReachableSlot DEF AddShares, RemoveShares
<1>2. mem[k] \in Record /\ growth[b] \in Nat
  BY <1>1 DEF IInv, TypeOK
<1>3. s \in Record /\ s.share = mem[k].share
  BY <1>2, SyncedRecord
<1>4. s.share + n \in Nat
  BY <1>3, SlotsAssumption DEF Record
<1>5. CASE AddShares(b, n)
  <2>1. mem' = [mem EXCEPT ![k] = [s EXCEPT !.share = s.share + n]]
    BY <1>3, <1>5 DEF AddShares
  <2>2. [s EXCEPT !.share = s.share + n] \in Record
    BY <1>3, <1>4, RecordUpdates
  <2>3. QED
    BY <1>1, <1>5, <2>1, <2>2, SlotWriteInv DEF AddShares
<1>6. CASE RemoveShares(b, n)
  <2>1. mem' = [mem EXCEPT ![k] = [s EXCEPT !.share = s.share - n]]
    BY <1>3, <1>6 DEF RemoveShares
  <2>2. s.share - n \in Nat
    BY <1>3, <1>6, SlotsAssumption DEF RemoveShares, HoldsEnough, Record
  <2>3. [s EXCEPT !.share = s.share - n] \in Record
    BY <1>3, <2>2, RecordUpdates
  <2>4. QED
    BY <1>1, <1>6, <2>1, <2>3, SlotWriteInv DEF RemoveShares
<1>7. QED
  BY <1>5, <1>6

LEMMA EarnInv ==
  ASSUME IInv, NEW b \in Bins, NEW d \in Amounts, Earn(b, d)
  PROVE  IInv'
<1>1. growth' \in [Bins -> Nat]
  BY SlotsAssumption DEF Earn, IInv, TypeOK
<1>2. QED
  BY <1>1 DEF Earn, IInv, TypeOK, CapacityCoversWidth, MoveInRange, header,
              registers, TargetWidth

LEMMA ClaimInv ==
  ASSUME IInv, ClaimFees
  PROVE  IInv'
<1>1. pc = "ready"
  BY DEF ClaimFees
<1>2. ASSUME NEW k \in Slots(capacity), k < Usable
      PROVE  /\ [SettledSlot(k) EXCEPT !.pending = 0] \in Record
             /\ SettledSlot(k).pending \in Nat
  <2>1. SettledSlot(k) \in Record
    BY <1>1, <1>2, SettledRecord DEF IInv
  <2>2. QED
    BY <2>1, RecordUpdates DEF Record
<1>3. mem' \in [Slots(capacity) -> Record]
  BY <1>2 DEF ClaimFees, IInv, TypeOK
<1>4. paid' \in [Bins -> Nat]
  <2>1. ASSUME NEW b \in Bins, Contains(b), SlotOf(b) < Usable
        PROVE  paid[b] + SettledSlot(SlotOf(b)).pending \in Nat
    <3>1. SlotOf(b) \in Slots(capacity)
      BY <2>1, SlotsAssumption
      DEF Slots, SlotOf, Contains, Usable, Smaller, Width, IInv, TypeOK, Bins
    <3>2. SettledSlot(SlotOf(b)).pending \in Nat
      BY <1>2, <2>1, <3>1
    <3>3. paid[b] \in Nat
      BY DEF IInv, TypeOK
    <3>4. QED
      BY <3>2, <3>3
  <2>2. QED
    BY <2>1 DEF ClaimFees, IInv, TypeOK
<1>5. QED
  BY <1>1, <1>3, <1>4
  DEF ClaimFees, IInv, TypeOK, CapacityCoversWidth, MoveInRange, header, registers,
      TargetWidth

LEMMA BeginResizeInv ==
  ASSUME IInv, NEW l \in Bins, NEW u \in Bins, BeginResize(l, u)
  PROVE  IInv'
<1> DEFINE grown == Larger(capacity, Width(l, u))
<1>1. grown \in Nat /\ capacity <= grown /\ Width(l, u) <= grown /\ l <= u
  BY SlotsAssumption DEF BeginResize, ValidBand, Larger, Width, IInv, TypeOK, Bins
<1>2. mem' \in [Slots(grown) -> Record]
  BY <1>1 DEF BeginResize, IInv, TypeOK, Record, NoRecord, Slots
<1>3. TypeOK'
  BY <1>1, <1>2 DEF BeginResize, IInv, TypeOK
<1>4. CapacityCoversWidth'
  BY <1>1, SlotsAssumption
  DEF BeginResize, IInv, TypeOK, CapacityCoversWidth, TargetWidth, Width, Bins
<1>5. MoveInRange'
  BY <1>1, <1>3, SlotsAssumption
  DEF BeginResize, MoveInRange, Count, Width, TypeOK, KeptLower, KeptUpper, Larger,
      Smaller, Bins
<1>6. QED
  BY <1>3, <1>4, <1>5 DEF IInv

LEMMA MoveSlotInv ==
  ASSUME IInv, MoveSlot
  PROVE  IInv'
<1>1. /\ Src + CopyIndex \in Slots(capacity)
      /\ moved + 1 <= Count
  BY CopyInStorage DEF IInv, MoveSlot
<1>2. mem' \in [Slots(capacity) -> Record]
  BY <1>1 DEF MoveSlot, IInv, TypeOK
<1>3. QED
  BY <1>1, <1>2
  DEF MoveSlot, IInv, TypeOK, CapacityCoversWidth, MoveInRange, header, TargetWidth,
      Count, KeptLower, KeptUpper

LEMMA ZeroVacatedInv ==
  ASSUME IInv, ZeroVacated
  PROVE  IInv'
<1>1. mem' \in [Slots(capacity) -> Record]
  BY DEF ZeroVacated, IInv, TypeOK, Record, NoRecord
<1>2. QED
  BY <1>1 DEF ZeroVacated, IInv, TypeOK, CapacityCoversWidth, MoveInRange, header,
              registers, TargetWidth

LEMMA AnchorInv ==
  ASSUME IInv, Anchor
  PROVE  IInv'
<1> DEFINE cut == Smaller(capacity, CapacityFor(TargetWidth))
<1>1. /\ cut \in Nat /\ cut <= capacity
      /\ Width(target.lower, target.upper) <= cut
  <2>1. Width(target.lower, target.upper) <= capacity
    BY DEF Anchor, IInv, CapacityCoversWidth, TargetWidth
  <2>2. Width(target.lower, target.upper) \in Int
    BY Edges DEF IInv, Width
  <2>3. QED
    BY <2>1, <2>2, Edges, SlotsAssumption
    DEF IInv, CapacityFor, Larger, Smaller, TargetWidth
<1>2. mem' \in [Slots(cut) -> Record]
  BY <1>1 DEF Anchor, IInv, TypeOK, Slots
<1>3. target' \in [lower : Bins, upper : Bins] /\ target'.lower <= target'.upper
  BY SlotsAssumption DEF Anchor, Idle, Bins
<1>4. QED
  BY <1>1, <1>2, <1>3
  DEF Anchor, IInv, TypeOK, CapacityCoversWidth, MoveInRange

LEMMA CloseInv ==
  ASSUME IInv, Close
  PROVE  IInv'
  BY DEF Close, IInv, TypeOK, CapacityCoversWidth, MoveInRange, header, registers

LEMMA StepInv == IInv /\ [Next]_vars => IInv'
<1> SUFFICES ASSUME IInv, [Next]_vars
             PROVE  IInv'
  OBVIOUS
<1>1. CASE UNCHANGED vars
  BY <1>1 DEF vars, IInv, TypeOK, CapacityCoversWidth, MoveInRange, TargetWidth,
              Count, KeptLower, KeptUpper
<1>2. QED
  BY <1>1, OpenInv, SharesInv, EarnInv, ClaimInv, BeginResizeInv, MoveSlotInv,
     ZeroVacatedInv, AnchorInv, CloseInv
  DEF Next, Resize

(* Every operation of the account, and every record a resize copies, keeps *)
(* the types, the band under way within the storage, and the copy counter  *)
(* within the kept records.                                                *)
THEOREM Invariance == Spec => []IInv
  BY InitInv, StepInv, PTL DEF Spec

(* Types hold in every reachable state, resizes included.                  *)
THEOREM TypeCorrect == Spec => []TypeOK
<1>1. IInv => TypeOK
  BY DEF IInv
<1>2. QED
  BY <1>1, Invariance, PTL

(* No position ever declares range it has no storage for.                  *)
THEOREM WidthWithinCapacity == Spec => []CapacityCoversWidth
<1>1. IInv => CapacityCoversWidth
  BY DEF IInv
<1>2. QED
  BY <1>1, Invariance, PTL

-----------------------------------------------------------------------------
(***************************************************************************)
(* PositionSlots implements PositionBand, for every value of the           *)
(* constants.  The argument is one lemma per action saying what it does to *)
(* RecordOf, the record each bin has wherever its slot is; the refinement  *)
(* then follows bin by bin, with no more slot arithmetic.                  *)
(***************************************************************************)
TargetFits == pc \in {"move", "anchor"} => TargetWidth <= MaxWidth

(* No checkpoint is ahead of the growth it is a checkpoint of, so the      *)
(* saturating subtraction of fees_owed never saturates.                    *)
CheckpointsBehind == \A b \in Bins : RecordOf(b).checkpoint <= growth[b]

RInv == IInv /\ TargetFits /\ CheckpointsBehind

-----------------------------------------------------------------------------
(***************************************************************************)
(* What each action does to the record of a bin.                           *)
(***************************************************************************)
LEMMA BinsAreInts == Bins \subseteq Int
  BY SlotsAssumption DEF Bins

LEMMA RecordOfType ==
  ASSUME IInv, NEW b \in Bins
  PROVE  RecordOf(b) \in Record
<1>1. NoRecord \in Record
  BY DEF Record, NoRecord
<1>2. ASSUME NEW k \in Slots(capacity)
      PROVE  mem[k] \in Record
  BY DEF IInv, TypeOK
<1>3. CASE pc = "ready" /\ Contains(b)
  <2>1. SlotOf(b) \in Slots(capacity)
    BY <1>3, BinsAreInts, Edges
    DEF IInv, Contains, SlotOf, Slots, CapacityCoversWidth, Width
  <2>2. QED
    BY <1>2, <1>3, <2>1 DEF RecordOf
<1>4. CASE pc = "move" /\ b \in Kept
  <2>1. SlotOf(b) \in Slots(capacity) /\ b - target.lower \in Slots(capacity)
    BY <1>4, BinsAreInts, Edges
    DEF IInv, Kept, KeptLower, KeptUpper, Larger, Smaller, SlotOf, Slots,
        CapacityCoversWidth, TargetWidth, Width
  <2>2. QED
    BY <1>2, <1>4, <2>1 DEF RecordOf
<1>5. CASE pc = "anchor" /\ b \in target.lower .. target.upper
  <2>1. b - target.lower \in Slots(capacity)
    BY <1>5, BinsAreInts, Edges
    DEF IInv, Slots, CapacityCoversWidth, TargetWidth, Width
  <2>2. QED
    BY <1>2, <1>5, <2>1 DEF RecordOf
<1>6. CASE ~ \/ pc = "ready" /\ Contains(b)
             \/ pc = "move" /\ b \in Kept
             \/ pc = "anchor" /\ b \in target.lower .. target.upper
  BY <1>1, <1>6 DEF RecordOf
<1>7. QED
  BY <1>3, <1>4, <1>5, <1>6

LEMMA OpenRecord ==
  ASSUME IInv, NEW l \in Bins, NEW u \in Bins, NEW bins \in 1 .. MaxWidth,
         Open(l, u, bins), NEW b \in Bins
  PROVE  RecordOf(b) = NoRecord /\ RecordOf(b)' = NoRecord
<1>1. RecordOf(b) = NoRecord
  BY DEF Open, RecordOf
<1>2. CASE b \in l .. u
  <2>1. b - l \in Slots(CapacityFor(bins))
    BY <1>2, BinsAreInts, SlotsAssumption
    DEF Open, Slots, Width, CapacityFor, Larger
  <2>2. QED
    BY <1>1, <1>2, <2>1, BinsAreInts DEF Open, RecordOf, Contains, SlotOf
<1>3. CASE b \notin l .. u
  BY <1>1, <1>3, BinsAreInts DEF Open, RecordOf, Contains
<1>4. QED
  BY <1>2, <1>3

(* Writing the slot of bin c of a ready account changes c's record only.   *)
LEMMA SlotWriteRecord ==
  ASSUME IInv, NEW c \in Bins, Reachable(c), NEW rec,
         mem' = [mem EXCEPT ![SlotOf(c)] = rec],
         UNCHANGED <<pc, header>>, NEW b \in Bins
  PROVE  /\ RecordOf(c) = mem[SlotOf(c)]
         /\ RecordOf(b)' = IF b = c THEN rec ELSE RecordOf(b)
<1>1. SlotOf(c) \in Slots(capacity) /\ pc = "ready" /\ Contains(c)
  BY ReachableSlot DEF Reachable
<1>2. RecordOf(c) = mem[SlotOf(c)]
  BY <1>1 DEF RecordOf
<1>3. CASE Contains(b)
  <2>1. SlotOf(b) \in Int /\ SlotOf(c) \in Int /\ (SlotOf(b) = SlotOf(c) <=> b = c)
    BY BinsAreInts, Edges DEF SlotOf, IInv
  <2>2. RecordOf(b) = mem[SlotOf(b)]
    BY <1>1, <1>3 DEF RecordOf
  <2>3. RecordOf(b)' = mem'[SlotOf(b)]
    BY <1>1, <1>3 DEF RecordOf, header, Contains, SlotOf
  <2>4. SlotOf(b) \in Slots(capacity)
    BY <1>3, BinsAreInts, Edges
    DEF IInv, Contains, SlotOf, Slots, CapacityCoversWidth, Width
  <2>5. QED
    BY <1>1, <1>2, <2>1, <2>2, <2>3, <2>4 DEF IInv, TypeOK
<1>4. CASE ~Contains(b)
  BY <1>1, <1>2, <1>4 DEF RecordOf, header, Contains
<1>5. QED
  BY <1>2, <1>3, <1>4

(* What syncing the slot of a reachable bin yields.                        *)
LEMMA SyncedSlot ==
  ASSUME IInv, NEW c \in Bins, Reachable(c)
  PROVE  LET old == RecordOf(c)
             new == Synced(mem[SlotOf(c)], growth[c])
         IN  /\ mem[SlotOf(c)] = old
             /\ new \in Record
             /\ new.share = old.share
             /\ new.checkpoint = growth[c]
             /\ new.pending = old.pending + FeesOwed(old.share, growth[c], old.checkpoint)
<1>1. RecordOf(c) \in Record /\ growth[c] \in Nat
  BY RecordOfType DEF IInv, TypeOK
<1>2. mem[SlotOf(c)] = RecordOf(c)
  BY ReachableSlot DEF Reachable, RecordOf
<1>3. QED
  BY <1>1, <1>2, SyncedRecord

(* A deposit banks bin c's fees and adds to its share.                     *)
LEMMA AddSharesRecord ==
  ASSUME IInv, NEW c \in Bins, NEW n \in Amounts, AddShares(c, n), NEW b \in Bins
  PROVE  IF b = c
         THEN /\ RecordOf(b)'.share = RecordOf(b).share + n
              /\ RecordOf(b)'.checkpoint = growth[b]
              /\ RecordOf(b)'.pending = RecordOf(b).pending
                   + FeesOwed(RecordOf(b).share, growth[b], RecordOf(b).checkpoint)
         ELSE RecordOf(b)' = RecordOf(b)
<1> DEFINE s == Synced(mem[SlotOf(c)], growth[c])
           new == [s EXCEPT !.share = s.share + n]
<1>1. Reachable(c)
  BY DEF AddShares
<1>2. s \in Record /\ s.share + n \in Nat
  BY <1>1, SyncedSlot, SlotsAssumption DEF Record
<1>3. new.share = s.share + n /\ new.checkpoint = s.checkpoint /\ new.pending = s.pending
  BY <1>2, RecordUpdates
<1>4. mem' = [mem EXCEPT ![SlotOf(c)] = new] /\ UNCHANGED <<pc, header>>
  BY DEF AddShares
<1> HIDE DEF new
<1>5. RecordOf(b)' = IF b = c THEN new ELSE RecordOf(b)
  BY <1>1, <1>4, SlotWriteRecord
<1>6. QED
  BY <1>1, <1>3, <1>5, SyncedSlot

(* A withdrawal banks bin c's fees and takes from its share.               *)
LEMMA RemoveSharesRecord ==
  ASSUME IInv, NEW c \in Bins, NEW n \in Amounts, RemoveShares(c, n), NEW b \in Bins
  PROVE  IF b = c
         THEN /\ n <= RecordOf(b).share
              /\ RecordOf(b)'.share = RecordOf(b).share - n
              /\ RecordOf(b)'.checkpoint = growth[b]
              /\ RecordOf(b)'.pending = RecordOf(b).pending
                   + FeesOwed(RecordOf(b).share, growth[b], RecordOf(b).checkpoint)
         ELSE RecordOf(b)' = RecordOf(b)
<1> DEFINE s == Synced(mem[SlotOf(c)], growth[c])
           new == [s EXCEPT !.share = s.share - n]
<1>1. Reachable(c)
  BY DEF RemoveShares
<1>2. s \in Record /\ n \in Nat
  BY <1>1, SyncedSlot, SlotsAssumption
<1>3. n <= RecordOf(c).share
  BY <1>1, <1>2, SyncedSlot DEF RemoveShares, HoldsEnough, Record
<1>4. s.share - n \in Nat
  BY <1>1, <1>2, <1>3, SyncedSlot DEF Record
<1>5. new.share = s.share - n /\ new.checkpoint = s.checkpoint /\ new.pending = s.pending
  BY <1>2, <1>4, RecordUpdates
<1>6. mem' = [mem EXCEPT ![SlotOf(c)] = new] /\ UNCHANGED <<pc, header>>
  BY DEF RemoveShares
<1> HIDE DEF new
<1>7. RecordOf(b)' = IF b = c THEN new ELSE RecordOf(b)
  BY <1>1, <1>6, SlotWriteRecord
<1>8. QED
  BY <1>1, <1>3, <1>5, <1>7, SyncedSlot

LEMMA EarnRecord ==
  ASSUME IInv, NEW c \in Bins, NEW d \in Amounts, Earn(c, d), NEW b \in Bins
  PROVE  RecordOf(b)' = RecordOf(b)
  BY DEF Earn, RecordOf, header, registers, Contains, SlotOf

(* A claim leaves every bin its share, with nothing pending, and pays what *)
(* the bin was owed.                                                       *)
LEMMA ClaimRecord ==
  ASSUME IInv, ClaimFees, NEW b \in Bins
  PROVE  LET old == RecordOf(b)
         IN  /\ RecordOf(b)'.share = old.share
             /\ RecordOf(b)'.pending = 0
             /\ RecordOf(b)'.checkpoint \in {old.checkpoint, growth[b]}
             /\ FeesOwed(old.share, growth[b], RecordOf(b)'.checkpoint) = 0
             /\ paid'[b] = paid[b] + old.pending
                             + FeesOwed(old.share, growth[b], old.checkpoint)
<1> DEFINE old == RecordOf(b)
           k == SlotOf(b)
<1>1. pc = "ready" /\ pc' = "ready" /\ UNCHANGED <<lower, upper, capacity, growth>>
  BY DEF ClaimFees, header
<1>2. old \in Record /\ growth[b] \in Nat /\ paid[b] \in Nat
  BY RecordOfType DEF IInv, TypeOK
<1>3. \A s \in Nat : 0 * s = 0 /\ s * 0 = 0
  OBVIOUS
<1>4. CASE Contains(b)
  <2>1. k \in Slots(capacity) /\ k < Usable /\ lower + k = b
    BY <1>4, BinsAreInts, Edges
    DEF IInv, Contains, SlotOf, Slots, CapacityCoversWidth, Width, Usable, Smaller
  <2>2. old = mem[k]
    BY <1>1, <1>4 DEF RecordOf
  <2>3. SettledSlot(k) = IF old.share # 0 THEN Synced(old, growth[b]) ELSE old
    BY <2>1, <2>2 DEF SettledSlot
  <2>4. /\ SettledSlot(k) \in Record
        /\ SettledSlot(k).share = old.share
        /\ SettledSlot(k).checkpoint = IF old.share # 0 THEN growth[b] ELSE old.checkpoint
        /\ SettledSlot(k).pending =
             old.pending + FeesOwed(old.share, growth[b], old.checkpoint)
    <3>1. CASE old.share # 0
      BY <1>2, <2>3, <3>1, SyncedRecord
    <3>2. CASE old.share = 0
      <4>1. FeesOwed(old.share, growth[b], old.checkpoint) = 0
        BY <1>2, <1>3, <3>2 DEF FeesOwed, SatSub, Record
      <4>2. QED
        BY <1>2, <2>3, <3>2, <4>1 DEF Record
    <3>3. QED
      BY <3>1, <3>2
  <2>5. RecordOf(b)' = [SettledSlot(k) EXCEPT !.pending = 0]
    BY <1>1, <1>4, <2>1 DEF ClaimFees, RecordOf, Contains, SlotOf, Slots
  <2>6. /\ RecordOf(b)'.share = old.share
        /\ RecordOf(b)'.pending = 0
        /\ RecordOf(b)'.checkpoint = SettledSlot(k).checkpoint
    BY <2>4, <2>5, RecordUpdates
  <2>7. FeesOwed(old.share, growth[b], SettledSlot(k).checkpoint) = 0
    BY <1>2, <1>3, <2>4 DEF FeesOwed, SatSub, Record
  <2>8. paid'[b] = paid[b] + SettledSlot(k).pending
    BY <1>4, <2>1 DEF ClaimFees
  <2>9. FeesOwed(old.share, growth[b], old.checkpoint) \in Nat
    BY <1>2, FeesOwedNat DEF Record
  <2>10. QED
    BY <1>2, <2>4, <2>6, <2>7, <2>8, <2>9 DEF Record
<1>5. CASE ~Contains(b)
  <2>1. old = NoRecord /\ RecordOf(b)' = NoRecord /\ paid'[b] = paid[b]
    BY <1>1, <1>5 DEF ClaimFees, RecordOf, Contains
  <2>2. \A g, c \in Nat : FeesOwed(0, g, c) = 0
    BY <1>3 DEF FeesOwed, SatSub
  <2>3. QED
    BY <1>2, <2>1, <2>2 DEF NoRecord, Record
<1>6. QED
  BY <1>4, <1>5

(* A resize may begin only when every bin it drops is empty, and it leaves *)
(* the record of every bin it keeps.                                       *)
LEMMA BeginResizeRecord ==
  ASSUME IInv, NEW l \in Bins, NEW u \in Bins, BeginResize(l, u), NEW b \in Bins
  PROVE  \/ RecordOf(b)' = RecordOf(b)
         \/ RecordOf(b)' = NoRecord /\ SlotIsEmpty(RecordOf(b))
<1>1. /\ pc = "ready" /\ pc' = "move" /\ UNCHANGED <<lower, upper>>
      /\ target' = [lower |-> l, upper |-> u] /\ moved' = 0
      /\ l \in Int /\ u \in Int /\ l <= u /\ b \in Int
  BY BinsAreInts DEF BeginResize, ValidBand
<1>2. ~Contains(b) => RecordOf(b) = NoRecord
  BY <1>1 DEF RecordOf
<1>3. (b \in Kept)' <=> Contains(b) /\ l <= b /\ b <= u
  BY <1>1, Edges DEF Kept, KeptLower, KeptUpper, Larger, Smaller, Contains, IInv
<1>4. CASE Contains(b) /\ l <= b /\ b <= u
  <2>1. SlotOf(b) \in Slots(capacity)
    BY <1>4, <1>1, Edges DEF IInv, Contains, SlotOf, Slots, CapacityCoversWidth, Width
  <2>2. mem'[SlotOf(b)] = mem[SlotOf(b)]
    <3> DEFINE grown == Larger(capacity, Width(l, u))
    <3>1. grown \in Int /\ capacity <= grown
      BY <1>1, Edges DEF IInv, Larger, Width
    <3>2. mem' = [k \in Slots(grown) |-> IF k < capacity THEN mem[k] ELSE NoRecord]
      BY DEF BeginResize
    <3> HIDE DEF grown
    <3>3. SlotOf(b) \in Slots(grown) /\ SlotOf(b) < capacity
      BY <2>1, <3>1, Edges DEF IInv, Slots
    <3>4. QED
      BY <3>2, <3>3
  <2>3. RecordOf(b) = mem[SlotOf(b)]
    BY <1>1, <1>4 DEF RecordOf
  <2>4. RecordOf(b)' = IF CopiedYet(b)' THEN mem'[b - l] ELSE mem'[SlotOf(b)]
    BY <1>1, <1>3, <1>4 DEF RecordOf, SlotOf
  <2>5. CopiedYet(b)' => b - l = SlotOf(b)
    BY <1>1, <1>4, Edges
    DEF CopiedYet, MoveDone, Src, Dst, Count, KeptLower, KeptUpper, Larger, Smaller,
        Width, Contains, SlotOf, IInv
  <2>6. QED
    BY <2>2, <2>3, <2>4, <2>5
<1>5. CASE Contains(b) /\ ~(l <= b /\ b <= u)
  <2>1. RecordOf(b)' = NoRecord
    BY <1>1, <1>3, <1>5 DEF RecordOf
  <2>2. RecordOf(b) = mem[SlotOf(b)]
    BY <1>1, <1>5 DEF RecordOf
  <2>3. SlotOf(b) \in (0 .. Smaller(SatSub(l, lower), Usable) - 1)
                     \cup (Smaller(SatSub(u + 1, lower), Usable) .. Usable - 1)
    <3>1. Usable = upper - lower + 1 /\ SlotOf(b) = b - lower
      BY Edges DEF IInv, CapacityCoversWidth, Width, Usable, Smaller, SlotOf
    <3>2. lower <= b /\ b <= upper
      BY <1>5 DEF Contains
    <3>3. CASE b < l
      BY <1>1, <3>1, <3>2, <3>3, Edges DEF IInv, Smaller, SatSub
    <3>4. CASE u < b
      BY <1>1, <3>1, <3>2, <3>4, Edges DEF IInv, Smaller, SatSub
    <3>5. QED
      BY <1>1, <1>5, <3>3, <3>4
  <2>4. SlotIsEmpty(mem[SlotOf(b)])
    BY <2>3 DEF BeginResize, IsEmptyOutside
  <2>5. QED
    BY <2>1, <2>2, <2>4
<1>6. CASE ~Contains(b)
  BY <1>1, <1>2, <1>3, <1>6 DEF RecordOf
<1>7. QED
  BY <1>4, <1>5, <1>6

(* One turn of the copy loop changes no bin's record: it never overwrites  *)
(* a record that is still to be copied.                                    *)
LEMMA MoveSlotRecord ==
  ASSUME IInv, MoveSlot, NEW b \in Bins
  PROVE  RecordOf(b)' = RecordOf(b)
<1>1. /\ pc = "move" /\ pc' = "move" /\ UNCHANGED <<header, target>>
      /\ moved' = moved + 1 /\ Src # Dst /\ moved # Count
      /\ mem' = [mem EXCEPT ![Dst + CopyIndex] = mem[Src + CopyIndex]]
  BY DEF MoveSlot, MoveDone
<1>2. /\ Src + CopyIndex \in Slots(capacity) /\ Dst + CopyIndex \in Slots(capacity)
      /\ CopyIndex \in 0 .. Count - 1 /\ moved + 1 <= Count
  BY <1>1, CopyInStorage DEF IInv, MoveSlot
<1>3. UNCHANGED <<Kept, KeptLower, KeptUpper, Src, Dst, Count>>
  BY <1>1 DEF Kept, KeptLower, KeptUpper, Src, Dst, Count, header
<1>4. CASE b \notin Kept
  BY <1>1, <1>3, <1>4 DEF RecordOf
<1>5. CASE b \in Kept
  <2> DEFINE j == b - KeptLower
  <2>1. /\ b \in Int /\ j \in 0 .. Count - 1
        /\ Count = KeptUpper - KeptLower + 1
        /\ b - target.lower = Dst + j /\ SlotOf(b) = Src + j
        /\ KeptUpper - b = Count - 1 - j
    <3>1. b \in Int /\ KeptLower <= b /\ b <= KeptUpper
      BY <1>5, BinsAreInts, KeptRange DEF IInv, Kept
    <3>2. Count > 0
      BY <1>2, Edges, KeptRange DEF IInv
    <3>3. QED
      BY <3>1, <3>2, Edges, KeptRange DEF IInv, SlotOf
  <2>2. /\ CopiedYet(b) <=> IF Dst < Src THEN j < moved ELSE Count - 1 - j < moved
        /\ CopiedYet(b)' <=> IF Dst < Src THEN j < moved + 1 ELSE Count - 1 - j < moved + 1
    BY <1>1, <1>2, <1>3, <2>1, Edges, KeptRange DEF IInv, CopiedYet, MoveDone
  <2>3. /\ RecordOf(b) = IF CopiedYet(b) THEN mem[Dst + j] ELSE mem[Src + j]
        /\ RecordOf(b)' = IF CopiedYet(b)' THEN mem'[Dst + j] ELSE mem'[Src + j]
    BY <1>1, <1>3, <1>5, <2>1 DEF RecordOf, SlotOf, header
  <2>4. /\ Dst + j \in Slots(capacity) /\ Src + j \in Slots(capacity)
    <3>1. /\ Width(lower, upper) <= capacity /\ TargetWidth <= capacity
          /\ Width(lower, upper) \in Int /\ TargetWidth \in Int
      BY <1>1, Edges DEF IInv, CapacityCoversWidth, Width, TargetWidth
    <3>2. QED
      BY <2>1, <3>1, Edges, KeptRange DEF IInv, Slots
  <2>5. \A k \in Slots(capacity) :
          mem'[k] = IF k = Dst + CopyIndex THEN mem[Src + CopyIndex] ELSE mem[k]
    BY <1>1 DEF IInv, TypeOK
  <2>6. moved \in Nat /\ Dst \in Nat /\ Src \in Nat /\ Count \in Nat
    BY Edges, KeptRange DEF IInv
  <2>7. CASE Dst < Src
    <3>1. CopyIndex = moved
      BY <2>7 DEF CopyIndex
    <3>2. QED
      BY <1>2, <2>1, <2>2, <2>3, <2>4, <2>5, <2>6, <2>7, <3>1
  <2>8. CASE ~(Dst < Src)
    <3>1. CopyIndex = Count - 1 - moved /\ Src < Dst
      BY <1>1, <2>6, <2>8 DEF CopyIndex
    <3>2. QED
      BY <1>2, <2>1, <2>2, <2>3, <2>4, <2>5, <2>6, <2>8, <3>1
  <2>9. QED
    BY <2>7, <2>8
<1>6. QED
  BY <1>4, <1>5

(* Zeroing touches no record that was kept, and leaves nothing in the      *)
(* slots of the bins that arrive.                                          *)
LEMMA ZeroVacatedRecord ==
  ASSUME IInv, ZeroVacated, NEW b \in Bins
  PROVE  RecordOf(b)' = RecordOf(b)
<1>1. /\ pc = "move" /\ pc' = "anchor" /\ MoveDone
      /\ UNCHANGED <<header, registers>>
      /\ mem' = [k \in Slots(capacity) |-> IF k \in Vacated THEN NoRecord ELSE mem[k]]
      /\ b \in Int
  BY BinsAreInts DEF ZeroVacated
<1>2. /\ TargetWidth \in Int /\ TargetWidth <= capacity
      /\ TargetWidth = target.upper - target.lower + 1
  BY <1>1, Edges DEF IInv, CapacityCoversWidth, TargetWidth, Width
<1>3. b \in Kept => b \in target.lower .. target.upper
  BY <1>1, Edges DEF IInv, Kept, KeptLower, KeptUpper, Larger, Smaller
<1>4. CASE b \in Kept
  <2>1. RecordOf(b) = mem[b - target.lower]
    BY <1>1, <1>4 DEF RecordOf, CopiedYet
  <2>2. RecordOf(b)' = mem'[b - target.lower]
    BY <1>1, <1>3, <1>4 DEF RecordOf, registers
  <2>3. b - target.lower \in Slots(capacity)
    BY <1>1, <1>2, <1>3, <1>4, Edges DEF IInv, Slots
  <2>4. b - target.lower \notin Vacated
    BY <1>1, <1>4, Edges, KeptRange DEF IInv, Vacated, Kept
  <2>5. QED
    BY <1>1, <2>1, <2>2, <2>3, <2>4
<1>5. CASE b \in target.lower .. target.upper /\ b \notin Kept
  <2>1. RecordOf(b) = NoRecord
    BY <1>1, <1>5 DEF RecordOf
  <2>2. RecordOf(b)' = mem'[b - target.lower]
    BY <1>1, <1>5 DEF RecordOf, registers
  <2>3. b - target.lower \in Slots(capacity)
    BY <1>1, <1>2, <1>5, Edges DEF IInv, Slots
  <2>4. b - target.lower \in Vacated
    <3>1. CASE Count > 0
      <4>1. b < KeptLower \/ KeptUpper < b
        BY <1>1, <1>5, KeptRange DEF IInv, Kept
      <4>2. b - target.lower \in (0 .. Dst - 1) \cup (Dst + Count .. TargetWidth - 1)
        BY <1>1, <1>2, <1>5, <3>1, <4>1, Edges, KeptRange DEF IInv
      <4>3. QED
        BY <3>1, <4>2 DEF Vacated
    <3>2. CASE ~(Count > 0)
      BY <1>1, <1>2, <1>5, <3>2, Edges DEF IInv, Vacated, Slots
    <3>3. QED
      BY <3>1, <3>2
  <2>5. QED
    BY <1>1, <2>1, <2>2, <2>3, <2>4
<1>6. CASE b \notin target.lower .. target.upper
  BY <1>1, <1>3, <1>6 DEF RecordOf, registers
<1>7. QED
  BY <1>4, <1>5, <1>6

(* Declaring the new band is what makes slot k mean target.lower + k.      *)
LEMMA AnchorRecord ==
  ASSUME IInv, Anchor, NEW b \in Bins
  PROVE  RecordOf(b)' = RecordOf(b)
<1>1. /\ pc = "anchor" /\ pc' = "ready"
      /\ lower' = target.lower /\ upper' = target.upper /\ b \in Int
  BY BinsAreInts DEF Anchor
<1>2. Contains(b)' <=> b \in target.lower .. target.upper
  BY <1>1, Edges DEF IInv, Contains
<1>3. CASE b \in target.lower .. target.upper
  <2>1. b - target.lower \in Slots(Smaller(capacity, CapacityFor(TargetWidth)))
    BY <1>1, <1>3, Edges, SlotsAssumption
    DEF IInv, CapacityCoversWidth, Slots, Smaller, CapacityFor, Larger, TargetWidth, Width
  <2>2. QED
    BY <1>1, <1>2, <1>3, <2>1 DEF Anchor, RecordOf, SlotOf
<1>4. CASE b \notin target.lower .. target.upper
  BY <1>1, <1>2, <1>4 DEF RecordOf
<1>5. QED
  BY <1>3, <1>4

LEMMA CloseRecord ==
  ASSUME IInv, Close, NEW b \in Bins
  PROVE  SlotIsEmpty(RecordOf(b)) /\ RecordOf(b)' = NoRecord
<1>1. pc = "ready" /\ pc' = "absent" /\ b \in Int
  BY BinsAreInts DEF Close
<1>2. CASE Contains(b)
  <2>1. SlotOf(b) \in Slots(Usable)
    BY <1>1, <1>2, Edges
    DEF IInv, Contains, SlotOf, CapacityCoversWidth, Width, Usable, Smaller, Slots
  <2>2. QED
    BY <1>1, <1>2, <2>1 DEF Close, RecordOf
<1>3. CASE ~Contains(b)
  BY <1>1, <1>3 DEF RecordOf, NoRecord, SlotIsEmpty
<1>4. QED
  BY <1>2, <1>3

-----------------------------------------------------------------------------
(***************************************************************************)
(* The strengthened invariant.                                             *)
(***************************************************************************)
LEMMA RInit == Init => RInv
<1> SUFFICES ASSUME Init PROVE RInv
  OBVIOUS
<1>1. IInv
  BY InitInv
<1>2. TargetFits
  BY DEF Init, TargetFits
<1>3. CheckpointsBehind
  BY DEF Init, CheckpointsBehind, RecordOf, NoRecord
<1>4. QED
  BY <1>1, <1>2, <1>3 DEF RInv

LEMMA TargetFitsStep == IInv /\ TargetFits /\ [Next]_vars => TargetFits'
<1> SUFFICES ASSUME IInv, TargetFits, [Next]_vars PROVE TargetFits'
  OBVIOUS
<1>1. ASSUME NEW l \in Bins, NEW u \in Bins, BeginResize(l, u)
      PROVE  TargetFits'
  BY <1>1 DEF BeginResize, ValidBand, TargetFits, TargetWidth
<1>2. CASE MoveSlot \/ ZeroVacated
  BY <1>2 DEF MoveSlot, ZeroVacated, registers, TargetFits, TargetWidth
<1>3. CASE ClaimFees \/ Close \/ Anchor
  BY <1>3 DEF ClaimFees, Close, Anchor, TargetFits
<1>4. ASSUME NEW l \in Bins, NEW u \in Bins, NEW bins \in 1 .. MaxWidth, Open(l, u, bins)
      PROVE  TargetFits'
  BY <1>4 DEF Open, TargetFits
<1>5. ASSUME NEW b \in Bins, NEW n \in Amounts,
             AddShares(b, n) \/ RemoveShares(b, n) \/ Earn(b, n)
      PROVE  TargetFits'
  BY <1>5 DEF AddShares, RemoveShares, Earn, Reachable, TargetFits
<1>6. CASE UNCHANGED vars
  BY <1>6 DEF vars, TargetFits, TargetWidth
<1>7. QED
  BY <1>1, <1>2, <1>3, <1>4, <1>5, <1>6 DEF Next, Resize

LEMMA CheckpointsStep == IInv /\ CheckpointsBehind /\ [Next]_vars => CheckpointsBehind'
<1> SUFFICES ASSUME IInv, CheckpointsBehind, [Next]_vars, NEW b \in Bins
             PROVE  RecordOf(b)'.checkpoint <= growth'[b]
  BY DEF CheckpointsBehind, Bins
<1>1. /\ RecordOf(b) \in Record /\ growth[b] \in Nat
      /\ RecordOf(b).checkpoint <= growth[b] /\ RecordOf(b).checkpoint \in Nat
      /\ NoRecord.checkpoint = 0
  BY RecordOfType DEF IInv, TypeOK, CheckpointsBehind, Record, NoRecord
<1>2. ASSUME NEW l \in Bins, NEW u \in Bins, NEW bins \in 1 .. MaxWidth, Open(l, u, bins)
      PROVE  RecordOf(b)'.checkpoint <= growth'[b]
  BY <1>1, <1>2, OpenRecord DEF Open
<1>3. ASSUME NEW l \in Bins, NEW u \in Bins, BeginResize(l, u)
      PROVE  RecordOf(b)'.checkpoint <= growth'[b]
  BY <1>1, <1>3, BeginResizeRecord DEF BeginResize
<1>4. ASSUME NEW c \in Bins, NEW n \in Amounts, AddShares(c, n)
      PROVE  RecordOf(b)'.checkpoint <= growth'[b]
  <2>1. growth' = growth
    BY <1>4 DEF AddShares
  <2>2. IF b = c THEN RecordOf(b)'.checkpoint = growth[b]
        ELSE RecordOf(b)' = RecordOf(b)
    BY <1>4, AddSharesRecord
  <2>3. QED
    BY <1>1, <2>1, <2>2
<1>5. ASSUME NEW c \in Bins, NEW n \in Amounts, RemoveShares(c, n)
      PROVE  RecordOf(b)'.checkpoint <= growth'[b]
  <2>1. growth' = growth
    BY <1>5 DEF RemoveShares
  <2>2. IF b = c THEN RecordOf(b)'.checkpoint = growth[b]
        ELSE RecordOf(b)' = RecordOf(b)
    BY <1>5, RemoveSharesRecord
  <2>3. QED
    BY <1>1, <2>1, <2>2
<1>6. ASSUME NEW c \in Bins, NEW d \in Amounts, Earn(c, d)
      PROVE  RecordOf(b)'.checkpoint <= growth'[b]
  <2>1. growth'[b] = IF b = c THEN growth[b] + d ELSE growth[b]
    BY <1>6 DEF Earn, IInv, TypeOK
  <2>2. d \in Nat
    BY SlotsAssumption
  <2>3. QED
    BY <1>1, <1>6, <2>1, <2>2, EarnRecord
<1>7. CASE ClaimFees
  BY <1>1, <1>7, ClaimRecord DEF ClaimFees
<1>8. CASE Resize
  BY <1>1, <1>8, MoveSlotRecord, ZeroVacatedRecord, AnchorRecord
  DEF Resize, MoveSlot, ZeroVacated, Anchor
<1>9. CASE Close
  BY <1>1, <1>9, CloseRecord DEF Close
<1>10. CASE UNCHANGED vars
  <2>1. RecordOf(b)' = RecordOf(b)
    BY <1>10 DEF vars, RecordOf, Contains, SlotOf, Kept, KeptLower, KeptUpper, CopiedYet,
                 MoveDone, Src, Dst, Count
  <2>2. QED
    BY <1>1, <1>10, <2>1 DEF vars
<1>11. QED
  BY <1>2, <1>3, <1>4, <1>5, <1>6, <1>7, <1>8, <1>9, <1>10 DEF Next

(* No record's fee checkpoint is ever ahead of the growth of the bin it    *)
(* belongs to, also while `move_slots` is half way through the records.    *)
THEOREM CheckpointsNeverAhead == Spec => []RInv
<1>1. RInv /\ [Next]_vars => RInv'
  BY StepInv, TargetFitsStep, CheckpointsStep DEF RInv
<1>2. QED
  BY <1>1, RInit, PTL DEF Spec

-----------------------------------------------------------------------------
(***************************************************************************)
(* The refinement.                                                         *)
(***************************************************************************)
LEMMA UnclaimedNat ==
  ASSUME IInv, NEW b \in Bins
  PROVE  Unclaimed(b) \in Nat
<1>1. RecordOf(b) \in Record /\ growth[b] \in Nat
  BY RecordOfType DEF IInv, TypeOK
<1>2. FeesOwed(RecordOf(b).share, growth[b], RecordOf(b).checkpoint) \in Nat
  BY <1>1, FeesOwedNat DEF Record
<1>3. QED
  BY <1>1, <1>2 DEF Unclaimed, Record

(* A bin whose record is empty is owed nothing.                            *)
LEMMA EmptyOwesNothing ==
  ASSUME NEW rec \in Record, NEW g \in Nat, SlotIsEmpty(rec)
  PROVE  rec.share = 0 /\ rec.pending + FeesOwed(rec.share, g, rec.checkpoint) = 0
<1>1. SatSub(g, rec.checkpoint) \in Nat
  BY DEF SatSub, Record
<1>2. QED
  BY <1>1 DEF SlotIsEmpty, FeesOwed

(* Right after a sync a bin is owed only what is pending.                  *)
LEMMA SyncedOwesPending ==
  ASSUME NEW s \in Nat, NEW g \in Nat
  PROVE  FeesOwed(s, g, g) = 0
<1>1. SatSub(g, g) = 0
  BY DEF SatSub
<1>2. QED
  BY <1>1 DEF FeesOwed

(* More growth is owed on the shares there are.                            *)
LEMMA OwedGrows ==
  ASSUME NEW s \in Nat, NEW g \in Nat, NEW c \in Nat, NEW d \in Nat, c <= g
  PROVE  FeesOwed(s, g + d, c) = FeesOwed(s, g, c) + s * d
<1>1. SatSub(g + d, c) = (g - c) + d /\ SatSub(g, c) = g - c
  BY DEF SatSub
<1>2. \A x, y \in Nat : s * (x + y) = s * x + s * y
  OBVIOUS
<1>3. g - c \in Nat
  OBVIOUS
<1>4. QED
  BY <1>1, <1>2, <1>3 DEF FeesOwed

LEMMA BandInit == Init => Band!Init
<1> SUFFICES ASSUME Init PROVE Band!Init
  OBVIOUS
<1>1. ASSUME NEW b \in Bins
      PROVE  RecordOf(b) = NoRecord /\ growth[b] = 0
  BY DEF Init, RecordOf
<1>2. ASSUME NEW b \in Bins
      PROVE  RecordOf(b).share = 0 /\ Unclaimed(b) = 0
  <2>1. NoRecord \in Record /\ SlotIsEmpty(NoRecord)
    BY DEF NoRecord, Record, SlotIsEmpty
  <2>2. QED
    BY <1>1, <2>1, EmptyOwesNothing DEF Unclaimed
<1>3. QED
  BY <1>2 DEF Init, Band!Init, BandOpen, BandShare, BandUnclaimed, Bins, Band!Bins

(* A step that leaves every record, the growth and the header as they are  *)
(* is invisible.                                                           *)
LEMMA BandStutter ==
  ASSUME \A b \in Bins : RecordOf(b)' = RecordOf(b),
         UNCHANGED <<growth, lower, upper, paid>>, BandOpen' = BandOpen
  PROVE  UNCHANGED Band!bandVars
<1>1. BandShare' = BandShare
  BY DEF BandShare, Bins
<1>2. \A b \in Bins : Unclaimed(b)' = Unclaimed(b)
  BY DEF Unclaimed
<1>3. BandUnclaimed' = BandUnclaimed
  BY <1>2 DEF BandUnclaimed, Bins
<1>4. QED
  BY <1>1, <1>3 DEF Band!bandVars

LEMMA BandOpenStep ==
  ASSUME RInv, NEW l \in Bins, NEW u \in Bins, NEW bins \in 1 .. MaxWidth,
         Open(l, u, bins)
  PROVE  Band!Open(l, u)
<1>1. ASSUME NEW b \in Bins
      PROVE  RecordOf(b)' = RecordOf(b) /\ Unclaimed(b)' = Unclaimed(b)
  BY <1>1, OpenRecord DEF RInv, Unclaimed, Open
<1>2. BandShare' = BandShare /\ BandUnclaimed' = BandUnclaimed
  BY <1>1 DEF BandShare, BandUnclaimed, Bins
<1>3. QED
  BY <1>2 DEF Open, Band!Open, BandOpen, ValidBand, Band!ValidBand, Width, Bins, Band!Bins

(* Banking a bin's fees moves them into pending: the sum is unchanged.     *)
LEMMA BandDeposit ==
  ASSUME RInv, NEW c \in Bins, NEW n \in Amounts, AddShares(c, n)
  PROVE  Band!Deposit(c, n)
<1>1. UNCHANGED <<pc, lower, upper, paid, growth>> /\ Contains(c) /\ pc = "ready"
  BY DEF AddShares, Reachable, header
<1>2. ASSUME NEW b \in Bins
      PROVE  /\ RecordOf(b)'.share = IF b = c THEN RecordOf(b).share + n ELSE RecordOf(b).share
             /\ Unclaimed(b)' = Unclaimed(b)
  <2>1. RecordOf(b) \in Record /\ growth[b] \in Nat /\ n \in Nat
    BY RecordOfType, SlotsAssumption DEF RInv, IInv, TypeOK
  <2>2. FeesOwed(RecordOf(b).share + n, growth[b], growth[b]) = 0
    BY <2>1, SyncedOwesPending DEF Record
  <2>3. Unclaimed(b) \in Nat
    BY UnclaimedNat DEF RInv
  <2>4. CASE b = c
    BY <1>1, <2>2, <2>3, <2>4, AddSharesRecord DEF RInv, Unclaimed
  <2>5. CASE b # c
    BY <1>1, <2>5, AddSharesRecord DEF RInv, Unclaimed
  <2>6. QED
    BY <2>4, <2>5
<1>3. BandShare' = [BandShare EXCEPT ![c] = @ + n]
  BY <1>2 DEF BandShare, Bins
<1>4. BandUnclaimed' = BandUnclaimed
  BY <1>2 DEF BandUnclaimed, Bins
<1>5. c \in lower .. upper
  BY <1>1, BinsAreInts, Edges DEF RInv, IInv, Contains
<1>6. QED
  BY <1>1, <1>3, <1>4, <1>5 DEF Band!Deposit, BandOpen

LEMMA BandWithdraw ==
  ASSUME RInv, NEW c \in Bins, NEW n \in Amounts, RemoveShares(c, n)
  PROVE  Band!Withdraw(c, n)
<1>1. UNCHANGED <<pc, lower, upper, paid, growth>> /\ Contains(c) /\ pc = "ready"
  BY DEF RemoveShares, Reachable, header
<1>2. ASSUME NEW b \in Bins
      PROVE  /\ RecordOf(b)'.share = IF b = c THEN RecordOf(b).share - n ELSE RecordOf(b).share
             /\ b = c => n <= RecordOf(b).share
             /\ Unclaimed(b)' = Unclaimed(b)
  <2>1. RecordOf(b) \in Record /\ growth[b] \in Nat /\ n \in Nat
    BY RecordOfType, SlotsAssumption DEF RInv, IInv, TypeOK
  <2>2. Unclaimed(b) \in Nat
    BY UnclaimedNat DEF RInv
  <2>3. CASE b = c
    <3>1. n <= RecordOf(b).share
      BY <2>3, RemoveSharesRecord DEF RInv
    <3>2. FeesOwed(RecordOf(b).share - n, growth[b], growth[b]) = 0
      BY <2>1, <3>1, SyncedOwesPending DEF Record
    <3>3. QED
      BY <1>1, <2>2, <2>3, <3>1, <3>2, RemoveSharesRecord DEF RInv, Unclaimed
  <2>4. CASE b # c
    BY <1>1, <2>4, RemoveSharesRecord DEF RInv, Unclaimed
  <2>5. QED
    BY <2>3, <2>4
<1>3. BandShare' = [BandShare EXCEPT ![c] = @ - n] /\ n <= BandShare[c]
  BY <1>2 DEF BandShare, Bins
<1>4. BandUnclaimed' = BandUnclaimed
  BY <1>2 DEF BandUnclaimed, Bins
<1>5. c \in lower .. upper
  BY <1>1, BinsAreInts, Edges DEF RInv, IInv, Contains
<1>6. QED
  BY <1>1, <1>3, <1>4, <1>5 DEF Band!Withdraw, BandOpen

LEMMA BandEarn ==
  ASSUME RInv, NEW c \in Bins, NEW d \in Amounts, Earn(c, d)
  PROVE  Band!Earn(c, d)
<1>1. UNCHANGED <<pc, lower, upper, paid>>
  BY DEF Earn, header
<1>2. ASSUME NEW b \in Bins
      PROVE  /\ RecordOf(b)'.share = RecordOf(b).share
             /\ Unclaimed(b)' =
                  IF b = c THEN Unclaimed(b) + RecordOf(b).share * d ELSE Unclaimed(b)
  <2>1. /\ RecordOf(b) \in Record /\ growth[b] \in Nat /\ d \in Nat
        /\ RecordOf(b).checkpoint <= growth[b]
    BY RecordOfType, SlotsAssumption DEF RInv, IInv, TypeOK, CheckpointsBehind
  <2>2. RecordOf(b)' = RecordOf(b)
    BY EarnRecord DEF RInv
  <2>3. growth'[b] = IF b = c THEN growth[b] + d ELSE growth[b]
    BY DEF Earn, RInv, IInv, TypeOK
  <2>4. FeesOwed(RecordOf(b).share, growth[b] + d, RecordOf(b).checkpoint)
        = FeesOwed(RecordOf(b).share, growth[b], RecordOf(b).checkpoint) + RecordOf(b).share * d
    BY <2>1, OwedGrows DEF Record
  <2>5. /\ FeesOwed(RecordOf(b).share, growth[b], RecordOf(b).checkpoint) \in Nat
        /\ RecordOf(b).share * d \in Nat
    <3>1. RecordOf(b).share \in Nat /\ RecordOf(b).checkpoint \in Nat
      BY <2>1 DEF Record
    <3>2. \A x, y \in Nat : x * y \in Nat
      OBVIOUS
    <3>3. QED
      BY <2>1, <3>1, <3>2, FeesOwedNat
  <2> DEFINE owed == FeesOwed(RecordOf(b).share, growth[b], RecordOf(b).checkpoint)
             more == RecordOf(b).share * d
             pending == RecordOf(b).pending
  <2>6. pending \in Nat
    BY <2>1 DEF Record
  <2>7. Unclaimed(b) = pending + owed
    BY DEF Unclaimed
  <2>8. Unclaimed(b)' = IF b = c THEN pending + (owed + more) ELSE pending + owed
    BY <2>2, <2>3, <2>4 DEF Unclaimed
  <2> HIDE DEF owed, more, pending
  <2>9. pending + (owed + more) = (pending + owed) + more
    BY <2>5, <2>6 DEF owed, more
  <2>10. QED
    BY <2>2, <2>7, <2>8, <2>9 DEF more
<1>3. BandShare' = BandShare
  BY <1>2 DEF BandShare, Bins
<1>4. BandUnclaimed' = [BandUnclaimed EXCEPT ![c] = @ + BandShare[c] * d]
  BY <1>2 DEF BandUnclaimed, BandShare, Bins
<1>5. QED
  BY <1>1, <1>3, <1>4 DEF Band!Earn, BandOpen

LEMMA BandClaim ==
  ASSUME RInv, ClaimFees
  PROVE  Band!Claim
<1>1. UNCHANGED <<pc, lower, upper, growth>> /\ pc = "ready" /\ DOMAIN paid = Bins
  BY DEF ClaimFees, header, RInv, IInv, TypeOK
<1>2. ASSUME NEW b \in Bins
      PROVE  /\ RecordOf(b)'.share = RecordOf(b).share
             /\ Unclaimed(b)' = 0
             /\ paid'[b] = paid[b] + Unclaimed(b)
  <2>1. RecordOf(b) \in Record /\ growth[b] \in Nat /\ paid[b] \in Nat
    BY RecordOfType DEF RInv, IInv, TypeOK
  <2>2. FeesOwed(RecordOf(b).share, growth[b], RecordOf(b).checkpoint) \in Nat
    BY <2>1, FeesOwedNat DEF Record
  <2>3. /\ RecordOf(b)'.share = RecordOf(b).share /\ RecordOf(b)'.pending = 0
        /\ FeesOwed(RecordOf(b).share, growth[b], RecordOf(b)'.checkpoint) = 0
        /\ paid'[b] = paid[b] + RecordOf(b).pending
                        + FeesOwed(RecordOf(b).share, growth[b], RecordOf(b).checkpoint)
    BY ClaimRecord DEF RInv
  <2>4. Unclaimed(b)' = 0
    BY <1>1, <2>3 DEF Unclaimed
  <2>5. QED
    BY <2>1, <2>2, <2>3, <2>4 DEF Unclaimed, Record
<1>3. BandShare' = BandShare
  BY <1>2 DEF BandShare, Bins
<1>4. BandUnclaimed' = [b \in Bins |-> 0]
  BY <1>2 DEF BandUnclaimed, Bins
<1>5. paid' = [b \in Bins |-> paid[b] + BandUnclaimed[b]]
  BY <1>2, paid' = [b \in Bins |-> paid'[b]] DEF BandUnclaimed, ClaimFees
<1>6. QED
  BY <1>1, <1>3, <1>4, <1>5 DEF Band!Claim, BandOpen, Bins, Band!Bins

(* Nothing of a resize shows until the new band is declared.               *)
LEMMA BandResizeUnseen ==
  ASSUME RInv,
         MoveSlot \/ ZeroVacated \/ (\E l, u \in Bins : BeginResize(l, u))
  PROVE  UNCHANGED Band!bandVars
<1>1. UNCHANGED <<growth, lower, upper, paid>> /\ BandOpen' = BandOpen
  BY DEF MoveSlot, ZeroVacated, BeginResize, header, BandOpen
<1>2. CASE MoveSlot \/ ZeroVacated
  BY <1>1, <1>2, MoveSlotRecord, ZeroVacatedRecord, BandStutter DEF RInv
<1>3. ASSUME NEW l \in Bins, NEW u \in Bins, BeginResize(l, u)
      PROVE  UNCHANGED Band!bandVars
  <2>1. ASSUME NEW b \in Bins
        PROVE  RecordOf(b)'.share = RecordOf(b).share /\ Unclaimed(b)' = Unclaimed(b)
    <3>1. CASE RecordOf(b)' = RecordOf(b)
      BY <1>1, <3>1 DEF Unclaimed
    <3>2. CASE RecordOf(b)' = NoRecord /\ SlotIsEmpty(RecordOf(b))
      <4>1. RecordOf(b) \in Record /\ growth[b] \in Nat
        BY RecordOfType DEF RInv, IInv, TypeOK
      <4>2. NoRecord \in Record /\ SlotIsEmpty(NoRecord)
        BY DEF NoRecord, Record, SlotIsEmpty
      <4>3. QED
        BY <1>1, <3>2, <4>1, <4>2, EmptyOwesNothing DEF Unclaimed
    <3>3. QED
      BY <1>3, <3>1, <3>2, BeginResizeRecord DEF RInv
  <2>2. BandShare' = BandShare /\ BandUnclaimed' = BandUnclaimed
    BY <2>1 DEF BandShare, BandUnclaimed, Bins
  <2>3. QED
    BY <1>1, <2>2 DEF Band!bandVars
<1>4. QED
  BY <1>2, <1>3

LEMMA BandResize ==
  ASSUME RInv, Anchor
  PROVE  Band!Resize(target.lower, target.upper)
<1>1. /\ pc = "anchor" /\ pc' = "ready" /\ UNCHANGED <<growth, paid>>
      /\ lower' = target.lower /\ upper' = target.upper
  BY DEF Anchor
<1>2. ASSUME NEW b \in Bins
      PROVE  RecordOf(b)' = RecordOf(b) /\ Unclaimed(b)' = Unclaimed(b)
  BY <1>1, AnchorRecord DEF RInv, Unclaimed
<1>3. BandShare' = BandShare /\ BandUnclaimed' = BandUnclaimed
  BY <1>2 DEF BandShare, BandUnclaimed, Bins
<1>4. ASSUME NEW b \in Bins, b \notin target.lower .. target.upper
      PROVE  BandShare[b] = 0 /\ BandUnclaimed[b] = 0
  <2>1. NoRecord \in Record /\ SlotIsEmpty(NoRecord) /\ growth[b] \in Nat
    BY DEF NoRecord, Record, SlotIsEmpty, RInv, IInv, TypeOK
  <2>2. RecordOf(b) = NoRecord
    BY <1>1, <1>4 DEF RecordOf
  <2>3. QED
    BY <2>1, <2>2, EmptyOwesNothing DEF BandShare, BandUnclaimed, Unclaimed
<1>5. Band!ValidBand(target.lower, target.upper)
  BY <1>1, Edges
  DEF RInv, IInv, TypeOK, TargetFits, TargetWidth, Width, Band!ValidBand, Band!Bins, Bins
<1>6. QED
  BY <1>1, <1>3, <1>4, <1>5 DEF Band!Resize, BandOpen, Bins, Band!Bins

LEMMA BandClose ==
  ASSUME RInv, Close
  PROVE  Band!Close
<1>1. pc = "ready" /\ pc' = "absent" /\ UNCHANGED <<growth, paid, lower, upper>>
  BY DEF Close, header
<1>2. NoRecord \in Record /\ SlotIsEmpty(NoRecord)
  BY DEF NoRecord, Record, SlotIsEmpty
<1>3. ASSUME NEW b \in Bins
      PROVE  /\ RecordOf(b).share = 0 /\ RecordOf(b)'.share = 0
             /\ Unclaimed(b) = 0 /\ Unclaimed(b)' = 0
  <2>1. RecordOf(b) \in Record /\ growth[b] \in Nat
    BY RecordOfType DEF RInv, IInv, TypeOK
  <2>2. SlotIsEmpty(RecordOf(b)) /\ RecordOf(b)' = NoRecord
    BY CloseRecord DEF RInv
  <2>3. QED
    BY <1>1, <1>2, <2>1, <2>2, EmptyOwesNothing DEF Unclaimed
<1>4. /\ BandShare' = BandShare /\ BandUnclaimed' = BandUnclaimed
      /\ \A b \in Bins : BandShare[b] = 0 /\ BandUnclaimed[b] = 0
  BY <1>3 DEF BandShare, BandUnclaimed, Bins
<1>5. QED
  BY <1>1, <1>4 DEF Band!Close, BandOpen, Bins, Band!Bins

LEMMA BandStep == RInv /\ [Next]_vars => [Band!Next]_(Band!bandVars)
<1> SUFFICES ASSUME RInv, [Next]_vars
             PROVE  Band!Next \/ UNCHANGED Band!bandVars
  OBVIOUS
<1>1. Bins = Band!Bins
  BY DEF Bins, Band!Bins
<1>2. CASE UNCHANGED vars
  <2>1. \A b \in Bins : RecordOf(b)' = RecordOf(b)
    BY <1>2 DEF vars, RecordOf, Contains, SlotOf, Kept, KeptLower, KeptUpper, CopiedYet,
                MoveDone, Src, Dst, Count
  <2>2. QED
    BY <1>2, <2>1, BandStutter DEF vars, BandOpen
<1>3. ASSUME NEW l \in Bins, NEW u \in Bins, NEW bins \in 1 .. MaxWidth, Open(l, u, bins)
      PROVE  Band!Next
  BY <1>1, <1>3, BandOpenStep DEF Band!Next
<1>4. ASSUME NEW b \in Bins, NEW n \in Amounts,
             AddShares(b, n) \/ RemoveShares(b, n) \/ Earn(b, n)
      PROVE  Band!Next
  BY <1>1, <1>4, BandDeposit, BandWithdraw, BandEarn DEF Band!Next
<1>5. CASE ClaimFees
  BY <1>5, BandClaim DEF Band!Next
<1>6. CASE Anchor
  <2>1. target.lower \in Bins /\ target.upper \in Bins
    BY DEF RInv, IInv, TypeOK
  <2>2. QED
    BY <1>1, <1>6, <2>1, BandResize DEF Band!Next
<1>7. CASE Close
  BY <1>7, BandClose DEF Band!Next
<1>8. QED
  BY <1>2, <1>3, <1>4, <1>5, <1>6, <1>7, BandResizeUnseen DEF Next, Resize

(* Every behaviour of the account is a behaviour of the promise.           *)
THEOREM SlotsImplementBand == Spec => ImplementsBand
  BY BandInit, BandStep, CheckpointsNeverAhead, PTL DEF Spec, ImplementsBand, Band!Spec
=============================================================================
