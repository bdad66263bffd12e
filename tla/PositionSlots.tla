---------------------------- MODULE PositionSlots ----------------------------
(***************************************************************************)
(* A position's account as taper-core's state/position.rs keeps it: a      *)
(* header with the band's two edges, and one record per slot, where slot k *)
(* means bin lower + k.  Capacity is the account's length, counted in      *)
(* bins.                                                                   *)
(*                                                                         *)
(* Moving the lower edge renumbers every slot, so resizing rewrites the    *)
(* records in place: PositionMut::rebase is modelled one copied record per *)
(* step, because the order of the copies decides what survives where the   *)
(* old and the new layout overlap.  The instruction handlers around it are *)
(* the on-chain program's; they are modelled from the contracts position.rs*)
(* and the SDK's instructions.ts state.  A transaction is atomic, so       *)
(* nothing else acts while pc is inside a resize.                          *)
(*                                                                         *)
(* Fees are kept for one token, x and y being treated alike, and growth is *)
(* in units that make share * growth exact; rounding is BinLedger's.       *)
(***************************************************************************)
EXTENDS Integers

CONSTANTS
  MinBin, MaxBin,  \* the bins the pool's ladder offers
  Inline,          \* INLINE_BINS_PER_POSITION: slots of the smallest account
  MaxWidth,        \* MAX_BIN_PER_POSITION
  MaxExtend,       \* MAX_BINS_PER_EXTEND: storage one resize may add
  Amounts,         \* share amounts and per-share fee increments in play
  MaxShare,        \* bound on a bin's share
  MaxGrowth        \* bound on a bin's per-share fee growth

ASSUME SlotsAssumption ==
  /\ MinBin \in Int /\ MaxBin \in Int /\ MinBin <= MaxBin
  /\ Inline \in Nat \ {0} /\ MaxWidth \in Nat \ {0} /\ Inline <= MaxWidth
  /\ MaxExtend \in Nat /\ MaxShare \in Nat /\ MaxGrowth \in Nat
  /\ Amounts \subseteq Nat \ {0}

VARIABLES
  pc,       \* "absent": no account; "ready": between instructions; and the
            \* phases of a resize: "move" the kept records, then "anchor"
  lower,    \* header.lower_bin_id
  upper,    \* header.upper_bin_id
  capacity, \* PositionMut::capacity
  mem,      \* mem[k]: the record of slot k
  target,   \* the band the resize under way is moving to
  moved,    \* records copied so far by the resize under way
  growth,   \* growth[b]: Bin::fee_per_share of bin b, owned by the pool
  paid      \* paid[b]: the part of header.total_claimed_fee earned in bin b

vars == <<pc, lower, upper, capacity, mem, target, moved, growth, paid>>
header == <<lower, upper, capacity>>
registers == <<target, moved>>

Bins == MinBin .. MaxBin
Slots(n) == 0 .. n - 1
Larger(a, b) == IF a >= b THEN a ELSE b
Smaller(a, b) == IF a <= b THEN a ELSE b
SatSub(a, b) == IF a >= b THEN a - b ELSE 0

Record == [share : Nat, checkpoint : Nat, pending : Nat]
NoRecord == [share |-> 0, checkpoint |-> 0, pending |-> 0]
Idle == [lower |-> MinBin, upper |-> MinBin]  \* target, between resizes

Width(l, u) == u - l + 1
(* Mutant: an account never counts the records appended past the header.   *)
InlineBlockOnly(w) == Inline

(* capacity_for(len_for(w)): what an account cut to fit w bins can store.  *)
CapacityFor(w) == Larger(Inline, w)
Usable == Smaller(Width(lower, upper), capacity)
Contains(b) == lower <= b /\ b <= upper
SlotOf(b) == b - lower

(***************************************************************************)
(* One slot.                                                               *)
(***************************************************************************)
FeesOwed(share, g, checkpoint) == share * SatSub(g, checkpoint)

(* sync_fees: bank what the shares earned so far, then re-anchor.          *)
Synced(rec, g) ==
  [share |-> rec.share,
   checkpoint |-> g,
   pending |-> rec.pending + FeesOwed(rec.share, g, rec.checkpoint)]

(* remove_shares' guard: nobody burns more than the slot holds.            *)
HoldsEnough(rec, n) == rec.share >= n

SlotIsEmpty(rec) == rec.share = 0 /\ rec.pending = 0

(* is_empty_outside: the head and the tail the kept stretch leaves over.   *)
IsEmptyOutside(l, u) ==
  LET head == Smaller(SatSub(l, lower), Usable)
      tail == Smaller(SatSub(u + 1, lower), Usable)
  IN  \A k \in (0 .. head - 1) \cup (tail .. Usable - 1) : SlotIsEmpty(mem[k])

ValidBand(l, u) == l \in Bins /\ u \in Bins /\ l <= u /\ Width(l, u) <= MaxWidth

(***************************************************************************)
(* rebase: where the records both bands contain are, and must go.          *)
(***************************************************************************)
KeptLower == Larger(lower, target.lower)
KeptUpper == Smaller(upper, target.upper)
Kept == KeptLower .. KeptUpper
Count == IF KeptLower <= KeptUpper THEN Width(KeptLower, KeptUpper) ELSE 0
Src == KeptLower - lower
Dst == KeptLower - target.lower
TargetWidth == Width(target.lower, target.upper)

(* Mutant: the copy loop always runs forward.                              *)
AlwaysForward == moved

(* move_slots: forward when the destination is lower, backward otherwise.  *)
CopyIndex == IF Dst < Src THEN moved ELSE Count - 1 - moved
MoveDone == Src = Dst \/ moved = Count

(* zero_slots: every slot of the new band that no kept record moved into.  *)
Vacated ==
  IF Count > 0 THEN (0 .. Dst - 1) \cup (Dst + Count .. TargetWidth - 1)
  ELSE Slots(TargetWidth)

-----------------------------------------------------------------------------
Init ==
  /\ pc = "absent"
  /\ lower = MinBin
  /\ upper = MinBin
  /\ capacity = Inline
  /\ mem = [k \in Slots(Inline) |-> NoRecord]
  /\ target = Idle
  /\ moved = 0
  /\ growth = [b \in Bins |-> 0]
  /\ paid = [b \in Bins |-> 0]

(* initialize_position over an account the client allocated, zero-filled,  *)
(* for `bins` bins: validate_initial_width.                                *)
Open(l, u, bins) ==
  /\ pc = "absent"
  /\ ValidBand(l, u)
  /\ Width(l, u) <= CapacityFor(bins)
  /\ pc' = "ready"
  /\ lower' = l
  /\ upper' = u
  /\ capacity' = CapacityFor(bins)
  /\ mem' = [k \in Slots(CapacityFor(bins)) |-> NoRecord]
  /\ paid' = [b \in Bins |-> 0]
  /\ UNCHANGED <<registers, growth>>

(* PositionMut::slot: the bin must be in the band and in the storage.      *)
Reachable(b) == pc = "ready" /\ Contains(b) /\ SlotOf(b) < capacity

(* add_liquidity in one bin: sync_fees, then add_shares.                   *)
AddShares(b, n) ==
  /\ Reachable(b)
  /\ mem[SlotOf(b)].share + n <= MaxShare
  /\ LET synced == Synced(mem[SlotOf(b)], growth[b])
     IN  mem' = [mem EXCEPT ![SlotOf(b)] =
                   [synced EXCEPT !.share = synced.share + n]]
  /\ UNCHANGED <<pc, header, registers, growth, paid>>

(* remove_liquidity in one bin: sync_fees, then remove_shares.             *)
RemoveShares(b, n) ==
  /\ Reachable(b)
  /\ HoldsEnough(mem[SlotOf(b)], n)
  /\ LET synced == Synced(mem[SlotOf(b)], growth[b])
     IN  mem' = [mem EXCEPT ![SlotOf(b)] =
                   [synced EXCEPT !.share = synced.share - n]]
  /\ UNCHANGED <<pc, header, registers, growth, paid>>

(* Trading elsewhere in the pool: bin b's fee per share grows by d.        *)
Earn(b, d) ==
  /\ pc \in {"absent", "ready"}
  /\ growth[b] + d <= MaxGrowth
  /\ growth' = [growth EXCEPT ![b] = @ + d]
  /\ UNCHANGED <<pc, header, mem, registers, paid>>

(* claim_fee: sync every bin that earns_at says could be owed anything,    *)
(* then take_pending_fees from every usable slot.                          *)
SettledSlot(k) ==
  IF mem[k].share # 0 THEN Synced(mem[k], growth[lower + k]) ELSE mem[k]

ClaimFees ==
  /\ pc = "ready"
  /\ mem' = [k \in Slots(capacity) |->
               IF k < Usable THEN [SettledSlot(k) EXCEPT !.pending = 0] ELSE mem[k]]
  /\ paid' = [b \in Bins |->
               IF Contains(b) /\ SlotOf(b) < Usable
               THEN paid[b] + SettledSlot(SlotOf(b)).pending ELSE paid[b]]
  /\ UNCHANGED <<pc, header, registers, growth>>

(* resize_position, up to the call to rebase: refuse to drop anything,     *)
(* then grow the account, zero-filled, to what the new band needs.         *)
BeginResize(l, u) ==
  LET grown == Larger(capacity, Width(l, u))
  IN  /\ pc = "ready"
      /\ ValidBand(l, u)
      /\ IsEmptyOutside(l, u)
      /\ grown - capacity <= MaxExtend
      /\ pc' = "move"
      /\ capacity' = grown
      /\ mem' = [k \in Slots(grown) |-> IF k < capacity THEN mem[k] ELSE NoRecord]
      /\ target' = [lower |-> l, upper |-> u]
      /\ moved' = 0
      /\ UNCHANGED <<lower, upper, growth, paid>>

(* One turn of move_slots' loop: copy_slot.                                *)
MoveSlot ==
  /\ pc = "move"
  /\ ~MoveDone
  /\ mem' = [mem EXCEPT ![Dst + CopyIndex] = mem[Src + CopyIndex]]
  /\ moved' = moved + 1
  /\ UNCHANGED <<pc, header, target, growth, paid>>

ZeroVacated ==
  /\ pc = "move"
  /\ MoveDone
  /\ mem' = [k \in Slots(capacity) |-> IF k \in Vacated THEN NoRecord ELSE mem[k]]
  /\ pc' = "anchor"
  /\ UNCHANGED <<header, registers, growth, paid>>

(* rebase declares the new band; the handler cuts the account to fit it.   *)
Anchor ==
  LET kept == CapacityFor(TargetWidth)
  IN  /\ pc = "anchor"
      /\ lower' = target.lower
      /\ upper' = target.upper
      /\ capacity' = Smaller(capacity, kept)
      /\ mem' = [k \in Slots(Smaller(capacity, kept)) |-> mem[k]]
      /\ pc' = "ready"
      /\ target' = Idle
      /\ moved' = 0
      /\ UNCHANGED <<growth, paid>>

(* close_position: only once is_empty.                                     *)
Close ==
  /\ pc = "ready"
  /\ \A k \in Slots(Usable) : SlotIsEmpty(mem[k])
  /\ pc' = "absent"
  /\ UNCHANGED <<header, mem, registers, growth, paid>>

Resize == MoveSlot \/ ZeroVacated \/ Anchor

Next ==
  \/ \E l, u \in Bins : \/ \E bins \in 1 .. MaxWidth : Open(l, u, bins)
                        \/ BeginResize(l, u)
  \/ \E b \in Bins, n \in Amounts : \/ AddShares(b, n)
                                    \/ RemoveShares(b, n)
                                    \/ Earn(b, n)
  \/ ClaimFees
  \/ Resize
  \/ Close

Spec == Init /\ [][Next]_vars

-----------------------------------------------------------------------------
(***************************************************************************)
(* Properties.                                                             *)
(***************************************************************************)

(* Every variable keeps its type; in particular the account's storage is   *)
(* exactly its capacity, all through a resize.                             *)
TypeOK ==
  /\ pc \in {"absent", "ready", "move", "anchor"}
  /\ lower \in Bins /\ upper \in Bins /\ lower <= upper
  /\ capacity \in Nat
  /\ mem \in [Slots(capacity) -> Record]
  /\ target \in [lower : Bins, upper : Bins] /\ target.lower <= target.upper
  /\ moved \in Nat
  /\ growth \in [Bins -> Nat]
  /\ paid \in [Bins -> Nat]

(* A position never declares range it has no storage for (the invariant    *)
(* position.rs documents as width <= capacity), and a band under way fits  *)
(* the storage before its first record is copied.                          *)
CapacityCoversWidth ==
  /\ Width(lower, upper) <= capacity
  /\ pc \in {"move", "anchor"} => TargetWidth <= capacity

(***************************************************************************)
(* Where bin b's record is.  In the middle of the copy loop a kept bin's   *)
(* record is at its new slot once copied and at its old slot until then; a *)
(* bin that is leaving, or has not arrived, has none.                      *)
(***************************************************************************)
CopiedYet(b) ==
  \/ MoveDone
  \/ IF Dst < Src THEN b - KeptLower < moved ELSE KeptUpper - b < moved

RecordOf(b) ==
  CASE pc = "ready" /\ Contains(b) -> mem[SlotOf(b)]
    [] pc = "move" /\ b \in Kept ->
         IF CopiedYet(b) THEN mem[b - target.lower] ELSE mem[SlotOf(b)]
    [] pc = "anchor" /\ b \in target.lower .. target.upper -> mem[b - target.lower]
    [] OTHER -> NoRecord

Unclaimed(b) ==
  RecordOf(b).pending + FeesOwed(RecordOf(b).share, growth[b], RecordOf(b).checkpoint)

BandOpen == pc # "absent"
BandShare == [b \in Bins |-> RecordOf(b).share]
BandUnclaimed == [b \in Bins |-> Unclaimed(b)]

Band == INSTANCE PositionBand
  WITH open <- BandOpen, share <- BandShare, unclaimed <- BandUnclaimed

(* The account implements the promise: whatever sequence of deposits,      *)
(* withdrawals, claims and moves of the band it went through, every bin    *)
(* holds the shares put into it, is owed what those shares earned while    *)
(* they were there, and no step of a rebase is visible as a change of it.  *)
ImplementsBand == Band!Spec
=============================================================================
