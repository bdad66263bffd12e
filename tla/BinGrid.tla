------------------------------- MODULE BinGrid -------------------------------
(***************************************************************************)
(* Where a pool keeps its bins: bin arrays of consecutive bins, each made  *)
(* empty and filled in bin by bin as they are first touched, on both sides *)
(* of bin zero; and a bitmap of machine words with a bit to an array.      *)
(*                                                                         *)
(* A bin is its cached price and step, a word the set of its bits.         *)
(***************************************************************************)
EXTENDS LadderBand

CONSTANTS
  BitmapWordBits,            \* 64
  MaxArrays, MaxTouched      \* bounds: arrays made, bins touched

ASSUME GridAssumption ==
  /\ BitmapWordBits \in Nat \ {0} /\ BitmapBits % BitmapWordBits = 0
  /\ MaxArrays \in Nat /\ MaxTouched \in Nat

VARIABLES
  arrays,    \* BinArray.bins of the arrays made, by index
  words      \* Pool.bin_array_bitmap

gridVars == <<band, arrays, words>>

Slots == 0 .. MaxBinPerArray - 1
BitmapWords == 0 .. BitmapBits \div BitmapWordBits - 1
NotDerived == [price |-> 0, step |-> 0]
IsDerived(slot) == slot.price # 0

GridInit ==
  /\ Asked
  /\ arrays = [index \in {} |-> NotDerived]
  /\ words = [word \in BitmapWords |-> {}]

-----------------------------------------------------------------------------
Holds(index, bin) == LowerBinId(index) <= bin /\ bin <= UpperBinId(index)

(* Mutant: the slot from the distance to bin zero.                         *)
SlotByDistance(index, bin) == Distance(bin) % MaxBinPerArray

Slot(index, bin) == bin - LowerBinId(index)

(* Mutant: the bits of a word are counted from its other end.              *)
BitFromTop(index) ==
  LET offset == index - MinBinArrayIndex
  IN  [word |-> offset \div BitmapWordBits,
       bit |-> BitmapWordBits - 1 - (offset % BitmapWordBits)]

BitmapPosition(index) ==
  LET offset == index - MinBinArrayIndex
  IN  [word |-> offset \div BitmapWordBits, bit |-> offset % BitmapWordBits]

IsIndex(index) == index \in MinBinArrayIndex .. MaxBinArrayIndex

IsOccupied(index) ==
  LET at == BitmapPosition(index) IN at.bit \in words[at.word]

(* The pool's handler that makes an array, for some bin of the band.       *)
MakeArray(index) ==
  /\ index \notin DOMAIN arrays
  /\ Cardinality(DOMAIN arrays) < MaxArrays
  /\ arrays' = [i \in DOMAIN arrays \union {index} |->
                  IF i = index THEN [slot \in Slots |-> NotDerived] ELSE arrays[i]]
  /\ UNCHANGED <<band, words>>

Touched == {at \in (DOMAIN arrays) \X Slots : IsDerived(arrays[at[1]][at[2]])}

(* bin_mut; a bin that fails to derive stays as it was.                    *)
BinMut(index, bin) ==
  /\ index \in DOMAIN arrays /\ Holds(index, bin)
  /\ ~IsDerived(arrays[index][Slot(index, bin)])
  /\ Cardinality(Touched) < MaxTouched
  /\ \E derived \in Derive(config.ladder, bin) :
       arrays' = [arrays EXCEPT ![index][Slot(index, bin)] = derived]
  /\ UNCHANGED <<band, words>>

(* Mutant: the word is overwritten, not changed in one bit.                *)
SetOverwrites(index, occupied) ==
  /\ IsIndex(index)
  /\ LET at == BitmapPosition(index)
     IN  words' = [words EXCEPT ![at.word] = IF occupied THEN {at.bit} ELSE {}]
  /\ UNCHANGED <<band, arrays>>

SetBinArrayOccupied(index, occupied) ==
  /\ IsIndex(index)
  /\ LET at == BitmapPosition(index)
     IN  words' = [words EXCEPT ![at.word] =
                     IF occupied THEN @ \union {at.bit} ELSE @ \ {at.bit}]
  /\ UNCHANGED <<band, arrays>>

(* A pool on an accepted config.                                           *)
HasPool == verdict = "accepted" /\ config \in Grids

GridNext ==
  \/ (Judge \/ Climb) /\ UNCHANGED <<arrays, words>>
  \/ HasPool /\ \E bin \in config.min .. config.max :
       \/ MakeArray(BinArrayIndex(bin))
       \/ \E index \in DOMAIN arrays : BinMut(index, bin)
  \/ HasPool /\ \E index \in DOMAIN arrays, occupied \in BOOLEAN :
       SetBinArrayOccupied(index, occupied)

GridSpec == GridInit /\ [][GridNext]_gridVars

-----------------------------------------------------------------------------
(* A client's parsePool (accounts.ts), word by word and bit by bit.        *)
OccupiedArrays ==
  {MinBinArrayIndex + at[1] * BitmapWordBits + at[2] :
     at \in {set \in BitmapWords \X (0 .. BitmapWordBits - 1) : set[2] \in words[set[1]]}}

BinIdAt(at) == LowerBinId(at[1]) + at[2]

Book == INSTANCE PriceBook WITH
  Ids <- HardMinBinId .. HardMaxBinId,
  Indexes <- MinBinArrayIndex .. MaxBinArrayIndex,
  prices <- [bin \in {BinIdAt(at) : at \in Touched} |->
               LET index == BinArrayIndex(bin) IN arrays[index][Slot(index, bin)].price],
  occupied <- OccupiedArrays

(* The program and a client read the same arrays from the bitmap, each in  *)
(* its own arithmetic and language.                                        *)
ProgramReads == {index \in MinBinArrayIndex .. MaxBinArrayIndex : IsOccupied(index)}
ReadersAgree == ProgramReads = OccupiedArrays

(* The arrays and the bitmap, read the way a client reads them, are a      *)
(* PriceBook: touching a bin prices that bin and no other, at a price in   *)
(* order with every one known before, never changed afterwards; marking an *)
(* array changes the answer for that array alone.                          *)
IsABook == Book!Spec

(* What a slot caches is what the ladder says of the bin the slot stands   *)
(* for, whichever side of zero it is on and whenever it was touched.       *)
CacheIsLadder ==
  \A at \in Touched : arrays[at[1]][at[2]] \in Derive(config.ladder, BinIdAt(at))
=============================================================================
