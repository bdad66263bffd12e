------------------------------- MODULE Ladder --------------------------------
(***************************************************************************)
(* The tapered price ladder (ladder.rs): the width of a bin shrinks by the *)
(* factor `taper' from one bin to the next, and its price is two to the    *)
(* sum of the widths below it.  Bin 0 has price one.  A config is accepted *)
(* when its two end bins are sound and it stays inside the bitmap.         *)
(*                                                                         *)
(* The checks of Config::validate on the fee fields are left out: no       *)
(* definition here reads them.                                             *)
(***************************************************************************)
EXTENDS FixedPoint

CONSTANTS
  MinTaper,          \* MIN_TAPER_Q64
  StepUnitsPerOne,   \* STEP_UNITS_PER_ONE
  MinStep,           \* MIN_STEP_BP_X100
  MaxStep,           \* MAX_STEP_BP_X100
  MaxBinPerArray,    \* MAX_BIN_PER_ARRAY
  BitmapBits         \* BIN_ARRAY_BITMAP_BITS

ASSUME LadderAssumption ==
  /\ MinTaper \in 1 .. One
  /\ StepUnitsPerOne \in Nat \ {0} /\ MinStep \in Nat \ {0} /\ MaxStep \in Nat
  /\ MaxBinPerArray \in Nat \ {0}
  /\ BitmapBits \in Nat \ {0} /\ BitmapBits % 2 = 0

MinBinArrayIndex == -(BitmapBits \div 2)
MaxBinArrayIndex == BitmapBits \div 2 - 1
HardMinBinId == MinBinArrayIndex * MaxBinPerArray
HardMaxBinId == (MaxBinArrayIndex + 1) * MaxBinPerArray - 1

IsLadder(l) == l.width > 0 /\ l.taper \in MinTaper .. One     \* Ladder::new
IsUniform(l) == l.taper = One

Distance(id) == IF id < 0 THEN -id ELSE id
TaperPowAbs(l, id) == PowQ64(l.taper, Distance(id))

(* Mutant: below the anchor the width is multiplied like above it.         *)
WidthMirrored(l, id, q) == {w \in {MulQ64(l.width, q)} : w > 0}

(* DivQ64(width, q) below the anchor, where 1/q is the taper's power.      *)
WidthFromQ(l, id, q) ==
  IF id >= 0 THEN {w \in {MulQ64(l.width, q)} : w > 0}
  ELSE IF q = 0 THEN {}
  ELSE {w \in {(l.width * One) \div q} : w > 0}

Width(l, id) ==
  IF IsUniform(l) THEN {l.width} ELSE WidthFromQ(l, id, TaperPowAbs(l, id))

Log2PriceFromQ(l, id, q) ==
  IF id >= 0 THEN {(l.width * (One - q)) \div (One - l.taper)}
  ELSE LET den == MulQ64(q, One - l.taper)
       IN  IF den = 0 THEN {} ELSE {-((l.width * (One - q)) \div den)}

Log2Price(l, id) ==
  IF IsUniform(l) THEN {l.width * id} ELSE Log2PriceFromQ(l, id, TaperPowAbs(l, id))

Price(l, id) == UNION {Exp2(v) : v \in Log2Price(l, id)}

(* step_units, rounded to nearest as mul_div_round does.                   *)
StepUnits(w) ==
  {(2 * s * StepUnitsPerOne + One) \div (2 * One) : s \in Exp2MinusOneSmall(w)}

StepBp(l, id) == UNION {StepUnits(w) : w \in Width(l, id)}    \* step_bp_x100

(* Price and step from one computation of the taper's power.               *)
Derive(l, id) ==
  IF IsUniform(l)
  THEN [price : Price(l, id), step : StepUnits(l.width)]
  ELSE LET q == TaperPowAbs(l, id)
       IN  [price : UNION {Exp2(v) : v \in Log2PriceFromQ(l, id, q)},
            step : UNION {StepUnits(w) : w \in WidthFromQ(l, id, q)}]

(* Mutant: the narrowest bin, at the top, is not looked at.                *)
ValidateBottom(l, min, max) ==
  /\ min < max
  /\ \E low \in Price(l, min), above \in Price(l, min + 1) : low < above
  /\ \E widest \in StepBp(l, min) : widest <= MaxStep

ValidateRange(l, min, max) ==
  /\ min < max
  /\ \E low \in Price(l, min), high \in Price(l, max),
        above \in Price(l, min + 1), below \in Price(l, max - 1) :
       low < high /\ low < above /\ below < high
  /\ \E widest \in StepBp(l, min) : widest <= MaxStep
  /\ \E narrowest \in StepBp(l, max) : narrowest >= MinStep

(* Config::validate                                                        *)
Validate(c) ==
  /\ IsLadder(c.ladder)
  /\ ValidateRange(c.ladder, c.min, c.max)
  /\ c.min >= HardMinBinId /\ c.max <= HardMaxBinId

BinArrayIndex(id) == id \div MaxBinPerArray                   \* div_euclid
LowerBinId(index) == index * MaxBinPerArray
UpperBinId(index) == LowerBinId(index) + MaxBinPerArray - 1
=============================================================================
