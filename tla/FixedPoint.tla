----------------------------- MODULE FixedPoint ------------------------------
(***************************************************************************)
(* Powers in binary fixed point (fixed.rs), which "do not approximate the  *)
(* ladder, they define it": the powers of two by a table of roots, those   *)
(* of a base not above one by repeated squaring.  Everything rounds down.  *)
(* The number of fractional bits is a constant: 64 in the code.            *)
(*                                                                         *)
(* A Result is the set of the value it holds: {} is the error.             *)
(***************************************************************************)
EXTENDS Integers, SequencesExt

CONSTANTS
  ScaleOffset,   \* SCALE_OFFSET
  Exp2Table,     \* EXP2_TABLE
  Ln2            \* LN2_Q64

One == 2 ^ ScaleOffset                       \* ONE_Q64
MaxExp2Int == ScaleOffset - 2                \* MAX_EXP2_INT
MinExp2Int == 1 - ScaleOffset                \* MIN_EXP2_INT

(* EXP2_TABLE, "generated by repeated integer square root of 2.0".         *)
IsRootTable(table) ==
  /\ table \in [1 .. ScaleOffset -> Nat]
  /\ \A k \in 1 .. ScaleOffset :
       LET square == (IF k = 1 THEN 2 * One ELSE table[k - 1]) * One
       IN  table[k] ^ 2 <= square /\ square < (table[k] + 1) ^ 2

ASSUME TableAssumption == ScaleOffset \in Nat \ {0, 1} /\ IsRootTable(Exp2Table)

ASSUME Ln2Assumption == Ln2 \in 1 .. One - 1

Digit(n, k) == (n \div 2 ^ k) % 2

MulQ64(a, b) == (a * b) \div One

(* Mutant: one of the two remainders is forgotten.                         *)
MulHalfUnit(a, b) == One + (a - One) + ((a - One) * (b - One)) \div One

MulQ64Unit(a, b) == One + (a - One) + (b - One) + ((a - One) * (b - One)) \div One

(* The product of exp2_frac after the first k factors of the table.        *)
Exp2Product(frac, k) ==
  FoldLeft(LAMBDA product, j :
             IF Digit(frac, ScaleOffset - j) = 1
             THEN MulQ64Unit(product, Exp2Table[j]) ELSE product,
           One, [j \in 1 .. k |-> j])

Exp2Frac(frac) == Exp2Product(frac, ScaleOffset)

(* Mutant: the fraction of a negative log price is that of its absolute    *)
(* value, the integer part still the floor.                                *)
Exp2Mirrored(v) ==
  IF v \div One \notin MinExp2Int .. MaxExp2Int THEN {}
  ELSE LET int == v \div One
           base == Exp2Frac((IF v < 0 THEN -v ELSE v) % One)
           out == IF int >= 0 THEN base * 2 ^ int ELSE base \div 2 ^ (-int)
       IN  {p \in {out} : p > 0}

Exp2(v) ==
  IF v \div One \notin MinExp2Int .. MaxExp2Int THEN {}
  ELSE LET int == v \div One
           base == Exp2Frac(v % One)
           out == IF int >= 0 THEN base * 2 ^ int ELSE base \div 2 ^ (-int)
       IN  {p \in {out} : p > 0}

(* The series of 2^w - 1, for a small w.                                   *)
Exp2MinusOneSmall(w) ==
  LET u == MulQ64(w, Ln2)
      u2 == MulQ64(u, u)
      u3 == MulQ64(u2, u)
      u4 == MulQ64(u3, u)
  IN  {s \in {u + u2 \div 2 + u3 \div 6 + u4 \div 24} : 8 * w < One}

(* pow_q64, by repeated squaring.  The base is at most one, so no product  *)
(* overflows.                                                              *)
PowQ64(base, exp) ==
  LET Loop[result \in Nat, acc \in Nat, e \in 0 .. exp] ==
        IF e = 0 THEN result
        ELSE Loop[IF e % 2 = 1 THEN MulQ64(result, acc) ELSE result,
                  IF e > 1 THEN MulQ64(acc, acc) ELSE acc,
                  e \div 2]
  IN  Loop[One, base, exp]
=============================================================================
