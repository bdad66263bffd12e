------------------------------- MODULE WideInt -------------------------------
(***************************************************************************)
(* The double-width arithmetic under every price and amount (u256.rs): a   *)
(* product of two words as two words, put together from products of their  *)
(* halves, and its restoring division by a word, one bit at a time.  The   *)
(* width is a constant: 64 bits to a half in the code, fewer here, with    *)
(* every carry and every truncation where the code has it.                 *)
(*                                                                         *)
(* A job is one call of mul_div or of one of its relatives.                *)
(***************************************************************************)
EXTENDS Integers

CONSTANTS
  Half,       \* 2^64: what half a word counts to
  HalfBits,   \* 64
  Operations  \* the functions called

ASSUME WidthAssumption ==
  /\ Half \in Nat \ {0, 1} /\ HalfBits \in Nat \ {0}
  /\ Operations \subseteq {"mul_div", "mul_div_round", "mul_div_ceil", "mul_q64",
                           "mul_q64_ceil", "div_q64", "div_q64_ceil"}

(* What a shift by n bits multiplies by.                                   *)
Pow2[n \in Nat] == IF n = 0 THEN 1 ELSE 2 * Pow2[n - 1]

ASSUME HalfIsPower == Half = Pow2[HalfBits]

Word == Half * Half
WordBits == 2 * HalfBits
Words == 0 .. Word - 1
OneQ64 == Half           \* ONE_Q64
U256 == [hi : Words, lo : Words]
ValueOf(u) == u.hi * Word + u.lo
FromWord(n) == [hi |-> 0, lo |-> n]

MathOverflow == -1
DivideByZero == -2

-----------------------------------------------------------------------------
(* U256::mul                                                               *)
MulFrom(p00, p01, p10, p11) ==
  LET mid == (p01 + p10) % Word
      carry == IF p01 + p10 >= Word THEN Half ELSE 0
      low == p00 + ((mid * Half) % Word)
  IN  [hi |-> p11 + mid \div Half + carry + (IF low >= Word THEN 1 ELSE 0),
       lo |-> low % Word]

(* Mutant: the carry of the two middle products is lost.                   *)
MulNoCarry(a, b) ==
  LET mid == ((a % Half) * (b \div Half) + (a \div Half) * (b % Half)) % Word
      low == (a % Half) * (b % Half) + ((mid * Half) % Word)
  IN  [hi |-> (a \div Half) * (b \div Half) + mid \div Half
              + (IF low >= Word THEN 1 ELSE 0),
       lo |-> low % Word]

Mul(a, b) ==
  MulFrom((a % Half) * (b % Half), (a % Half) * (b \div Half),
          (a \div Half) * (b % Half), (a \div Half) * (b \div Half))

(* checked_add_u128: the high half cannot overflow by a carry unless it is *)
(* full, which no product is.                                              *)
AddWord(u, n) ==
  [hi |-> u.hi + (IF u.lo + n >= Word THEN 1 ELSE 0), lo |-> (u.lo + n) % Word]

(* shr(64), and to_u128                                                    *)
ShrHalf(u) ==
  [hi |-> u.hi \div Half, lo |-> u.lo \div Half + ((u.hi * Half) % Word)]
ToWord(u) == IF u.hi = 0 THEN u.lo ELSE MathOverflow

Bit(u, i) ==
  IF i >= WordBits THEN (u.hi \div Pow2[i - WordBits]) % 2 ELSE (u.lo \div Pow2[i]) % 2

-----------------------------------------------------------------------------
VARIABLES
  job,    \* [op, a, b, d]
  num,    \* the dividend
  d,      \* the divisor
  rem, quoHi, quoLo,
  i,      \* bits of num still to bring down
  phase,  \* "start", "dividing" or "done"
  result

vars == <<job, num, d, rem, quoHi, quoLo, i, phase, result>>

Init ==
  /\ job \in [op : Operations, a : Words, b : Words, d : Words]
  /\ (job.op \notin {"mul_div", "mul_div_round", "mul_div_ceil"} => job.d = 0)
  /\ num = FromWord(0) /\ d = 0
  /\ rem = 0 /\ quoHi = 0 /\ quoLo = 0 /\ i = 0
  /\ phase = "start" /\ result = 0

Finish(r) ==
  /\ phase' = "done" /\ result' = r
  /\ UNCHANGED <<num, d, rem, quoHi, quoLo, i>>

(* div_u128: a dividend of one word is divided at once, a wider one bit by *)
(* bit from its highest.                                                   *)
HighestBit(n) == CHOOSE k \in 0 .. WordBits - 1 : n \div Pow2[k] = 1

Divide(u, by) ==
  IF u.hi = 0 THEN Finish(u.lo \div by)
  ELSE /\ num' = u /\ d' = by
       /\ rem' = 0 /\ quoHi' = 0 /\ quoLo' = 0
       /\ i' = WordBits + HighestBit(u.hi) + 1
       /\ phase' = "dividing"
       /\ UNCHANGED result

DivideCeil(u, by) == Divide(AddWord(u, by - 1), by)

-----------------------------------------------------------------------------
(* One action for each function.                                           *)
Called(op) == phase = "start" /\ job.op = op /\ UNCHANGED job
Fits(a, b) == a * b < Word

MulDiv ==
  /\ Called("mul_div")
  /\ IF job.d = 0 THEN Finish(DivideByZero)
     ELSE IF Fits(job.a, job.b) THEN Finish((job.a * job.b) \div job.d)
     ELSE Divide(Mul(job.a, job.b), job.d)

MulDivRound ==
  /\ Called("mul_div_round")
  /\ IF job.d = 0 THEN Finish(DivideByZero)
     ELSE Divide(AddWord(Mul(job.a, job.b), job.d \div 2), job.d)

MulDivCeil ==
  /\ Called("mul_div_ceil")
  /\ IF job.d = 0 THEN Finish(DivideByZero)
     ELSE IF Fits(job.a, job.b) THEN Finish((job.a * job.b + job.d - 1) \div job.d)
     ELSE DivideCeil(Mul(job.a, job.b), job.d)

MulQ64Floor == Called("mul_q64") /\ Finish(ToWord(ShrHalf(Mul(job.a, job.b))))

MulQ64Ceil == Called("mul_q64_ceil") /\ DivideCeil(Mul(job.a, job.b), OneQ64)

DivQ64 ==
  /\ Called("div_q64")
  /\ IF job.b = 0 THEN Finish(DivideByZero) ELSE Divide(Mul(job.a, OneQ64), job.b)

DivQ64Ceil ==
  /\ Called("div_q64_ceil")
  /\ IF job.b = 0 THEN Finish(DivideByZero) ELSE DivideCeil(Mul(job.a, OneQ64), job.b)

-----------------------------------------------------------------------------
(* One turn of the loop: the remainder is doubled in a word, and the bit   *)
(* that falls out of it says that the divisor goes in.                     *)
Doubled == ((2 * rem) % Word) + Bit(num, i - 1)

(* Mutant: the bit that falls out is forgotten.                            *)
GoesInByWord == Doubled >= d

GoesIn == 2 * rem >= Word \/ Doubled >= d

BringDown ==
  LET at == i - 1
  IN  /\ phase = "dividing" /\ i > 0
      /\ i' = at
      /\ rem' = IF GoesIn THEN (Doubled - d) % Word ELSE Doubled
      /\ quoHi' = IF GoesIn /\ at >= WordBits THEN quoHi + Pow2[at - WordBits] ELSE quoHi
      /\ quoLo' = IF GoesIn /\ at < WordBits THEN quoLo + Pow2[at] ELSE quoLo
      /\ UNCHANGED <<job, num, d, phase, result>>

Return ==
  /\ phase = "dividing" /\ i = 0
  /\ Finish(IF quoHi = 0 THEN quoLo ELSE MathOverflow)
  /\ UNCHANGED job

Next ==
  \/ MulDiv \/ MulDivRound \/ MulDivCeil
  \/ MulQ64Floor \/ MulQ64Ceil \/ DivQ64 \/ DivQ64Ceil
  \/ BringDown \/ Return

Spec == Init /\ [][Next]_vars

-----------------------------------------------------------------------------
(***************************************************************************)
(* Properties.                                                             *)
(***************************************************************************)
(* Every part of the machine stays within its words.                       *)
TypeOK ==
  /\ num \in U256 /\ d \in Words
  /\ rem \in Words /\ quoHi \in Words /\ quoLo \in Words
  /\ i \in 0 .. 2 * WordBits
  /\ phase \in {"start", "dividing", "done"}
  /\ result \in Words \cup {MathOverflow, DivideByZero}

(* Between turns the remainder is below the divisor: so its double fits a  *)
(* word and one bit, and subtracting the divisor once is enough.           *)
RemainderBelow == phase = "dividing" => d # 0 /\ rem < d

(* Between turns the bits brought down so far are divided exactly.         *)
PartlyDivided ==
  phase = "dividing" =>
    (quoHi * Word + quoLo) * d + rem * Pow2[i] = ValueOf(num) - (ValueOf(num) % Pow2[i])

(* Whatever the operands, the fast path and the slow one, the quotient     *)
(* rounded the way the function's name says comes out exactly, and one too *)
(* large for a word is an error, never a number.                           *)
Quotient(a, b) == IF a \div b < Word THEN a \div b ELSE MathOverflow
Expected(j) ==
  CASE j.op = "mul_div" /\ j.d > 0       -> Quotient(j.a * j.b, j.d)
    [] j.op = "mul_div_round" /\ j.d > 0 -> Quotient(j.a * j.b + j.d \div 2, j.d)
    [] j.op = "mul_div_ceil" /\ j.d > 0  -> Quotient(j.a * j.b + j.d - 1, j.d)
    [] j.op = "mul_q64"                  -> Quotient(j.a * j.b, OneQ64)
    [] j.op = "mul_q64_ceil"             -> Quotient(j.a * j.b + OneQ64 - 1, OneQ64)
    [] j.op = "div_q64" /\ j.b > 0       -> Quotient(j.a * OneQ64, j.b)
    [] j.op = "div_q64_ceil" /\ j.b > 0  -> Quotient(j.a * OneQ64 + j.b - 1, j.b)
    [] OTHER                             -> DivideByZero
Exact == phase = "done" => result = Expected(job)
=============================================================================
