---------------------------- MODULE WideIntProofs ----------------------------
(***************************************************************************)
(* The double-width arithmetic is exact, for every width: whatever the     *)
(* operands, a finished call holds the quotient its name promises.         *)
(*                                                                         *)
(* The powers of two come first (a recursive function, so its value is a   *)
(* fact about a CHOOSE), then division, the product of two words, and the  *)
(* loop's invariant.                                                       *)
(*                                                                         *)
(* At the end, where a pool keeps its bins (BinGrid): division again, of a *)
(* bin by the width of an array and of an array by the bits of a word.     *)
(***************************************************************************)
EXTENDS WideInt, BinGrid, WellFoundedInduction, TLAPS

(***************************************************************************)
(* Powers of two.                                                          *)
(***************************************************************************)
(* Induction over the naturals, stated of a set.                           *)
LEMMA Induction ==
  ASSUME NEW S \in SUBSET Nat, 0 \in S, \A n \in S : n + 1 \in S
  PROVE  S = Nat
<1> SUFFICES ASSUME Nat \ S # {} PROVE FALSE
  OBVIOUS
<1>1. PICK m \in Nat \ S : \A y \in Nat \ S : ~(<<y, m>> \in OpToRel(<, Nat))
  BY NatLessThanWellFounded, WFMin, Nat \ S \subseteq Nat
<1>2. \A y \in Nat \ S : ~(y < m)
  BY <1>1, Zenon DEF OpToRel
<1>3. m # 0 /\ m - 1 \in Nat
  OBVIOUS
<1>4. m - 1 \in S
  BY <1>2, <1>3
<1>5. QED
  BY <1>3, <1>4

(* f holds the powers up to the N-th.                                      *)
Powers(f, N) ==
  /\ f \in [0 .. N -> Nat]
  /\ \A n \in 0 .. N : f[n] = IF n = 0 THEN 1 ELSE 2 * f[n - 1]

LEMMA PowersExist == \A N \in Nat : \E f : Powers(f, N)
<1> DEFINE S == {N \in Nat : \E f : Powers(f, N)}
<1>1. 0 \in S
  <2>1. Powers([n \in 0 .. 0 |-> 1], 0)
    BY DEF Powers
  <2>2. QED
    BY <2>1
<1>2. ASSUME NEW N \in S PROVE N + 1 \in S
  <2>1. PICK f : Powers(f, N)
    OBVIOUS
  <2>2. Powers([n \in 0 .. N + 1 |-> IF n = N + 1 THEN 2 * f[N] ELSE f[n]], N + 1)
    BY <2>1 DEF Powers
  <2>3. QED
    BY <2>2
<1>3. S \in SUBSET Nat
  OBVIOUS
<1> HIDE DEF S
<1>4. S = Nat
  BY <1>1, <1>2, <1>3, Induction
<1>5. QED
  BY <1>4 DEF S

LEMMA PowersAgree ==
  ASSUME NEW M \in Nat, NEW N \in Nat, NEW f, NEW g, Powers(f, M), Powers(g, N)
  PROVE  \A n \in Nat : n <= M /\ n <= N => f[n] = g[n]
<1> DEFINE S == {n \in Nat : n <= M /\ n <= N => f[n] = g[n]}
<1>0. /\ \A n \in 0 .. M : f[n] = IF n = 0 THEN 1 ELSE 2 * f[n - 1]
      /\ \A n \in 0 .. N : g[n] = IF n = 0 THEN 1 ELSE 2 * g[n - 1]
  BY DEF Powers
<1>1. 0 \in S
  <2>1. 0 \in 0 .. M /\ 0 \in 0 .. N
    OBVIOUS
  <2>2. f[0] = 1 /\ g[0] = 1
    BY <1>0, <2>1
  <2>3. QED
    BY <2>2
<1>2. ASSUME NEW n \in S PROVE n + 1 \in S
  <2> SUFFICES ASSUME n + 1 <= M, n + 1 <= N PROVE f[n + 1] = g[n + 1]
    OBVIOUS
  <2>1. /\ n \in Nat /\ n <= M /\ n <= N
        /\ n + 1 \in 0 .. M /\ n + 1 \in 0 .. N /\ n + 1 # 0 /\ n + 1 - 1 = n
    OBVIOUS
  <2>2. f[n + 1] = 2 * f[n] /\ g[n + 1] = 2 * g[n]
    BY <1>0, <2>1
  <2>3. f[n] = g[n]
    BY <2>1
  <2>4. QED
    BY <2>2, <2>3
<1>3. S \in SUBSET Nat
  OBVIOUS
<1> HIDE DEF S
<1>4. S = Nat
  BY <1>1, <1>2, <1>3, Induction
<1>5. QED
  BY <1>4 DEF S

LEMMA PowTwo ==
  /\ \A n \in Nat : Pow2[n] \in Nat \ {0}
  /\ Pow2[0] = 1
  /\ \A n \in Nat : Pow2[n + 1] = 2 * Pow2[n]
<1> DEFINE F(N) == CHOOSE f : Powers(f, N)
           G == [n \in Nat |-> F(n)[n]]
<1>1. \A N \in Nat : Powers(F(N), N)
  BY PowersExist
<1> HIDE DEF F
<1>2. ASSUME NEW n \in Nat, n # 0 PROVE F(n)[n - 1] = F(n - 1)[n - 1]
  BY <1>1, <1>2, n - 1 \in Nat, PowersAgree
<1>3. G = [n \in Nat |-> IF n = 0 THEN 1 ELSE 2 * G[n - 1]]
  <2>1. ASSUME NEW n \in Nat PROVE F(n)[n] = IF n = 0 THEN 1 ELSE 2 * G[n - 1]
    <3>1. F(n)[n] = IF n = 0 THEN 1 ELSE 2 * F(n)[n - 1]
      BY <1>1 DEF Powers
    <3>2. n # 0 => G[n - 1] = F(n - 1)[n - 1]
      OBVIOUS
    <3>3. QED
      BY <1>2, <3>1, <3>2
  <2>2. QED
    BY <2>1
<1> HIDE DEF G
<1>4. Pow2 = [n \in Nat |-> IF n = 0 THEN 1 ELSE 2 * Pow2[n - 1]]
  BY <1>3 DEF Pow2
<1>5. \A n \in Nat : Pow2[n] = IF n = 0 THEN 1 ELSE 2 * Pow2[n - 1]
  BY <1>4
<1>6. \A n \in Nat : Pow2[n + 1] = 2 * Pow2[n]
  BY <1>5
<1> DEFINE S == {n \in Nat : Pow2[n] \in Nat \ {0}}
<1>7. 0 \in S
  BY <1>5
<1>8. ASSUME NEW n \in S PROVE n + 1 \in S
  BY <1>6
<1>9. S \in SUBSET Nat
  OBVIOUS
<1> HIDE DEF S
<1>10. S = Nat
  BY <1>7, <1>8, <1>9, Induction
<1>11. QED
  BY <1>5, <1>6, <1>10 DEF S

LEMMA PowSum == \A a, b \in Nat : Pow2[a + b] = Pow2[a] * Pow2[b]
<1> SUFFICES ASSUME NEW a \in Nat PROVE \A b \in Nat : Pow2[a + b] = Pow2[a] * Pow2[b]
  OBVIOUS
<1> DEFINE S == {b \in Nat : Pow2[a + b] = Pow2[a] * Pow2[b]}
<1>1. 0 \in S
  BY PowTwo
<1>2. ASSUME NEW b \in S PROVE b + 1 \in S
  <2>1. Pow2[(a + b) + 1] = 2 * Pow2[a + b] /\ Pow2[b + 1] = 2 * Pow2[b]
    BY PowTwo
  <2>2. (a + b) + 1 = a + (b + 1) /\ Pow2[a] \in Nat /\ Pow2[b] \in Nat
    BY PowTwo
  <2>3. QED
    BY <2>1, <2>2
<1>3. S \in SUBSET Nat
  OBVIOUS
<1> HIDE DEF S
<1>4. S = Nat
  BY <1>1, <1>2, <1>3, Induction
<1>5. QED
  BY <1>4 DEF S

(* A word is the power its bits say.                                       *)
LEMMA WordIsPower ==
  /\ Half \in Nat \ {0, 1} /\ HalfBits \in Nat /\ WordBits \in Nat
  /\ Word \in Nat /\ Word = Pow2[WordBits] /\ Word > Half
  /\ OneQ64 = Half
<1>1. Half \in Nat \ {0, 1} /\ HalfBits \in Nat
  BY WidthAssumption
<1>2. WordBits \in Nat /\ WordBits = HalfBits + HalfBits
  BY <1>1 DEF WordBits
<1>3. Word = Pow2[WordBits]
  BY <1>1, <1>2, PowSum, HalfIsPower DEF Word
<1>4. Word \in Nat /\ Word > Half
  BY <1>1 DEF Word
<1>5. QED
  BY <1>1, <1>2, <1>3, <1>4 DEF OneQ64

(* Every positive word has a highest bit.                                  *)
LEMMA HighestBitFound ==
  ASSUME NEW n \in Words \ {0}
  PROVE  /\ HighestBit(n) \in 0 .. WordBits - 1
         /\ n \div Pow2[HighestBit(n)] = 1
<1> DEFINE S == {k \in Nat : n < Pow2[k] => \E h \in 0 .. k - 1 : n \div Pow2[h] = 1}
<1>1. 0 \in S
  BY PowTwo, WordIsPower DEF Words
<1>2. ASSUME NEW k \in S PROVE k + 1 \in S
  <2> SUFFICES ASSUME n < Pow2[k + 1] PROVE \E h \in 0 .. k : n \div Pow2[h] = 1
    OBVIOUS
  <2>1. n \in Nat /\ Pow2[k] \in Nat \ {0} /\ n < 2 * Pow2[k]
    BY PowTwo, WordIsPower DEF Words
  <2>2. CASE n < Pow2[k]
    BY <2>2
  <2>3. CASE n >= Pow2[k]
    <3>1. n \div Pow2[k] = 1
      BY <2>1, <2>3
    <3>2. QED
      BY <3>1
  <2>4. QED
    BY <2>1, <2>2, <2>3
<1>3. S \in SUBSET Nat
  OBVIOUS
<1> HIDE DEF S
<1>4. S = Nat
  BY <1>1, <1>2, <1>3, Induction
<1>5. \E h \in 0 .. WordBits - 1 : n \div Pow2[h] = 1
  BY <1>4, WordIsPower DEF S, Words
<1>6. QED
  BY <1>5 DEF HighestBit

-----------------------------------------------------------------------------
(***************************************************************************)
(* Division.                                                               *)
(***************************************************************************)
LEMMA Division ==
  ASSUME NEW a \in Nat, NEW b \in Nat \ {0}
  PROVE  /\ a \div b \in Nat /\ a % b \in 0 .. b - 1
         /\ a = (a \div b) * b + (a % b)
  OBVIOUS

LEMMA QuotientTimes ==
  ASSUME NEW a \in Nat, NEW b \in Nat \ {0}
  PROVE  a \div b \in Nat /\ (a \div b) * b <= a
  OBVIOUS

LEMMA Products == \A a, b \in Nat : a * b \in Nat
  OBVIOUS

LEMMA Monotone ==
  ASSUME NEW a \in Nat, NEW b \in Nat, NEW c \in Nat, a <= b
  PROVE  a * c <= b * c
  OBVIOUS

(* A quotient and a remainder below the divisor are the only ones.         *)
LEMMA Unique ==
  ASSUME NEW a \in Nat, NEW b \in Nat \ {0}, NEW q \in Nat, NEW r \in 0 .. b - 1,
         a = q * b + r
  PROVE  a \div b = q /\ a % b = r
<1> DEFINE p == a \div b
<1>1. p \in Nat /\ a % b \in 0 .. b - 1 /\ a = p * b + (a % b)
  BY Division
<1> HIDE DEF p
<1>2. CASE p < q
  <2>1. (p + 1) * b <= q * b
    BY <1>1, <1>2
  <2>2. QED
    BY <1>1, <2>1
<1>3. CASE q < p
  <2>1. (q + 1) * b <= p * b
    BY <1>1, <1>3
  <2>2. QED
    BY <1>1, <2>1
<1>4. CASE p = q
  BY <1>1, <1>4 DEF p
<1>5. QED
  BY <1>1, <1>2, <1>3, <1>4

(* Dividing twice is dividing by the product.                              *)
LEMMA Twice ==
  ASSUME NEW a \in Nat, NEW b \in Nat \ {0}, NEW c \in Nat \ {0}
  PROVE  (a \div b) \div c = a \div (b * c)
<1> DEFINE q == a \div b
           p == q \div c
<1>1. q \in Nat /\ a % b \in 0 .. b - 1 /\ a = q * b + (a % b)
  BY Division
<1> HIDE DEF q
<1>2. p \in Nat /\ q % c \in 0 .. c - 1 /\ q = p * c + (q % c)
  BY <1>1, Division
<1> HIDE DEF p
<1> DEFINE r == (q % c) * b + (a % b)
<1>3. a = p * (b * c) + r
  <2>1. q * b = (p * c) * b + (q % c) * b
    BY <1>1, <1>2
  <2>2. (p * c) * b = p * (b * c)
    BY <1>2
  <2>3. QED
    BY <1>1, <1>2, <2>1, <2>2
<1>4. r \in 0 .. (b * c) - 1
  <2>1. (q % c) * b <= (c - 1) * b /\ (q % c) * b \in Nat
    BY <1>2, Monotone, Products, q % c \in Nat, c - 1 \in Nat, q % c <= c - 1
  <2>2. (c - 1) * b = b * c - b
    OBVIOUS
  <2>3. QED
    BY <1>1, <2>1, <2>2
<1>5. b * c \in Nat \ {0}
  OBVIOUS
<1> HIDE DEF r
<1>6. a \div (b * c) = p
  BY <1>2, <1>3, <1>4, <1>5, Unique
<1>7. QED
  BY <1>6 DEF p, q

(* A number below two words, cut to one.                                   *)
LEMMA CutToWord ==
  ASSUME NEW n \in Nat, n < 2 * Word
  PROVE  n % Word = IF n >= Word THEN n - Word ELSE n
<1>1. Word \in Nat \ {0}
  BY WordIsPower
<1>2. CASE n >= Word
  BY <1>1, <1>2, Unique, n = 1 * Word + (n - Word)
<1>3. CASE n < Word
  BY <1>1, <1>3, Unique, n = 0 * Word + n
<1>4. QED
  BY <1>1, <1>2, <1>3

LEMMA WordTyped ==
  /\ Word \in Nat \ {0} /\ Words \subseteq Nat /\ Word = Half * Half
  /\ \A u \in U256 : u.hi \in Words /\ u.lo \in Words /\ ValueOf(u) \in Nat
  BY WordIsPower DEF Words, Word, U256, ValueOf

(* Two words read as one number take it apart again.                       *)
LEMMA Parts ==
  ASSUME NEW hi \in Nat, NEW lo \in Words, hi * Word + lo < Word * Word
  PROVE  hi \in Words /\ [hi |-> hi, lo |-> lo] \in U256
<1>1. Word \in Nat \ {0} /\ lo \in Nat
  BY WordTyped
<1>2. hi * Word < Word * Word
  BY <1>1
<1>3. hi < Word
  BY <1>1, <1>2
<1>4. QED
  BY <1>1, <1>3 DEF Words, U256

-----------------------------------------------------------------------------
(***************************************************************************)
(* The product of two words, the sum with a word, the shift.               *)
(***************************************************************************)
(* Put together from the four products of halves, the number is what the   *)
(* schoolbook says, if it fits two words at all.                           *)
LEMMA MulFromExact ==
  ASSUME NEW p00 \in Nat, NEW p01 \in Nat, NEW p10 \in Nat, NEW p11 \in Nat,
         p00 + Half <= Word, p01 + p10 < 2 * Word
  PROVE  /\ MulFrom(p00, p01, p10, p11).hi \in Nat
         /\ MulFrom(p00, p01, p10, p11).lo \in Words
         /\ ValueOf(MulFrom(p00, p01, p10, p11))
            = p11 * Word + (p01 + p10) * Half + p00
<1> DEFINE m == p01 + p10
           mid == m % Word
           carry == IF m >= Word THEN Half ELSE 0
           mh == mid \div Half
           ml == mid % Half
           low == p00 + ml * Half
<1>1. Half \in Nat \ {0} /\ Word \in Nat \ {0} /\ Word = Half * Half
  BY WordIsPower, WordTyped
<1>2. m \in Nat /\ mid = (IF m >= Word THEN m - Word ELSE m) /\ mid \in 0 .. Word - 1
  <2>1. m \in Nat /\ m < 2 * Word
    OBVIOUS
  <2> HIDE DEF m
  <2>2. mid = (IF m >= Word THEN m - Word ELSE m)
    BY <2>1, CutToWord
  <2>3. QED
    BY <1>1, <2>1, <2>2
<1>3. carry * Word + mid * Half = m * Half
  <2>1. CASE m >= Word
    <3>1. (m - Word) * Half = m * Half - Word * Half
      BY <1>1, <1>2
    <3>2. QED
      BY <1>1, <1>2, <2>1, <3>1
  <2>2. CASE m < Word
    BY <1>1, <1>2, <2>2
  <2>3. QED
    BY <1>1, <1>2, <2>1, <2>2
<1> HIDE DEF m
<1> HIDE DEF mid
<1>4. mh \in Nat /\ ml \in 0 .. Half - 1 /\ mid = mh * Half + ml /\ carry \in Nat
  <2>1. mid \in Nat
    BY <1>1, <1>2
  <2>2. QED
    BY <1>1, <2>1, Division
<1> HIDE DEF mid, carry, mh, ml
<1>5. mid * Half = mh * Word + ml * Half
  <2>1. (mh * Half) * Half = mh * (Half * Half)
    BY <1>1, <1>4
  <2>2. QED
    BY <1>1, <1>4, <2>1
<1>6. ml * Half \in 0 .. Word - Half
  <2>1. ml * Half <= (Half - 1) * Half
    BY <1>1, <1>4, Monotone, Half - 1 \in Nat
  <2>2. QED
    BY <1>1, <1>4, <2>1
<1>7. (mid * Half) % Word = ml * Half
  <2>1. mid * Half \in Nat /\ ml * Half \in 0 .. Word - 1
    BY <1>1, <1>2, <1>6, Products
  <2> DEFINE x == mid * Half
             y == ml * Half
  <2>2. x \in Nat /\ y \in 0 .. Word - 1 /\ x = mh * Word + y
    BY <1>5, <2>1
  <2> HIDE DEF x, y
  <2>3. x % Word = y
    BY <1>1, <1>4, <2>2, Unique
  <2>4. QED
    BY <2>3 DEF x, y
<1>8. low \in Nat /\ low < 2 * Word
  BY <1>1, <1>6
<1>9. low % Word = (IF low >= Word THEN low - Word ELSE low) /\ low % Word \in Words
  BY <1>1, <1>8, CutToWord DEF Words
<1> DEFINE c == IF low >= Word THEN 1 ELSE 0
<1>10. MulFrom(p00, p01, p10, p11) = [hi |-> p11 + mh + carry + c, lo |-> low % Word]
  BY <1>7 DEF MulFrom, m, mid, carry, mh
<1> DEFINE lo == low % Word
<1>11. c * Word + lo = p00 + ml * Half /\ c \in Nat /\ lo \in Nat
  BY <1>1, <1>6, <1>8, <1>9
<1> HIDE DEF c, lo, low
<1>12. (p11 + mh + carry + c) * Word = p11 * Word + mh * Word + carry * Word + c * Word
  BY <1>1, <1>4, <1>11
<1>13. (p11 + mh + carry + c) * Word + lo = p11 * Word + m * Half + p00
  BY <1>1, <1>2, <1>3, <1>4, <1>5, <1>11, <1>12, Products
<1>14. QED
  BY <1>4, <1>9, <1>10, <1>11, <1>13 DEF ValueOf, lo, m
(* U256::mul loses nothing.                                                *)
LEMMA MulExact ==
  ASSUME NEW a \in Words, NEW b \in Words
  PROVE  Mul(a, b) \in U256 /\ ValueOf(Mul(a, b)) = a * b
<1> DEFINE ah == a \div Half
           al == a % Half
           bh == b \div Half
           bl == b % Half
<1>1. /\ Half \in Nat \ {0} /\ Word \in Nat \ {0} /\ Word = Half * Half
      /\ a \in Nat /\ b \in Nat /\ a < Word /\ b < Word
  BY WordIsPower, WordTyped DEF Words
<1>2. /\ ah \in Nat /\ al \in 0 .. Half - 1 /\ a = ah * Half + al
      /\ bh \in Nat /\ bl \in 0 .. Half - 1 /\ b = bh * Half + bl
  BY <1>1, Division
<1> HIDE DEF ah, al, bh, bl
<1>3. ah \in 0 .. Half - 1 /\ bh \in 0 .. Half - 1
  <2>1. \A n \in Nat : n * Half < Half * Half => n < Half
    BY <1>1
  <2>2. ah * Half < Half * Half /\ bh * Half < Half * Half
    BY <1>1, <1>2, Products
  <2>3. QED
    BY <1>1, <1>2, <2>1, <2>2
<1>4. \A m, n \in 0 .. Half - 1 : m * n \in Nat /\ m * n + Half <= Word
  <2> SUFFICES ASSUME NEW m \in 0 .. Half - 1, NEW n \in 0 .. Half - 1
               PROVE  m * n \in Nat /\ m * n + Half <= Word
    OBVIOUS
  <2>1. m * n <= (Half - 1) * n
    BY <1>1, Monotone, Half - 1 \in Nat
  <2>2. n * (Half - 1) <= (Half - 1) * (Half - 1)
    BY <1>1, Monotone, Half - 1 \in Nat
  <2>3. (Half - 1) * (Half - 1) + Half <= Word
    BY <1>1
  <2>4. QED
    BY <1>1, <2>1, <2>2, <2>3, Products
<1> DEFINE p00 == al * bl
           p01 == al * bh
           p10 == ah * bl
           p11 == ah * bh
<1>5. /\ p00 \in Nat /\ p01 \in Nat /\ p10 \in Nat /\ p11 \in Nat
      /\ p00 + Half <= Word /\ p01 + p10 < 2 * Word
  BY <1>1, <1>2, <1>3, <1>4
<1>6. p11 * Word + (p01 + p10) * Half + p00 = a * b
  <2>1. a * b = (ah * Half + al) * (bh * Half + bl)
    BY <1>2
  <2>2. (ah * Half + al) * (bh * Half + bl)
        = (ah * Half) * (bh * Half) + (ah * Half) * bl + al * (bh * Half) + al * bl
    BY <1>1, <1>2
  <2>3. (ah * Half) * (bh * Half) = p11 * (Half * Half)
    BY <1>1, <1>2
  <2>4. (ah * Half) * bl + al * (bh * Half) = (p01 + p10) * Half
    BY <1>1, <1>2
  <2>5. /\ (ah * Half) * bl \in Nat /\ al * (bh * Half) \in Nat
        /\ (ah * Half) * (bh * Half) \in Nat
    BY <1>1, <1>2, Products
  <2>6. QED
    BY <1>1, <1>5, <2>1, <2>2, <2>3, <2>4, <2>5
<1>7. Mul(a, b) = MulFrom(p00, p01, p10, p11)
  BY DEF Mul, ah, al, bh, bl
<1> HIDE DEF p00, p01, p10, p11
<1> DEFINE u == MulFrom(p00, p01, p10, p11)
<1>8. u.hi \in Nat /\ u.lo \in Words /\ ValueOf(u) = a * b
  BY <1>5, <1>6, MulFromExact
<1>9. a * b < Word * Word
  <2>1. a * b <= Word * b /\ b * Word < Word * Word
    BY <1>1, Monotone
  <2>2. QED
    BY <1>1, <2>1, Products
<1>10. u = [hi |-> u.hi, lo |-> u.lo]
  BY DEF MulFrom
<1> HIDE DEF u
<1>11. u \in U256
  BY <1>8, <1>9, <1>10, Parts DEF ValueOf
<1>12. QED
  BY <1>7, <1>8, <1>11 DEF u

(* Nor does a word added to a number with room for it.                     *)
LEMMA AddWordExact ==
  ASSUME NEW u \in U256, NEW n \in Words, ValueOf(u) + n < Word * Word
  PROVE  AddWord(u, n) \in U256 /\ ValueOf(AddWord(u, n)) = ValueOf(u) + n
<1> DEFINE s == u.lo + n
           c == IF s >= Word THEN 1 ELSE 0
           lo == s % Word
<1>1. /\ Word \in Nat \ {0} /\ u.hi \in Nat /\ u.lo \in Nat /\ n \in Nat
      /\ u.lo < Word /\ n < Word
  BY WordTyped DEF Words
<1>2. s \in Nat /\ s < 2 * Word
  BY <1>1
<1>3. lo = (IF s >= Word THEN s - Word ELSE s)
  <2> HIDE DEF s
  <2>1. QED
    BY <1>2, CutToWord
<1>4. c \in Nat /\ lo \in Nat /\ lo \in Words /\ c * Word + lo = s
  BY <1>1, <1>2, <1>3 DEF Words
<1>5. AddWord(u, n) = [hi |-> u.hi + c, lo |-> lo]
  BY DEF AddWord
<1> HIDE DEF c, lo
<1>6. (u.hi + c) * Word + lo = u.hi * Word + u.lo + n
  <2> DEFINE hw == u.hi * Word
             cw == c * Word
             sw == (u.hi + c) * Word
  <2>1. sw = hw + cw
    BY <1>1, <1>4
  <2>2. hw \in Nat /\ cw \in Nat /\ cw + lo = u.lo + n
    BY <1>1, <1>4, Products
  <2> HIDE DEF hw, cw, sw
  <2>3. sw + lo = hw + u.lo + n
    BY <1>1, <1>4, <2>1, <2>2
  <2>4. QED
    BY <2>3 DEF hw, sw
<1>7. [hi |-> u.hi + c, lo |-> lo] \in U256
  BY <1>1, <1>4, <1>6, Parts DEF ValueOf
<1>8. QED
  BY <1>5, <1>6, <1>7 DEF ValueOf
(* The number named by two words, as a word or an error.                   *)
LEMMA ToWordIs ==
  ASSUME NEW hi \in Nat, NEW lo \in Words, NEW n, n = hi * Word + lo
  PROVE  ToWord([hi |-> hi, lo |-> lo]) = IF n < Word THEN n ELSE MathOverflow
<1>1. Word \in Nat \ {0} /\ lo \in Nat /\ lo < Word
  BY WordTyped DEF Words
<1>2. CASE hi = 0
  BY <1>1, <1>2 DEF ToWord
<1>3. CASE hi > 0
  <2>1. hi * Word >= 1 * Word
    BY <1>1, <1>3, Monotone
  <2>2. QED
    BY <1>1, <1>3, <2>1, Products DEF ToWord
<1>4. QED
  BY <1>2, <1>3

(* The shift by half a double word divides by it.                          *)
LEMMA ShrHalfExact ==
  ASSUME NEW u \in U256
  PROVE  ToWord(ShrHalf(u)) = Quotient(ValueOf(u), Half)
<1> DEFINE hh == u.hi \div Half
           hl == u.hi % Half
           lh == u.lo \div Half
           ll == u.lo % Half
<1>1. /\ Half \in Nat \ {0} /\ Word \in Nat \ {0} /\ Word = Half * Half
      /\ u.hi \in Nat /\ u.lo \in Nat /\ u.lo < Word
  BY WordIsPower, WordTyped DEF Words
<1>2. /\ hh \in Nat /\ hl \in 0 .. Half - 1 /\ u.hi = hh * Half + hl
      /\ lh \in Nat /\ ll \in 0 .. Half - 1 /\ u.lo = lh * Half + ll
  BY <1>1, Division
<1> HIDE DEF hh, hl, lh, ll
<1>3. lh < Half
  <2>1. lh * Half < Half * Half
    BY <1>1, <1>2, Products
  <2>2. QED
    BY <1>1, <1>2, <2>1
<1>4. hl * Half \in 0 .. Word - Half
  <2>1. hl * Half <= (Half - 1) * Half
    BY <1>1, <1>2, Monotone, Half - 1 \in Nat
  <2>2. QED
    BY <1>1, <1>2, <2>1, Products
<1>5. u.hi * Half = hh * Word + hl * Half
  <2>1. (hh * Half) * Half = hh * (Half * Half)
    BY <1>1, <1>2
  <2>2. QED
    BY <1>1, <1>2, <2>1
<1>6. (u.hi * Half) % Word = hl * Half
  <2> DEFINE x == u.hi * Half
             y == hl * Half
  <2>1. x \in Nat /\ y \in 0 .. Word - 1 /\ x = hh * Word + y
    BY <1>1, <1>4, <1>5, Products
  <2> HIDE DEF x, y
  <2>2. x % Word = y
    BY <1>1, <1>2, <2>1, Unique
  <2>3. QED
    BY <2>2 DEF x, y
<1> DEFINE lo == lh + hl * Half
<1>7. lo \in Words /\ lo \in Nat
  BY <1>1, <1>2, <1>3, <1>4 DEF Words
<1>8. ShrHalf(u) = [hi |-> hh, lo |-> lo]
  BY <1>6 DEF ShrHalf, hh, lh
<1> DEFINE q == hh * Word + lo
<1>9. q \in Nat
  BY <1>1, <1>2, <1>7, Products
<1>10. ValueOf(u) = q * Half + ll /\ ValueOf(u) \in Nat
  <2>1. q = u.hi * Half + lh
    BY <1>1, <1>2, <1>4, <1>5, Products
  <2>2. q * Half = (u.hi * Half) * Half + lh * Half
    BY <1>1, <1>2, <2>1, Products
  <2>3. (u.hi * Half) * Half = u.hi * Word
    BY <1>1
  <2>4. u.hi * Word \in Nat /\ lh * Half \in Nat
    BY <1>1, <1>2, Products
  <2>5. QED
    BY <1>1, <1>2, <2>2, <2>3, <2>4 DEF ValueOf
<1>11. ToWord([hi |-> hh, lo |-> lo]) = IF q < Word THEN q ELSE MathOverflow
  <2> HIDE DEF lo
  <2>1. QED
    BY <1>2, <1>7, ToWordIs
<1> HIDE DEF q
<1>12. ValueOf(u) \div Half = q
  BY <1>1, <1>2, <1>9, <1>10, Unique
<1>13. QED
  BY <1>8, <1>11, <1>12 DEF Quotient

(* Bit finds the bit it names, in either word.                             *)
LEMMA BitIs ==
  ASSUME NEW u \in U256, NEW k \in 0 .. 2 * WordBits - 1
  PROVE  Bit(u, k) = (ValueOf(u) \div Pow2[k]) % 2
<1> DEFINE v == ValueOf(u)
<1>1. /\ Word \in Nat \ {0} /\ u.hi \in Nat /\ u.lo \in Nat /\ u.lo < Word
      /\ v \in Nat /\ v = u.hi * Word + u.lo
      /\ WordBits \in Nat /\ Word = Pow2[WordBits]
      /\ k \in Nat /\ Pow2[k] \in Nat \ {0}
  BY WordTyped, WordIsPower, PowTwo DEF Words, ValueOf
<1> HIDE DEF v
<1>2. CASE k >= WordBits
  <2> DEFINE p == Pow2[k - WordBits]
  <2>1. k - WordBits \in Nat /\ p \in Nat \ {0}
    BY <1>1, <1>2, PowTwo
  <2>2. Pow2[k] = Word * p
    BY <1>1, <2>1, PowSum, k = WordBits + (k - WordBits)
  <2>3. v \div Word = u.hi
    <3>1. u.lo \in 0 .. Word - 1
      BY <1>1
    <3>2. QED
      BY <1>1, <3>1, Unique
  <2>4. v \div (Word * p) = u.hi \div p
    <3> HIDE DEF p
    <3>1. QED
      BY <1>1, <2>1, <2>3, Twice
  <2>5. QED
    BY <1>2, <2>2, <2>4 DEF Bit, v
<1>3. CASE k < WordBits
  <2> DEFINE j == WordBits - k - 1
             r == Pow2[j]
             p == Pow2[k]
             q == u.lo \div p
             low == u.lo % p
  <2>1. j \in Nat /\ r \in Nat /\ p \in Nat \ {0}
    BY <1>1, <1>3, PowTwo
  <2>2. Word = 2 * r * p
    <3>1. Pow2[j + 1] = 2 * r
      BY <2>1, PowTwo
    <3>2. WordBits = (j + 1) + k
      BY <1>1
    <3>3. Pow2[(j + 1) + k] = Pow2[j + 1] * Pow2[k]
      BY <1>1, <2>1, PowSum
    <3>4. QED
      BY <1>1, <3>1, <3>2, <3>3
  <2>3. q \in Nat /\ low \in 0 .. p - 1 /\ u.lo = q * p + low
    BY <1>1, <2>1, Division
  <2> HIDE DEF j, r, p, q, low
  <2> DEFINE w == 2 * (u.hi * r) + q
  <2>4. w \in Nat /\ v = w * p + low
    <3>1. u.hi * Word = 2 * (u.hi * r) * p
      BY <1>1, <2>1, <2>2
    <3>2. w * p = 2 * (u.hi * r) * p + q * p
      BY <1>1, <2>1, <2>3, Products
    <3>3. u.hi * r \in Nat /\ 2 * (u.hi * r) * p \in Nat /\ q * p \in Nat
      BY <1>1, <2>1, <2>3, Products
    <3>4. QED
      BY <1>1, <2>3, <3>1, <3>2, <3>3
  <2>5. v \div p = w
    <3> HIDE DEF w
    <3>1. QED
      BY <1>1, <2>1, <2>3, <2>4, Unique
  <2>6. w % 2 = q % 2
    <3> DEFINE n == u.hi * r
    <3>1. n \in Nat
      BY <1>1, <2>1, Products
    <3> HIDE DEF n
    <3>2. (2 * n + q) % 2 = q % 2
      BY <2>3, <3>1
    <3>3. QED
      BY <3>2 DEF n
  <2>7. QED
    BY <1>1, <1>3, <2>5, <2>6 DEF Bit, v, p, q
<1>4. QED
  BY <1>1, <1>2, <1>3
-----------------------------------------------------------------------------
(***************************************************************************)
(* One turn of the loop.                                                   *)
(***************************************************************************)
(* With the remainder below the divisor, the test made in a word decides   *)
(* what the test on the true double would, and the subtraction that wraps  *)
(* in a word comes out right.                                              *)
LEMMA TurnInWord ==
  ASSUME NEW by \in Words \ {0}, NEW r \in 0 .. by - 1, NEW bit \in {0, 1}
  PROVE  /\ (2 * r >= Word \/ ((2 * r) % Word) + bit >= by) <=> 2 * r + bit >= by
         /\ 2 * r + bit >= by => ((((2 * r) % Word) + bit) - by) % Word = (2 * r + bit) - by
         /\ 2 * r + bit < by => ((2 * r) % Word) + bit = 2 * r + bit
<1> DEFINE D == ((2 * r) % Word) + bit
<1>1. Word \in Nat \ {0} /\ by \in Nat /\ by < Word /\ r \in Nat /\ r < by
  BY WordTyped DEF Words
<1>2. (2 * r) % Word = IF 2 * r >= Word THEN 2 * r - Word ELSE 2 * r
  BY <1>1, CutToWord, 2 * r \in Nat
<1>3. CASE 2 * r >= Word
  <2> DEFINE n == (2 * r + bit) - by
  <2>1. n \in 0 .. Word - 1 /\ D - by = n - Word
    BY <1>1, <1>2, <1>3
  <2>2. (n - Word) % Word = n
    <3> HIDE DEF n
    <3>1. QED
      BY <1>1, <2>1
  <2>3. QED
    BY <1>1, <1>3, <2>1, <2>2
<1>4. CASE 2 * r < Word
  <2> DEFINE n == D - by
  <2>1. D = 2 * r + bit /\ (D >= by => n \in 0 .. Word - 1)
    BY <1>1, <1>2, <1>4
  <2>2. n \in 0 .. Word - 1 => n % Word = n
    <3> HIDE DEF n
    <3>1. QED
      BY <1>1
  <2>3. QED
    BY <1>1, <1>4, <2>1, <2>2
<1>5. QED
  BY <1>1, <1>3, <1>4

(* The number v without its last k bits, divided: q, and r left over.      *)
DividedDownTo(v, by, r, k, q) == q * by + r * Pow2[k] = (v \div Pow2[k]) * Pow2[k]

(* Bringing one more bit down and taking g times the divisor away keeps    *)
(* the bits brought down divided exactly.                                  *)
LEMMA TurnExact ==
  ASSUME NEW v \in Nat, NEW by \in Nat, NEW r \in Nat, NEW k \in Nat, NEW q \in Nat,
         NEW g \in {0, 1}, DividedDownTo(v, by, r, k + 1, q)
  PROVE  DividedDownTo(v, by, (2 * r + ((v \div Pow2[k]) % 2)) - g * by, k,
                       q + g * Pow2[k])
<1> DEFINE p == Pow2[k]
           t == v \div p
           bit == t % 2
           T == v \div Pow2[k + 1]
<1>1. p \in Nat \ {0} /\ Pow2[k + 1] = p * 2
  BY PowTwo
<1>2. t \in Nat
  BY <1>1, Division
<1>3. T = t \div 2
  <2> HIDE DEF p
  <2>1. (v \div p) \div 2 = v \div (p * 2)
    BY <1>1, 2 \in Nat \ {0}, Twice
  <2>2. QED
    BY <1>1, <2>1
<1> HIDE DEF p, t, T
<1>4. T \in Nat /\ bit \in {0, 1} /\ t = T * 2 + bit
  BY <1>2, <1>3
<1> HIDE DEF bit
<1>5. q * by + (r * p) * 2 = (T * p) * 2
  <2>1. q * by + r * (p * 2) = T * (p * 2)
    BY <1>1 DEF T, DividedDownTo
  <2>2. r * (p * 2) = (r * p) * 2 /\ T * (p * 2) = (T * p) * 2
    BY <1>1, <1>4
  <2>3. QED
    BY <2>1, <2>2
<1>6. t * p = (T * p) * 2 + bit * p
  BY <1>1, <1>4
<1>7. (q + g * p) * by = q * by + g * (p * by)
  BY <1>1
<1>8. ((2 * r + bit) - g * by) * p = (r * p) * 2 + bit * p - g * (p * by)
  <2>1. CASE g = 0
    BY <1>1, <1>4, <2>1
  <2>2. CASE g = 1
    BY <1>1, <1>4, <2>2
  <2>3. QED
    BY <2>1, <2>2
<1>9. /\ q * by \in Nat /\ r * p \in Nat /\ T * p \in Nat /\ bit * p \in Nat
      /\ g * (p * by) \in Nat
  BY <1>1, <1>4, Products
<1>10. (q + g * p) * by + ((2 * r + bit) - g * by) * p = t * p
  BY <1>5, <1>6, <1>7, <1>8, <1>9
<1>11. QED
  BY <1>10 DEF p, t, bit, DividedDownTo

(* The quotient's words still have room for the bits to come.              *)
Room ==
  IF i >= WordBits THEN quoLo = 0 /\ quoHi + Pow2[i - WordBits] <= Word
                   ELSE quoLo + Pow2[i] <= Word

(* What a job divides, and by what.                                        *)
Jobs == [op : Operations, a : Words, b : Words, d : Words]

Dividend(j) ==
  CASE j.op = "mul_div"       -> j.a * j.b
    [] j.op = "mul_div_round" -> j.a * j.b + j.d \div 2
    [] j.op = "mul_div_ceil"  -> j.a * j.b + j.d - 1
    [] j.op = "mul_q64"       -> j.a * j.b
    [] j.op = "mul_q64_ceil"  -> j.a * j.b + OneQ64 - 1
    [] j.op = "div_q64"       -> j.a * OneQ64
    [] j.op = "div_q64_ceil"  -> j.a * OneQ64 + j.b - 1

Divisor(j) ==
  CASE j.op \in {"mul_div", "mul_div_round", "mul_div_ceil"} -> j.d
    [] j.op \in {"mul_q64", "mul_q64_ceil"}                 -> OneQ64
    [] j.op \in {"div_q64", "div_q64_ceil"}                 -> j.b

LEMMA Operation ==
  ASSUME NEW j \in Jobs
  PROVE  /\ j.op \in {"mul_div", "mul_div_round", "mul_div_ceil", "mul_q64",
                       "mul_q64_ceil", "div_q64", "div_q64_ceil"}
         /\ j.a \in Words /\ j.b \in Words /\ j.d \in Words
         /\ OneQ64 \in Words \ {0}
<1>1. j.op \in Operations /\ j.a \in Words /\ j.b \in Words /\ j.d \in Words
  BY DEF Jobs
<1>2. OneQ64 \in Words \ {0}
  BY WordIsPower DEF Words
<1>3. QED
  BY <1>1, <1>2, WidthAssumption

LEMMA ExpectedIs ==
  ASSUME NEW j \in Jobs
  PROVE  /\ Divisor(j) # 0 => Expected(j) = Quotient(Dividend(j), Divisor(j))
         /\ Divisor(j) = 0 => Expected(j) = DivideByZero
<1>1. \A n \in Words : n > 0 <=> n # 0
  BY WordTyped
<1>2. QED
  BY <1>1, Operation DEF Expected, Dividend, Divisor

(* A product of two words leaves room for one word more.                   *)
LEMMA RoomForAWord ==
  ASSUME NEW a \in Words, NEW b \in Words, NEW n \in Words
  PROVE  a * b \in Nat /\ a * b + n < Word * Word
<1>1. Word \in Nat \ {0} /\ a \in 0 .. Word - 1 /\ b \in 0 .. Word - 1 /\ n \in 0 .. Word - 1
  BY WordTyped DEF Words
<1>2. a * b <= (Word - 1) * b /\ b * (Word - 1) <= (Word - 1) * (Word - 1)
  BY <1>1, Monotone, Word - 1 \in Nat
<1>3. (Word - 1) * (Word - 1) + n < Word * Word
  BY <1>1
<1>4. QED
  BY <1>1, <1>2, <1>3, Products

(* The inductive invariant: the properties, and that a job in the loop     *)
(* divides what it was called for.                                         *)
Underway ==
  phase = "dividing" =>
    d = Divisor(job) /\ ValueOf(num) = Dividend(job) /\ Room

IInv ==
  job \in Jobs /\ TypeOK /\ RemainderBelow /\ PartlyDivided /\ Underway /\ Exact

LEMMA InitEstablishes == Init => IInv
<1> SUFFICES ASSUME Init PROVE IInv
  OBVIOUS
<1>1. 0 \in Words /\ WordBits \in Nat
  BY WordIsPower DEF Words
<1>2. QED
  BY <1>1 DEF Init, IInv, Jobs, TypeOK, RemainderBelow, PartlyDivided, Underway, Exact,
     FromWord, U256

(* A call that ends at once.                                               *)
LEMMA FinishRight ==
  ASSUME IInv, job' = job, NEW r, Finish(r), r = Expected(job),
         r \in Words \cup {MathOverflow, DivideByZero}
  PROVE  IInv'
  BY DEF IInv, TypeOK, RemainderBelow, PartlyDivided, Underway, Exact, Finish

(* A call that enters the loop, or finds its dividend short enough not to. *)
LEMMA DivideRight ==
  ASSUME IInv, job' = job, NEW u \in U256, NEW by \in Words \ {0}, Divide(u, by),
         by = Divisor(job), ValueOf(u) = Dividend(job)
  PROVE  IInv'
<1>1. /\ Word \in Nat \ {0} /\ WordBits \in Nat /\ Word = Pow2[WordBits]
      /\ by \in Nat \ {0} /\ by < Word
      /\ u.hi \in Words /\ u.lo \in Words
      /\ u.hi \in Nat /\ u.lo \in Nat /\ u.hi < Word /\ u.lo < Word
  BY WordTyped, WordIsPower DEF Words
<1>2. Expected(job) = Quotient(ValueOf(u), by)
  BY ExpectedIs DEF IInv
<1>3. CASE u.hi = 0
  <2>1. Finish(u.lo \div by)
    BY <1>3 DEF Divide
  <2>2. ValueOf(u) = u.lo
    BY <1>1, <1>3 DEF ValueOf
  <2> DEFINE r == u.lo \div by
  <2>3. r \in Nat /\ r < Word
    BY <1>1
  <2>4. r = Expected(job)
    BY <1>2, <2>2, <2>3 DEF Quotient
  <2>5. r \in Words
    BY <1>1, <2>3 DEF Words
  <2> HIDE DEF r
  <2>6. Finish(r)
    BY <2>1 DEF r
  <2>7. QED
    BY <2>4, <2>5, <2>6, FinishRight
<1>4. CASE u.hi # 0
  <2> DEFINE h == HighestBit(u.hi)
             p == Pow2[h]
             P == Pow2[WordBits + h + 1]
  <2>1. h \in 0 .. WordBits - 1 /\ u.hi \div p = 1
    BY <1>1, <1>4, HighestBitFound
  <2> HIDE DEF h
  <2>2. p \in Nat \ {0} /\ P \in Nat \ {0} /\ P = 2 * p * Word /\ Pow2[h + 1] = 2 * p
    <3>1. P = Pow2[WordBits] * Pow2[h + 1]
      BY <1>1, <2>1, PowSum, WordBits + h + 1 = WordBits + (h + 1)
    <3>2. Pow2[h + 1] = 2 * p
      BY <2>1, PowTwo
    <3>3. p \in Nat \ {0} /\ P \in Nat \ {0}
      BY <1>1, <2>1, PowTwo
    <3>4. QED
      BY <1>1, <3>1, <3>2, <3>3
  <2>3. u.hi < 2 * p
    <3> HIDE DEF p
    <3>1. u.hi = (u.hi \div p) * p + (u.hi % p) /\ u.hi % p \in 0 .. p - 1
      BY <1>1, <2>2, Division
    <3>2. QED
      BY <1>1, <2>1, <2>2, <3>1
  <2>4. Pow2[h + 1] <= Word
    <3> DEFINE e == WordBits - (h + 1)
    <3>1. Pow2[h + 1] \in Nat /\ Pow2[e] \in Nat \ {0} /\ Word = Pow2[e] * Pow2[h + 1]
      BY <1>1, <2>1, PowSum, PowTwo, e \in Nat, h + 1 \in Nat, WordBits = e + (h + 1)
    <3>2. 1 * Pow2[h + 1] <= Pow2[e] * Pow2[h + 1]
      <4> HIDE DEF e
      <4>1. QED
        BY <3>1, Monotone
    <3>3. QED
      BY <3>1, <3>2
  <2>5. ValueOf(u) \in Nat /\ ValueOf(u) < P
    <3>1. (u.hi + 1) * Word <= (2 * p) * Word
      BY <1>1, <2>2, <2>3, Monotone
    <3>2. (u.hi + 1) * Word = u.hi * Word + Word
      BY <1>1
    <3>3. QED
      BY <1>1, <2>2, <3>1, <3>2, Products DEF ValueOf
  <2>6. ValueOf(u) % P = ValueOf(u)
    <3> DEFINE v == ValueOf(u)
    <3>1. v \in Nat /\ v \in 0 .. P - 1 /\ v = 0 * P + v
      BY <2>2, <2>5
    <3> HIDE DEF v, P
    <3>2. v % P = v
      BY <2>2, <3>1, Unique
    <3>3. QED
      BY <3>2 DEF v
  <2>7. /\ num' = u /\ d' = by /\ rem' = 0 /\ quoHi' = 0 /\ quoLo' = 0
        /\ i' = WordBits + h + 1 /\ phase' = "dividing" /\ result' = result
    BY <1>4 DEF Divide, h
  <2>8. i' \in 0 .. 2 * WordBits /\ 0 \in Words
    BY <1>1, <2>1, <2>7 DEF Words
  <2>9. TypeOK'
    BY <2>7, <2>8 DEF IInv, TypeOK
  <2>10. RemainderBelow'
    BY <1>1, <2>7 DEF RemainderBelow
  <2>11. PartlyDivided'
    <3>1. (0 * Word + 0) * by + 0 * P = ValueOf(u) - (ValueOf(u) % P)
      <4>1. (0 * Word + 0) * by = 0 /\ 0 * P = 0
        BY <1>1, <2>2
      <4>2. ValueOf(u) - (ValueOf(u) % P) = 0
        BY <2>5, <2>6
      <4>3. QED
        BY <4>1, <4>2
    <3>2. QED
      BY <2>7, <3>1 DEF PartlyDivided
  <2>12. Underway'
    <3>1. i' >= WordBits /\ i' - WordBits = h + 1
      BY <1>1, <2>1, <2>7
    <3>2. Room'
      BY <1>1, <2>2, <2>4, <2>7, <3>1 DEF Room
    <3>3. QED
      BY <2>7, <3>2 DEF Underway
  <2>13. QED
    BY <2>7, <2>9, <2>10, <2>11, <2>12 DEF IInv, Exact
<1>5. QED
  BY <1>3, <1>4
(* One turn of the loop keeps the invariant.                               *)
LEMMA BringDownRight ==
  ASSUME IInv, BringDown
  PROVE  IInv'
<1> DEFINE at == i - 1
           p == Pow2[at]
           bit == Bit(num, at)
           double == 2 * rem + bit
           g == IF GoesIn THEN 1 ELSE 0
           q == quoHi * Word + quoLo
           v == ValueOf(num)
<1>1. /\ phase = "dividing" /\ d # 0 /\ rem < d /\ d = Divisor(job) /\ v = Dividend(job)
      /\ Room /\ q * d + rem * Pow2[i] = v - (v % Pow2[i])
      /\ num \in U256 /\ d \in Words /\ rem \in Words /\ quoHi \in Words /\ quoLo \in Words
      /\ i \in 0 .. 2 * WordBits /\ i > 0
  BY DEF IInv, TypeOK, RemainderBelow, PartlyDivided, Underway, BringDown
<1>2. /\ i' = at
      /\ rem' = IF GoesIn THEN (Doubled - d) % Word ELSE Doubled
      /\ quoHi' = IF GoesIn /\ at >= WordBits THEN quoHi + Pow2[at - WordBits] ELSE quoHi
      /\ quoLo' = IF GoesIn /\ at < WordBits THEN quoLo + p ELSE quoLo
      /\ job' = job /\ num' = num /\ d' = d /\ phase' = phase /\ result' = result
  BY DEF BringDown
<1>3. /\ Word \in Nat \ {0} /\ WordBits \in Nat /\ Word = Pow2[WordBits]
      /\ d \in Nat \ {0} /\ d < Word /\ rem \in Nat /\ quoHi \in Nat /\ quoLo \in Nat
      /\ v \in Nat
      /\ quoHi < Word /\ quoLo < Word
  BY <1>1, WordTyped, WordIsPower DEF Words
<1>4. at \in 0 .. 2 * WordBits - 1 /\ at \in Nat /\ i = at + 1
  BY <1>1, <1>3
<1>5. p \in Nat \ {0} /\ Pow2[i] \in Nat \ {0} /\ Pow2[i] = 2 * p
  BY <1>4, PowTwo
<1>6. bit = (v \div p) % 2 /\ bit \in {0, 1}
  <2>1. bit = (v \div p) % 2
    BY <1>1, <1>4, BitIs
  <2>2. v \div p \in Nat
    BY <1>3, <1>5, Division
  <2>3. QED
    BY <2>1, <2>2
<1>7. /\ GoesIn <=> double >= d
      /\ GoesIn => (Doubled - d) % Word = double - d
      /\ ~GoesIn => Doubled = double
  <2>1. Doubled = ((2 * rem) % Word) + bit
    BY DEF Doubled
  <2>2. GoesIn <=> (2 * rem >= Word \/ Doubled >= d)
    BY DEF GoesIn
  <2> HIDE DEF at, bit
  <2>3. d \in Words \ {0} /\ rem \in 0 .. d - 1
    BY <1>1, <1>3
  <2>4. /\ (2 * rem >= Word \/ ((2 * rem) % Word) + bit >= d) <=> 2 * rem + bit >= d
        /\ 2 * rem + bit >= d => ((((2 * rem) % Word) + bit) - d) % Word = (2 * rem + bit) - d
        /\ 2 * rem + bit < d => ((2 * rem) % Word) + bit = 2 * rem + bit
    BY <1>6, <2>3, TurnInWord
  <2>5. double \in Nat
    BY <1>3, <1>6
  <2>6. GoesIn <=> double >= d
    BY <2>1, <2>2, <2>4
  <2>7. double >= d => (Doubled - d) % Word = double - d
    BY <2>1, <2>4
  <2>8. ~(double >= d) => Doubled = double
    BY <1>3, <2>1, <2>4, <2>5
  <2>9. QED
    BY <2>6, <2>7, <2>8
<1> HIDE DEF at, p, bit, v
<1>8. rem' = double - g * d /\ rem' \in 0 .. d - 1 /\ g \in {0, 1}
  BY <1>1, <1>2, <1>3, <1>6, <1>7
<1>9. quoHi' * Word + quoLo' = q + g * p /\ q \in Nat
  <2>1. q \in Nat
    BY <1>3, Products
  <2>2. CASE ~GoesIn
    BY <1>2, <1>5, <2>1, <2>2
  <2>3. CASE GoesIn /\ at >= WordBits
    <3> DEFINE h == Pow2[at - WordBits]
    <3>1. h \in Nat /\ p = h * Word
      BY <1>3, <1>4, <2>3, PowSum, PowTwo, at - WordBits \in Nat,
         at = (at - WordBits) + WordBits DEF p
    <3>2. quoHi' = quoHi + h /\ quoLo' = quoLo
      BY <1>2, <1>3, <1>4, <2>3
    <3> HIDE DEF h
    <3>3. (quoHi + h) * Word = quoHi * Word + h * Word
      BY <1>3, <3>1
    <3>4. QED
      BY <1>3, <1>5, <2>1, <2>3, <3>1, <3>2, <3>3, Products
  <2>4. CASE GoesIn /\ at < WordBits
    BY <1>2, <1>3, <1>4, <1>5, <2>1, <2>4, Products
  <2>5. QED
    BY <1>3, <1>4, <2>1, <2>2, <2>3, <2>4
<1>10. Room' /\ quoHi' \in Words /\ quoLo' \in Words
  <2>1. CASE at >= WordBits
    <3> DEFINE h == Pow2[at - WordBits]
    <3>1. h \in Nat \ {0} /\ Pow2[i - WordBits] = 2 * h
      BY <1>3, <1>4, <2>1, PowTwo, at - WordBits \in Nat, i - WordBits = (at - WordBits) + 1
    <3>2. quoLo = 0 /\ quoHi + 2 * h <= Word
      BY <1>1, <1>3, <1>4, <2>1, <3>1 DEF Room
    <3>3. quoHi' = (IF GoesIn THEN quoHi + h ELSE quoHi) /\ quoLo' = quoLo /\ i' = at
      BY <1>2, <1>3, <1>4, <2>1
    <3>4. quoHi' + h <= Word /\ quoHi' \in Nat
      BY <1>3, <3>1, <3>2, <3>3
    <3>5. quoHi' \in Words /\ quoLo' \in Words
      BY <1>1, <1>3, <3>1, <3>3, <3>4 DEF Words
    <3>6. QED
      BY <2>1, <3>2, <3>3, <3>4, <3>5 DEF Room
  <2>2. CASE at < WordBits
    <3>1. quoLo + 2 * p <= Word
      <4>1. CASE at = WordBits - 1
        BY <1>1, <1>3, <1>4, <1>5, <4>1 DEF Room
      <4>2. CASE at < WordBits - 1
        BY <1>1, <1>3, <1>4, <1>5, <4>2 DEF Room
      <4>3. QED
        BY <1>3, <1>4, <2>2, <4>1, <4>2
    <3>2. quoLo' = (IF GoesIn THEN quoLo + p ELSE quoLo) /\ quoHi' = quoHi /\ i' = at
      BY <1>2, <1>3, <1>4, <2>2
    <3>3. quoLo' + p <= Word /\ quoLo' \in Nat
      BY <1>3, <1>5, <3>1, <3>2
    <3>4. quoHi' \in Words /\ quoLo' \in Words
      BY <1>1, <1>3, <1>5, <3>2, <3>3 DEF Words
    <3>5. QED
      BY <1>3, <1>4, <2>2, <3>2, <3>3, <3>4 DEF Room, p
  <2>3. QED
    BY <1>3, <1>4, <2>1, <2>2
<1>11. PartlyDivided'
  <2>1. \A P \in Nat \ {0} : v - (v % P) = (v \div P) * P
    <3> SUFFICES ASSUME NEW P \in Nat \ {0} PROVE v - (v % P) = (v \div P) * P
      OBVIOUS
    <3>1. v \div P \in Nat /\ v % P \in 0 .. P - 1 /\ v = (v \div P) * P + (v % P)
      BY <1>3, Division
    <3>2. (v \div P) * P \in Nat
      BY <3>1, Products
    <3>3. QED
      BY <1>3, <3>1, <3>2
  <2>2. DividedDownTo(v, d, rem, at + 1, q)
    BY <1>1, <1>4, <1>5, <2>1 DEF DividedDownTo
  <2> HIDE DEF g, q
  <2>3. (q + g * p) * d + ((2 * rem + bit) - g * d) * p = (v \div p) * p
    <3>1. DividedDownTo(v, d, (2 * rem + ((v \div Pow2[at]) % 2)) - g * d, at, q + g * Pow2[at])
      <4>1. v \in Nat /\ d \in Nat /\ rem \in Nat /\ at \in Nat /\ q \in Nat /\ g \in {0, 1}
        BY <1>3, <1>4, <1>8, <1>9
      <4>2. QED
        BY <2>2, <4>1, TurnExact
    <3>2. QED
      BY <1>6, <3>1 DEF p, DividedDownTo
  <2>4. (q + g * p) * d + ((2 * rem + bit) - g * d) * p = v - (v % p)
    BY <1>5, <2>1, <2>3
  <2>5. quoHi' * Word + quoLo' = q + g * p /\ rem' = (2 * rem + bit) - g * d
    BY <1>8, <1>9
  <2>7. Pow2[i'] = p
    BY <1>2 DEF p
  <2>8. QED
    BY <1>2, <2>4, <2>5, <2>7 DEF PartlyDivided, v
<1>12. RemainderBelow' /\ rem' \in Words
  BY <1>1, <1>2, <1>3, <1>8 DEF RemainderBelow, Words
<1>13. TypeOK'
  BY <1>2, <1>3, <1>4, <1>10, <1>12 DEF IInv, TypeOK
<1>14. Underway'
  BY <1>1, <1>2, <1>10 DEF Underway, v
<1>15. QED
  BY <1>1, <1>2, <1>11, <1>12, <1>13, <1>14 DEF IInv, Exact

(* When every bit is down, the quotient is whole.                          *)
LEMMA ReturnRight ==
  ASSUME IInv, Return
  PROVE  IInv'
<1> DEFINE q == quoHi * Word + quoLo
           v == ValueOf(num)
           r == IF quoHi = 0 THEN quoLo ELSE MathOverflow
<1>1. /\ phase = "dividing" /\ i = 0 /\ d # 0 /\ rem < d
      /\ d = Divisor(job) /\ v = Dividend(job)
      /\ q * d + rem * Pow2[i] = v - (v % Pow2[i])
      /\ num \in U256 /\ d \in Words /\ rem \in Words /\ quoHi \in Words /\ quoLo \in Words
      /\ job \in Jobs /\ job' = job /\ Finish(r)
  BY DEF IInv, TypeOK, RemainderBelow, PartlyDivided, Underway, Return
<1>2. /\ Word \in Nat \ {0} /\ d \in Nat \ {0} /\ rem \in Nat
      /\ quoHi \in Nat /\ quoLo \in Nat /\ v \in Nat /\ q \in Nat
  BY <1>1, WordTyped, Products DEF Words
<1> HIDE DEF v
<1>3. v = q * d + rem
  <2>1. v % 1 = 0 /\ q * d \in Nat
    BY <1>2, Products
  <2>2. q * d + rem * 1 = v - (v % 1)
    BY <1>1, PowTwo
  <2>3. QED
    BY <1>2, <2>1, <2>2
<1>4. v \div d = q
  <2> HIDE DEF q
  <2>1. QED
    BY <1>1, <1>2, <1>3, Unique
<1>5. r = IF q < Word THEN q ELSE MathOverflow
  <2>1. ToWord([hi |-> quoHi, lo |-> quoLo]) = IF q < Word THEN q ELSE MathOverflow
    BY <1>1, <1>2, ToWordIs
  <2>2. QED
    BY <2>1 DEF ToWord
<1>6. r = Expected(job)
  BY <1>1, <1>4, <1>5, ExpectedIs DEF Quotient
<1>7. r \in Words \cup {MathOverflow, DivideByZero}
  BY <1>1
<1> HIDE DEF r
<1>8. QED
  BY <1>1, <1>6, <1>7, FinishRight
(* A product is divided, as it is, or with a word added to round it up.    *)
LEMMA ProductRight ==
  ASSUME IInv, job' = job, NEW a \in Words, NEW b \in Words, NEW by \in Words \ {0},
         by = Divisor(job),
         \/ Divide(Mul(a, b), by) /\ Dividend(job) = a * b
         \/ \E n \in Words : /\ Divide(AddWord(Mul(a, b), n), by)
                             /\ Dividend(job) = a * b + n
  PROVE  IInv'
<1>1. Mul(a, b) \in U256 /\ ValueOf(Mul(a, b)) = a * b
  BY MulExact
<1>2. ASSUME NEW n \in Words
      PROVE  AddWord(Mul(a, b), n) \in U256 /\ ValueOf(AddWord(Mul(a, b), n)) = a * b + n
  BY <1>1, RoomForAWord, AddWordExact
<1>3. CASE Divide(Mul(a, b), by) /\ Dividend(job) = a * b
  BY <1>1, <1>3, DivideRight
<1>4. CASE \E n \in Words : Divide(AddWord(Mul(a, b), n), by) /\ Dividend(job) = a * b + n
  <2>1. PICK n \in Words : Divide(AddWord(Mul(a, b), n), by) /\ Dividend(job) = a * b + n
    BY <1>4
  <2>2. QED
    BY <1>2, <2>1, DivideRight
<1>5. QED
  BY <1>3, <1>4

(* A product that fits a word is divided at once, and the quotient fits.   *)
LEMMA FastRight ==
  ASSUME IInv, job' = job, NEW n \in Nat, NEW by \in Words \ {0},
         by = Divisor(job), Dividend(job) = n, n \div by < Word, Finish(n \div by)
  PROVE  IInv'
<1> DEFINE r == n \div by
<1>1. by \in Nat \ {0}
  BY WordTyped
<1>2. r \in Nat /\ r < Word
  BY <1>1, Division
<1>3. r = Expected(job)
  BY <1>1, <1>2, ExpectedIs DEF IInv, Quotient
<1>4. r \in Words
  BY <1>2, WordTyped DEF Words
<1> HIDE DEF r
<1>5. Finish(r)
  BY DEF r
<1>6. QED
  BY <1>3, <1>4, <1>5, FinishRight

(* Rounding the quotient of a word up does not take it out of a word.      *)
LEMMA CeilFits ==
  ASSUME NEW m \in Nat, NEW by \in Words \ {0}, NEW n \in Nat,
         m < Word, n = m + by - 1
  PROVE  n \div by < Word
<1> DEFINE q == n \div by
<1>1. Word \in Nat \ {0} /\ by \in Nat \ {0} /\ n \in Nat
  BY WordTyped
<1>2. q \in Nat /\ q * by <= n
  BY <1>1, QuotientTimes
<1> HIDE DEF q
<1>3. q * by \in Nat
  BY <1>1, <1>2, Products
<1>4. CASE m = 0
  <2>1. q * by < 1 * by
    BY <1>1, <1>2, <1>3, <1>4
  <2>2. q < 1
    BY <1>1, <1>2, <2>1
  <2>3. QED
    BY <1>1, <1>2, <2>2 DEF q
<1>5. CASE m > 0
  <2>1. n <= m * by
    BY <1>1, <1>5
  <2>2. q <= m
    BY <1>1, <1>2, <1>3, <2>1
  <2>3. QED
    BY <1>1, <1>2, <2>2 DEF q
<1>6. QED
  BY <1>4, <1>5

LEMMA ByZeroRight ==
  ASSUME IInv, job' = job, Divisor(job) = 0, Finish(DivideByZero)
  PROVE  IInv'
<1>1. Expected(job) = DivideByZero
  BY ExpectedIs DEF IInv
<1>2. QED
  BY <1>1, FinishRight

LEMMA StepKeeps == IInv /\ [Next]_vars => IInv'
<1> SUFFICES ASSUME IInv, [Next]_vars PROVE IInv'
  OBVIOUS
<1>1. /\ job \in Jobs /\ job.a \in Words /\ job.b \in Words /\ job.d \in Words
      /\ OneQ64 \in Words \ {0} /\ OneQ64 = Half
      /\ \A n \in Words : n \in Nat /\ n < Word
      /\ \A n \in Words \ {0} : n - 1 \in Words /\ n \div 2 \in Words
      /\ Word \in Nat \ {0}
  <2>1. job \in Jobs
    BY DEF IInv
  <2>2. /\ \A n \in Words : n \in Nat /\ n < Word
        /\ \A n \in Words \ {0} : n - 1 \in Words /\ n \div 2 \in Words
    BY WordIsPower DEF Words
  <2>3. QED
    BY <2>1, <2>2, Operation, WordIsPower, WordTyped
<1>2. \A m, n \in Words : m * n \in Nat
  BY <1>1, Products
<1>3. CASE MulDiv
  <2>1. job.op = "mul_div" /\ job' = job
    BY <1>3 DEF MulDiv, Called
  <2>2. Divisor(job) = job.d /\ Dividend(job) = job.a * job.b
    BY <2>1 DEF Divisor, Dividend
  <2>3. CASE job.d = 0
    BY <1>3, <2>1, <2>2, <2>3, ByZeroRight DEF MulDiv
  <2>4. CASE job.d # 0 /\ Fits(job.a, job.b)
    <3> DEFINE n == job.a * job.b
    <3>1. n \in Nat /\ n < Word /\ job.d \in Nat \ {0}
      BY <1>1, <1>2, <2>4 DEF Fits
    <3>2. n \div job.d < Word
      <4> HIDE DEF n
      <4>1. QED
        BY <1>1, <3>1
    <3>3. Finish(n \div job.d)
      BY <1>3, <2>4 DEF MulDiv
    <3> HIDE DEF n
    <3>4. Dividend(job) = n
      BY <2>2 DEF n
    <3>5. QED
      BY <1>1, <2>1, <2>2, <2>4, <3>1, <3>2, <3>3, <3>4, FastRight
  <2>5. CASE job.d # 0 /\ ~Fits(job.a, job.b)
    BY <1>1, <1>3, <2>1, <2>2, <2>5, ProductRight DEF MulDiv
  <2>6. QED
    BY <2>3, <2>4, <2>5
<1>4. CASE MulDivRound
  <2>1. job.op = "mul_div_round" /\ job' = job
    BY <1>4 DEF MulDivRound, Called
  <2>2. Divisor(job) = job.d /\ Dividend(job) = job.a * job.b + job.d \div 2
    BY <2>1 DEF Divisor, Dividend
  <2>3. CASE job.d = 0
    BY <1>4, <2>1, <2>2, <2>3, ByZeroRight DEF MulDivRound
  <2>4. CASE job.d # 0
    <3>1. job.d \div 2 \in Words
      BY <1>1, <2>4
    <3>2. Divide(AddWord(Mul(job.a, job.b), job.d \div 2), job.d)
      BY <1>4, <2>4 DEF MulDivRound
    <3>3. QED
      BY <1>1, <2>1, <2>2, <2>4, <3>1, <3>2, ProductRight
  <2>5. QED
    BY <2>3, <2>4
<1>5. CASE MulDivCeil
  <2>1. job.op = "mul_div_ceil" /\ job' = job
    BY <1>5 DEF MulDivCeil, Called
  <2>2. Divisor(job) = job.d /\ Dividend(job) = job.a * job.b + job.d - 1
    BY <2>1 DEF Divisor, Dividend
  <2>3. CASE job.d = 0
    BY <1>5, <2>1, <2>2, <2>3, ByZeroRight DEF MulDivCeil
  <2>4. CASE job.d # 0 /\ Fits(job.a, job.b)
    <3> DEFINE n == job.a * job.b + job.d - 1
               m == job.a * job.b
    <3>1. m \in Nat /\ m < Word /\ job.d \in Nat \ {0} /\ n = m + job.d - 1
      BY <1>1, <1>2, <2>4 DEF Fits
    <3>2. n \in Nat /\ n \div job.d < Word
      <4> HIDE DEF n, m
      <4>1. n \in Nat
        BY <3>1
      <4>2. QED
        BY <1>1, <2>4, <3>1, <4>1, CeilFits
    <3>3. Finish(n \div job.d)
      BY <1>5, <2>4 DEF MulDivCeil
    <3> HIDE DEF n
    <3>4. Dividend(job) = n
      BY <2>2 DEF n
    <3>5. QED
      BY <1>1, <2>1, <2>2, <2>4, <3>2, <3>3, <3>4, FastRight
  <2>5. CASE job.d # 0 /\ ~Fits(job.a, job.b)
    <3>1. job.d - 1 \in Words /\ Dividend(job) = job.a * job.b + (job.d - 1)
      BY <1>1, <1>2, <2>2, <2>5
    <3>2. Divide(AddWord(Mul(job.a, job.b), job.d - 1), job.d)
      BY <1>5, <2>5 DEF MulDivCeil, DivideCeil
    <3>3. QED
      BY <1>1, <2>1, <2>2, <2>5, <3>1, <3>2, ProductRight
  <2>6. QED
    BY <2>3, <2>4, <2>5
<1>6. CASE MulQ64Floor
  <2>1. job.op = "mul_q64" /\ job' = job /\ Finish(ToWord(ShrHalf(Mul(job.a, job.b))))
    BY <1>6 DEF MulQ64Floor, Called
  <2>2. Divisor(job) = OneQ64 /\ Dividend(job) = job.a * job.b
    BY <2>1 DEF Divisor, Dividend
  <2> DEFINE r == ToWord(ShrHalf(Mul(job.a, job.b)))
  <2>3. r = Expected(job) /\ r = Quotient(job.a * job.b, Half)
    BY <1>1, <2>2, MulExact, ShrHalfExact, ExpectedIs
  <2>4. r \in Words \cup {MathOverflow, DivideByZero}
    <3> DEFINE m == job.a * job.b
    <3>1. m \in Nat /\ Half \in Nat \ {0}
      BY <1>1, <1>2, WordIsPower
    <3> HIDE DEF m
    <3>2. m \div Half \in Nat
      BY <3>1, Division
    <3>3. QED
      BY <1>1, <2>3, <3>2 DEF Quotient, Words, m
  <2>5. QED
    BY <2>1, <2>3, <2>4, FinishRight
<1>7. CASE MulQ64Ceil
  <2>1. job.op = "mul_q64_ceil" /\ job' = job
    BY <1>7 DEF MulQ64Ceil, Called
  <2>2. Divisor(job) = OneQ64 /\ Dividend(job) = job.a * job.b + OneQ64 - 1
    BY <2>1 DEF Divisor, Dividend
  <2>3. OneQ64 - 1 \in Words /\ Dividend(job) = job.a * job.b + (OneQ64 - 1)
    BY <1>1, <1>2, <2>2
  <2>4. Divide(AddWord(Mul(job.a, job.b), OneQ64 - 1), OneQ64)
    BY <1>7 DEF MulQ64Ceil, DivideCeil
  <2>5. QED
    BY <1>1, <2>1, <2>2, <2>3, <2>4, ProductRight
<1>8. CASE DivQ64
  <2>1. job.op = "div_q64" /\ job' = job
    BY <1>8 DEF DivQ64, Called
  <2>2. Divisor(job) = job.b /\ Dividend(job) = job.a * OneQ64
    BY <2>1 DEF Divisor, Dividend
  <2>3. CASE job.b = 0
    BY <1>8, <2>1, <2>2, <2>3, ByZeroRight DEF DivQ64
  <2>4. CASE job.b # 0
    BY <1>1, <1>8, <2>1, <2>2, <2>4, ProductRight DEF DivQ64
  <2>5. QED
    BY <2>3, <2>4
<1>9. CASE DivQ64Ceil
  <2>1. job.op = "div_q64_ceil" /\ job' = job
    BY <1>9 DEF DivQ64Ceil, Called
  <2>2. Divisor(job) = job.b /\ Dividend(job) = job.a * OneQ64 + job.b - 1
    BY <2>1 DEF Divisor, Dividend
  <2>3. CASE job.b = 0
    BY <1>9, <2>1, <2>2, <2>3, ByZeroRight DEF DivQ64Ceil
  <2>4. CASE job.b # 0
    <3>1. job.b - 1 \in Words /\ Dividend(job) = job.a * OneQ64 + (job.b - 1)
      BY <1>1, <1>2, <2>2, <2>4
    <3>2. Divide(AddWord(Mul(job.a, OneQ64), job.b - 1), job.b)
      BY <1>9, <2>4 DEF DivQ64Ceil, DivideCeil
    <3>3. QED
      BY <1>1, <2>1, <2>2, <2>4, <3>1, <3>2, ProductRight
  <2>5. QED
    BY <2>3, <2>4
<1>10. CASE BringDown
  BY <1>10, BringDownRight
<1>11. CASE Return
  BY <1>11, ReturnRight
<1>12. CASE UNCHANGED vars
  BY <1>12 DEF IInv, TypeOK, RemainderBelow, PartlyDivided, Underway, Room, Exact, vars
<1>13. QED
  BY <1>3, <1>4, <1>5, <1>6, <1>7, <1>8, <1>9, <1>10, <1>11, <1>12 DEF Next

-----------------------------------------------------------------------------
(* The remainder of div_u128 stays below the divisor between turns, so one *)
(* subtraction a turn is enough, whatever the width.                       *)
THEOREM RemainderStaysBelow == Spec => []RemainderBelow
<1>1. IInv => RemainderBelow
  BY DEF IInv
<1>2. QED
  BY <1>1, InitEstablishes, StepKeeps, PTL DEF Spec

(* Between turns the bits brought down so far are divided exactly.         *)
THEOREM LoopDividesExactly == Spec => [](TypeOK /\ PartlyDivided)
<1>1. IInv => TypeOK /\ PartlyDivided
  BY DEF IInv
<1>2. QED
  BY <1>1, InitEstablishes, StepKeeps, PTL DEF Spec

(* Every function of u256.rs that multiplies and divides returns the exact *)
(* quotient rounded as it is named, or an error exactly when it does not   *)
(* fit: for every operand of every width.                                  *)
THEOREM QuotientsAreExact == Spec => []Exact
<1>1. IInv => Exact
  BY DEF IInv
<1>2. QED
  BY <1>1, InitEstablishes, StepKeeps, PTL DEF Spec

-----------------------------------------------------------------------------
(***************************************************************************)
(* The grid of bins.                                                       *)
(***************************************************************************)
ArrayIndexes == MinBinArrayIndex .. MaxBinArrayIndex
Bits == 0 .. BitmapWordBits - 1

(* A word and a bit for each array.                                        *)
LEMMA PositionOfArray ==
  ASSUME NEW index \in ArrayIndexes
  PROVE  LET at == BitmapPosition(index)
         IN  /\ at.word \in BitmapWords /\ at.bit \in Bits
             /\ index = MinBinArrayIndex + at.word * BitmapWordBits + at.bit
<1> DEFINE v == BitmapWordBits
           h == BitmapBits \div 2
           k == BitmapBits \div v
           offset == index - MinBinArrayIndex
<1>1. v \in Nat \ {0} /\ BitmapBits \in Nat \ {0} /\ BitmapBits % 2 = 0 /\ BitmapBits % v = 0
  BY LadderAssumption, GridAssumption
<1>2. h \in Nat /\ BitmapBits = 2 * h /\ k \in Nat /\ BitmapBits = k * v
  <2>1. BitmapBits = (BitmapBits \div 2) * 2 + (BitmapBits % 2) /\ h \in Nat
    BY <1>1, Division
  <2>2. BitmapBits = k * v + (BitmapBits % v) /\ k \in Nat
    BY <1>1, Division
  <2>3. QED
    BY <1>1, <2>1, <2>2
<1>3. offset \in 0 .. k * v - 1 /\ offset \in Nat /\ index \in Int /\ MinBinArrayIndex \in Int
  <2>1. index \in -h .. h - 1 /\ MinBinArrayIndex = -h
    BY DEF ArrayIndexes, MinBinArrayIndex, MaxBinArrayIndex
  <2> HIDE DEF h, k, v
  <2>2. offset = index + h
    BY <1>2, <2>1
  <2> HIDE DEF offset
  <2>3. QED
    BY <1>2, <2>1, <2>2
<1>4. offset \div v \in Nat /\ offset % v \in 0 .. v - 1
      /\ offset = (offset \div v) * v + (offset % v)
  BY <1>1, <1>3, Division
<1>5. offset \div v \in 0 .. k - 1
  <2>1. ASSUME ~(offset \div v < k) PROVE FALSE
    <3>1. k * v <= (offset \div v) * v
      BY <1>1, <1>2, <1>4, <2>1, Monotone
    <3>2. k * v \in Nat /\ (offset \div v) * v \in Nat
      BY <1>1, <1>2, <1>4, Products
    <3> HIDE DEF offset
    <3>3. QED
      BY <1>3, <1>4, <3>1, <3>2
  <2>2. QED
    BY <1>2, <1>4, <2>1
<1>6. index = MinBinArrayIndex + (offset \div v) * v + (offset % v)
  <2>1. (offset \div v) * v \in Nat /\ offset % v \in Nat
    BY <1>1, <1>4, Products
  <2>2. \A j, m \in Int : \A q, r \in Nat : j - m = q + r => j = m + q + r
    OBVIOUS
  <2>3. QED
    BY <1>3, <1>4, <2>1, <2>2
<1>7. /\ BitmapPosition(index).word = offset \div v
      /\ BitmapPosition(index).bit = offset % v
  BY DEF BitmapPosition
<1>8. QED
  BY <1>4, <1>5, <1>6, <1>7 DEF BitmapWords, Bits

(* And an array for each word and bit.                                     *)
LEMMA ArrayAtPosition ==
  ASSUME NEW word \in BitmapWords, NEW bit \in Bits
  PROVE  LET index == MinBinArrayIndex + word * BitmapWordBits + bit
         IN  /\ index \in ArrayIndexes
             /\ BitmapPosition(index).word = word /\ BitmapPosition(index).bit = bit
<1> DEFINE v == BitmapWordBits
           h == BitmapBits \div 2
           k == BitmapBits \div v
           index == MinBinArrayIndex + word * v + bit
           n == word * v + bit
<1>1. v \in Nat \ {0} /\ BitmapBits \in Nat \ {0} /\ BitmapBits % 2 = 0 /\ BitmapBits % v = 0
  BY LadderAssumption, GridAssumption
<1>2. h \in Nat /\ BitmapBits = 2 * h /\ k \in Nat /\ BitmapBits = k * v
  <2>1. BitmapBits = (BitmapBits \div 2) * 2 + (BitmapBits % 2) /\ h \in Nat
    BY <1>1, Division
  <2>2. BitmapBits = k * v + (BitmapBits % v) /\ k \in Nat
    BY <1>1, Division
  <2>3. QED
    BY <1>1, <2>1, <2>2
<1>3. word \in Nat /\ word + 1 <= k /\ bit \in 0 .. v - 1
  <2>1. word \in 0 .. k - 1 /\ bit \in 0 .. v - 1
    BY DEF BitmapWords, Bits
  <2> HIDE DEF k, v
  <2>2. QED
    BY <1>2, <2>1
<1>4. word * v \in Nat /\ (word + 1) * v = word * v + v /\ (word + 1) * v <= k * v
  <2>1. (word + 1) * v <= k * v
    BY <1>1, <1>2, <1>3, Monotone
  <2>2. QED
    BY <1>1, <1>3, <2>1
<1>5. n \in Nat /\ n < 2 * h
  <2>1. bit \in Nat /\ bit < v
    BY <1>1, <1>3
  <2>2. \A p, b, c, t \in Nat : b < c /\ p + c <= t => p + b \in Nat /\ p + b < t
    OBVIOUS
  <2>3. k * v \in Nat
    BY <1>1, <1>2
  <2>4. n \in Nat /\ n < k * v
    BY <1>1, <1>4, <2>1, <2>2, <2>3
  <2>5. QED
    BY <1>2, <2>4
<1>6. MinBinArrayIndex = -h /\ MaxBinArrayIndex = h - 1
  BY DEF MinBinArrayIndex, MaxBinArrayIndex
<1>7. index = n - h
  <2>1. index = -h + word * v + bit /\ n = word * v + bit
    BY <1>6
  <2>2. \A p, b, c \in Nat : -c + p + b = (p + b) - c
    OBVIOUS
  <2>3. bit \in Nat
    BY <1>1, <1>3
  <2>4. QED
    BY <1>2, <1>4, <2>1, <2>2, <2>3
<1> HIDE DEF index, n, h
<1>8. index \in ArrayIndexes /\ index - MinBinArrayIndex = n
  BY <1>2, <1>5, <1>6, <1>7 DEF ArrayIndexes
<1>9. n \div v = word /\ n % v = bit
  BY <1>1, <1>3, <1>5, Unique DEF n
<1>10. BitmapPosition(index).word = word /\ BitmapPosition(index).bit = bit
  BY <1>8, <1>9 DEF BitmapPosition
<1>11. QED
  BY <1>8, <1>10 DEF index

(* What the program finds bit by bit is what a client counts up.           *)
LEMMA ReadersMeet == ReadersAgree
<1>1. ASSUME NEW index \in ProgramReads PROVE index \in OccupiedArrays
  <2> DEFINE at == BitmapPosition(index)
  <2>1. index \in ArrayIndexes /\ at.bit \in words[at.word]
    BY DEF ProgramReads, ArrayIndexes, IsOccupied
  <2>2. /\ at.word \in BitmapWords /\ at.bit \in Bits
        /\ index = MinBinArrayIndex + at.word * BitmapWordBits + at.bit
    BY <2>1, PositionOfArray
  <2> HIDE DEF at
  <2>3. <<at.word, at.bit>> \in
          {p \in BitmapWords \X (0 .. BitmapWordBits - 1) : p[2] \in words[p[1]]}
    BY <2>1, <2>2 DEF Bits
  <2>4. QED
    BY <2>2, <2>3 DEF OccupiedArrays
<1>2. ASSUME NEW index \in OccupiedArrays PROVE index \in ProgramReads
  <2>1. PICK p \in {q \in BitmapWords \X (0 .. BitmapWordBits - 1) : q[2] \in words[q[1]]} :
          index = MinBinArrayIndex + p[1] * BitmapWordBits + p[2]
    BY DEF OccupiedArrays
  <2>2. p[1] \in BitmapWords /\ p[2] \in Bits /\ p[2] \in words[p[1]]
    BY <2>1 DEF Bits
  <2>3. /\ index \in ArrayIndexes
        /\ BitmapPosition(index).word = p[1] /\ BitmapPosition(index).bit = p[2]
    BY <2>1, <2>2, ArrayAtPosition
  <2>4. QED
    BY <2>2, <2>3 DEF ProgramReads, ArrayIndexes, IsOccupied
<1>3. QED
  BY <1>1, <1>2 DEF ReadersAgree

(* Every array made is whole, and every word is there.                     *)
GridTyped ==
  /\ config \in Configs /\ (verdict = "accepted" => Validate(config))
  /\ \A index \in DOMAIN arrays :
       index \in Int /\ arrays[index] = [slot \in Slots |-> arrays[index][slot]]
  /\ arrays = [index \in DOMAIN arrays |-> arrays[index]]
  /\ words = [word \in BitmapWords |-> words[word]]

(* Only bins of an accepted band are ever touched.                         *)
InBand ==
  \A at \in Touched : verdict = "accepted" /\ BinIdAt(at) \in config.min .. config.max

GridInv == GridTyped /\ InBand /\ CacheIsLadder

(* The slot of a bin is in its array, and stands for that bin.             *)
LEMMA SlotIsBin ==
  ASSUME NEW index \in Int, NEW bin \in Int, Holds(index, bin)
  PROVE  Slot(index, bin) \in Slots /\ BinIdAt(<<index, Slot(index, bin)>>) = bin
<1> DEFINE w == MaxBinPerArray
           l == LowerBinId(index)
<1>1. w \in Nat \ {0} /\ l \in Int
  BY LadderAssumption DEF LowerBinId
<1>2. l <= bin /\ bin <= l + w - 1
  BY DEF Holds, UpperBinId
<1>3. Slot(index, bin) = bin - l /\ BinIdAt(<<index, Slot(index, bin)>>) = l + (bin - l)
  BY DEF Slot, BinIdAt
<1> HIDE DEF l
<1>4. QED
  BY <1>1, <1>2, <1>3 DEF Slots

LEMMA GridStarts == GridInit => GridInv
<1> SUFFICES ASSUME GridInit PROVE GridInv
  OBVIOUS
<1>1. DOMAIN arrays = {}
  BY DEF GridInit
<1>2. config \in Configs /\ words = [word \in BitmapWords |-> words[word]]
      /\ arrays = [index \in DOMAIN arrays |-> arrays[index]]
  BY DEF GridInit, Asked
<1>3. Touched = {}
  BY <1>1 DEF Touched
<1>4. verdict # "accepted"
  BY DEF GridInit, Asked
<1>5. QED
  BY <1>1, <1>2, <1>3, <1>4 DEF GridInv, GridTyped, InBand, CacheIsLadder

(* Looking at a bin for the first time fills its slot, and no other.       *)
LEMMA TouchesOne ==
  ASSUME GridTyped, NEW index \in DOMAIN arrays, NEW bin \in config.min .. config.max,
         BinMut(index, bin)
  PROVE  LET s == Slot(index, bin)
         IN  /\ s \in Slots /\ BinIdAt(<<index, s>>) = bin
             /\ config' = config /\ verdict' = verdict /\ words' = words
             /\ DOMAIN arrays' = DOMAIN arrays /\ arrays' = [j \in DOMAIN arrays' |-> arrays'[j]]
             /\ \A j \in DOMAIN arrays : arrays'[j] = [t \in Slots |-> arrays'[j][t]]
             /\ ~IsDerived(arrays[index][s])
             /\ arrays'[index][s] \in Derive(config.ladder, bin)
             /\ \A j \in DOMAIN arrays, t \in Slots :
                  ~(j = index /\ t = s) => arrays'[j][t] = arrays[j][t]
<1> DEFINE s == Slot(index, bin)
<1>1. config.min \in Int /\ config.max \in Int
  BY AskedAssumption DEF GridTyped, Configs
<1>2. index \in Int /\ bin \in Int /\ Holds(index, bin)
  BY <1>1 DEF GridTyped, BinMut
<1>3. s \in Slots /\ BinIdAt(<<index, s>>) = bin
  BY <1>2, SlotIsBin
<1>4. config' = config /\ verdict' = verdict /\ words' = words
  BY DEF BinMut, band
<1>5. ~IsDerived(arrays[index][s])
  BY DEF BinMut
<1>6. PICK derived \in Derive(config.ladder, bin) : arrays' = [arrays EXCEPT ![index][s] = derived]
  BY DEF BinMut
<1> HIDE DEF s
<1>7. DOMAIN arrays' = DOMAIN arrays /\ arrays' = [j \in DOMAIN arrays' |-> arrays'[j]]
  BY <1>6
<1>8. \A j \in DOMAIN arrays : j # index => arrays'[j] = arrays[j]
  BY <1>6
<1>9. arrays'[index] = [arrays[index] EXCEPT ![s] = derived]
  BY <1>6
<1>10. \A j \in DOMAIN arrays : arrays[j] = [t \in Slots |-> arrays[j][t]]
  BY DEF GridTyped
<1>11. /\ arrays'[index][s] = derived
       /\ \A t \in Slots : t # s => arrays'[index][t] = arrays[index][t]
       /\ arrays'[index] = [t \in Slots |-> arrays'[index][t]]
  <2>1. DOMAIN arrays[index] = Slots
    BY <1>10
  <2>2. QED
    BY <1>3, <1>9, <2>1
<1>12. \A j \in DOMAIN arrays : arrays'[j] = [t \in Slots |-> arrays'[j][t]]
  BY <1>8, <1>10, <1>11
<1>13. \A j \in DOMAIN arrays, t \in Slots :
         ~(j = index /\ t = s) => arrays'[j][t] = arrays[j][t]
  BY <1>8, <1>11
<1>14. QED
  BY <1>3, <1>4, <1>5, <1>6, <1>7, <1>11, <1>12, <1>13 DEF s

(* A new array holds nothing yet.                                          *)
LEMMA MakesOne ==
  ASSUME GridTyped, NEW bin \in config.min .. config.max, MakeArray(BinArrayIndex(bin))
  PROVE  LET index == BinArrayIndex(bin)
         IN  /\ index \in Int /\ index \notin DOMAIN arrays
             /\ config' = config /\ verdict' = verdict /\ words' = words
             /\ DOMAIN arrays' = DOMAIN arrays \cup {index}
             /\ arrays' = [j \in DOMAIN arrays' |-> arrays'[j]]
             /\ arrays'[index] = [slot \in Slots |-> NotDerived]
             /\ \A j \in DOMAIN arrays : arrays'[j] = arrays[j]
<1>1. bin \in Int /\ MaxBinPerArray \in Nat \ {0}
  BY AskedAssumption, LadderAssumption DEF GridTyped, Configs
<1>2. BinArrayIndex(bin) \in Int
  BY <1>1 DEF BinArrayIndex
<1>3. QED
  BY <1>2 DEF MakeArray, band

(* What a step does to the bins touched: at most one more, for good.       *)
Same(at) == arrays'[at[1]][at[2]] = arrays[at[1]][at[2]]

LEMMA TouchedByMaking ==
  ASSUME GridTyped, NEW bin \in config.min .. config.max, MakeArray(BinArrayIndex(bin))
  PROVE  Touched' = Touched /\ \A at \in Touched : Same(at)
<1> DEFINE index == BinArrayIndex(bin)
<1>1. /\ index \notin DOMAIN arrays /\ DOMAIN arrays' = DOMAIN arrays \cup {index}
      /\ arrays'[index] = [slot \in Slots |-> NotDerived]
      /\ \A j \in DOMAIN arrays : arrays'[j] = arrays[j]
  BY MakesOne
<1> HIDE DEF index
<1>2. \A slot \in Slots : ~IsDerived(arrays'[index][slot])
  BY <1>1 DEF IsDerived, NotDerived
<1>3. \A j \in DOMAIN arrays : j \in DOMAIN arrays'
  BY <1>1
<1>4. ASSUME NEW at \in Touched PROVE at \in Touched' /\ Same(at)
  BY <1>1, <1>3 DEF Touched, Same
<1>5. ASSUME NEW at \in Touched' PROVE at \in Touched
  <2>1. /\ at \in (DOMAIN arrays') \X Slots /\ IsDerived(arrays'[at[1]][at[2]])
    BY DEF Touched, IsDerived
  <2>2. at[1] # index
    BY <1>2, <2>1
  <2>3. at[1] \in DOMAIN arrays /\ arrays'[at[1]] = arrays[at[1]]
    BY <1>1, <2>1, <2>2
  <2>4. QED
    BY <2>1, <2>3 DEF Touched
<1>6. QED
  BY <1>4, <1>5

LEMMA TouchedByTouching ==
  ASSUME GridTyped, NEW index \in DOMAIN arrays, NEW bin \in config.min .. config.max,
         BinMut(index, bin)
  PROVE  LET new == <<index, Slot(index, bin)>>
         IN  /\ new \notin Touched /\ Touched \subseteq Touched'
             /\ Touched' \subseteq Touched \cup {new}
             /\ \A at \in Touched : Same(at)
<1> DEFINE s == Slot(index, bin)
           new == <<index, s>>
<1>1. /\ s \in Slots /\ DOMAIN arrays' = DOMAIN arrays /\ ~IsDerived(arrays[index][s])
      /\ \A j \in DOMAIN arrays, t \in Slots :
           ~(j = index /\ t = s) => arrays'[j][t] = arrays[j][t]
  BY TouchesOne
<1> HIDE DEF s
<1>2. new \notin Touched
  BY <1>1 DEF Touched
<1>3. \A at \in (DOMAIN arrays) \X Slots : at # new => Same(at)
  BY <1>1 DEF Same
<1>4. ASSUME NEW at \in Touched PROVE at \in Touched' /\ Same(at)
  <2>1. at \in (DOMAIN arrays) \X Slots /\ IsDerived(arrays[at[1]][at[2]])
    BY DEF Touched
  <2>2. Same(at)
    BY <1>2, <1>3, <2>1
  <2>3. QED
    BY <1>1, <2>1, <2>2 DEF Touched, Same, IsDerived
<1>5. ASSUME NEW at \in Touched', at # new PROVE at \in Touched
  <2>1. at \in (DOMAIN arrays) \X Slots /\ IsDerived(arrays'[at[1]][at[2]])
    BY <1>1 DEF Touched, IsDerived
  <2>2. Same(at)
    BY <1>3, <1>5, <2>1
  <2>3. QED
    BY <2>1, <2>2 DEF Touched, Same, IsDerived
<1>6. QED
  BY <1>2, <1>4, <1>5 DEF s

(* Marking an array changes the answer for that array alone.               *)
LEMMA MarksOne ==
  ASSUME GridTyped, NEW index, NEW occupied \in BOOLEAN, SetBinArrayOccupied(index, occupied)
  PROVE  /\ index \in ArrayIndexes
         /\ config' = config /\ verdict' = verdict /\ arrays' = arrays
         /\ words' = [word \in BitmapWords |-> words'[word]]
         /\ OccupiedArrays' = IF occupied THEN OccupiedArrays \cup {index}
                              ELSE OccupiedArrays \ {index}
<1> DEFINE at == BitmapPosition(index)
<1>1. /\ index \in ArrayIndexes /\ config' = config /\ verdict' = verdict /\ arrays' = arrays
      /\ words' = [words EXCEPT ![at.word] = IF occupied THEN @ \cup {at.bit} ELSE @ \ {at.bit}]
  BY DEF SetBinArrayOccupied, IsIndex, ArrayIndexes, band
<1>2. words = [word \in BitmapWords |-> words[word]]
  BY DEF GridTyped
<1>3. at.word \in BitmapWords
  BY <1>1, PositionOfArray
<1> HIDE DEF at
<1>4. /\ words' = [word \in BitmapWords |-> words'[word]]
      /\ words'[at.word] = IF occupied THEN words[at.word] \cup {at.bit} ELSE words[at.word] \ {at.bit}
      /\ \A word \in BitmapWords : word # at.word => words'[word] = words[word]
  <2>1. DOMAIN words = BitmapWords
    BY <1>2
  <2>2. DOMAIN words' = BitmapWords /\ words' = [word \in DOMAIN words' |-> words'[word]]
    BY <1>1, <2>1
  <2>3. QED
    BY <1>1, <1>3, <2>1, <2>2
<1>5. ASSUME NEW j \in ArrayIndexes, j # index
      PROVE  LET p == BitmapPosition(j) IN p.bit \in words'[p.word] <=> p.bit \in words[p.word]
  <2> DEFINE p == BitmapPosition(j)
  <2>1. /\ p.word \in BitmapWords /\ j = MinBinArrayIndex + p.word * BitmapWordBits + p.bit
        /\ index = MinBinArrayIndex + at.word * BitmapWordBits + at.bit
    BY <1>1, PositionOfArray DEF at
  <2> HIDE DEF p
  <2>2. ~(p.word = at.word /\ p.bit = at.bit)
    BY <1>5, <2>1
  <2>3. p.bit \in words'[p.word] <=> p.bit \in words[p.word]
    BY <1>4, <2>1, <2>2
  <2>4. QED
    BY <2>3 DEF p
<1>6. at.bit \in words'[at.word] <=> occupied
  BY <1>4
<1>7. ProgramReads' = IF occupied THEN ProgramReads \cup {index} ELSE ProgramReads \ {index}
  <2>1. ASSUME NEW j \in ArrayIndexes, j # index PROVE j \in ProgramReads' <=> j \in ProgramReads
    BY <1>5, <2>1 DEF ProgramReads, ArrayIndexes, IsOccupied
  <2>2. index \in ProgramReads' <=> occupied
    BY <1>1, <1>6 DEF at, ProgramReads, ArrayIndexes, IsOccupied
  <2>3. ProgramReads \subseteq ArrayIndexes /\ ProgramReads' \subseteq ArrayIndexes
    BY DEF ProgramReads, ArrayIndexes
  <2>4. QED
    BY <2>1, <2>2, <2>3
<1>8. ReadersAgree /\ ReadersAgree'
  <2>1. ReadersAgree
    BY ReadersMeet
  <2>2. ReadersAgree'
    BY ReadersMeet, PTL
  <2>3. QED
    BY <2>1, <2>2
<1>9. QED
  BY <1>1, <1>4, <1>7, <1>8 DEF ReadersAgree

LEMMA GridStep == GridInv /\ [GridNext]_gridVars => GridInv'
<1> SUFFICES ASSUME GridInv, [GridNext]_gridVars PROVE GridInv'
  OBVIOUS
<1>0. GridTyped /\ InBand /\ CacheIsLadder
  BY DEF GridInv
<1>1. ASSUME config' = config, verdict' = verdict, arrays' = arrays,
             words' = [word \in BitmapWords |-> words'[word]]
      PROVE  GridInv'
  <2>1. Touched' = Touched
    BY <1>1 DEF Touched
  <2>2. GridTyped'
    BY <1>0, <1>1 DEF GridTyped
  <2>3. QED
    BY <1>0, <1>1, <2>1, <2>2 DEF GridInv, InBand, CacheIsLadder
<1>2. CASE UNCHANGED gridVars
  BY <1>0, <1>1, <1>2 DEF gridVars, band, GridTyped
<1>3. CASE (Judge \/ Climb) /\ UNCHANGED <<arrays, words>>
  <2>1. config' = config /\ arrays' = arrays /\ words' = words
    BY <1>3 DEF Judge, Accept, Reject, Climb
  <2>2. Touched' = Touched
    BY <2>1 DEF Touched
  <2>3. verdict' = "accepted" => Validate(config)
    BY <1>0, <1>3 DEF Judge, Accept, Reject, Climb, GridTyped
  <2>4. verdict = "accepted" => verdict' = "accepted"
    BY <1>3 DEF Judge, Accept, Reject, Climb
  <2>5. GridTyped'
    BY <1>0, <2>1, <2>3 DEF GridTyped
  <2>6. InBand'
    BY <1>0, <2>1, <2>2, <2>4 DEF InBand
  <2>7. CacheIsLadder'
    BY <1>0, <2>1, <2>2 DEF CacheIsLadder
  <2>8. QED
    BY <2>5, <2>6, <2>7 DEF GridInv
<1>4. ASSUME HasPool, NEW bin \in config.min .. config.max, MakeArray(BinArrayIndex(bin))
      PROVE  GridInv'
  <2> DEFINE index == BinArrayIndex(bin)
  <2>1. /\ index \in Int /\ config' = config /\ verdict' = verdict /\ words' = words
        /\ DOMAIN arrays' = DOMAIN arrays \cup {index}
        /\ arrays' = [j \in DOMAIN arrays' |-> arrays'[j]]
        /\ arrays'[index] = [slot \in Slots |-> NotDerived]
        /\ \A j \in DOMAIN arrays : arrays'[j] = arrays[j]
    BY <1>0, <1>4, MakesOne
  <2>2. Touched' = Touched /\ \A at \in Touched : Same(at)
    BY <1>0, <1>4, TouchedByMaking
  <2> HIDE DEF index
  <2>3. arrays'[index] = [slot \in Slots |-> arrays'[index][slot]]
    BY <2>1
  <2>4. GridTyped'
    BY <1>0, <2>1, <2>3 DEF GridTyped
  <2>5. InBand'
    BY <1>0, <2>1, <2>2 DEF InBand
  <2>6. CacheIsLadder'
    BY <1>0, <2>1, <2>2 DEF CacheIsLadder, Same
  <2>7. QED
    BY <2>4, <2>5, <2>6 DEF GridInv
<1>5. ASSUME HasPool, NEW bin \in config.min .. config.max,
             NEW index \in DOMAIN arrays, BinMut(index, bin)
      PROVE  GridInv'
  <2> DEFINE s == Slot(index, bin)
             new == <<index, s>>
  <2>1. /\ BinIdAt(new) = bin
        /\ config' = config /\ verdict' = verdict /\ words' = words
        /\ DOMAIN arrays' = DOMAIN arrays /\ arrays' = [j \in DOMAIN arrays' |-> arrays'[j]]
        /\ \A j \in DOMAIN arrays : arrays'[j] = [t \in Slots |-> arrays'[j][t]]
        /\ arrays'[index][s] \in Derive(config.ladder, bin)
    BY <1>0, <1>5, TouchesOne
  <2>2. Touched' \subseteq Touched \cup {new} /\ \A at \in Touched : Same(at)
    BY <1>0, <1>5, TouchedByTouching
  <2> HIDE DEF s
  <2>3. GridTyped'
    BY <1>0, <2>1 DEF GridTyped
  <2>4. InBand'
    BY <1>0, <1>5, <2>1, <2>2 DEF InBand, HasPool
  <2>5. CacheIsLadder'
    <3> SUFFICES ASSUME NEW at \in Touched'
                 PROVE  arrays'[at[1]][at[2]] \in Derive(config'.ladder, BinIdAt(at))
      BY DEF CacheIsLadder, BinIdAt
    <3>1. CASE at = new
      BY <2>1, <3>1
    <3>2. CASE at \in Touched
      <4>1. arrays[at[1]][at[2]] \in Derive(config.ladder, BinIdAt(at)) /\ Same(at)
        BY <1>0, <2>2, <3>2 DEF CacheIsLadder
      <4>2. QED
        BY <2>1, <4>1 DEF Same
    <3>3. QED
      BY <2>2, <3>1, <3>2
  <2>6. QED
    BY <2>3, <2>4, <2>5 DEF GridInv
<1>6. ASSUME NEW index, NEW occupied \in BOOLEAN, SetBinArrayOccupied(index, occupied)
      PROVE  GridInv'
  BY <1>0, <1>1, <1>6, MarksOne
<1>7. QED
  BY <1>2, <1>3, <1>4, <1>5, <1>6 DEF GridNext

LEMMA GridAlways == GridSpec => []GridInv
<1>1. QED
  BY GridStarts, GridStep, PTL DEF GridSpec

(* What a slot caches is what the ladder says of its bin, for every ladder *)
(* and band, both signs of ids, and every order in which bins are touched. *)
THEOREM CachesTheLadder == GridSpec => []CacheIsLadder
<1>1. GridInv => CacheIsLadder
  BY DEF GridInv
<1>2. QED
  BY <1>1, GridAlways, PTL

(* The program and a client read the same arrays from the bitmap, for      *)
(* every width of a word and number of words.                              *)
THEOREM BitmapReadAlike == GridSpec => []ReadersAgree
<1>1. QED
  BY ReadersMeet, PTL

(***************************************************************************)
(* The grid is a PriceBook whenever the ladder is what validate_range      *)
(* takes it for: no bin of an accepted band fails to derive, and from one  *)
(* bin to the next the price does not fall.                                *)
(***************************************************************************)
SoundLadder ==
  \A c \in Configs : Validate(c) =>
    \A bin \in c.min .. c.max :
      /\ Derive(c.ladder, bin) # {}
      /\ \A p \in Derive(c.ladder, bin) :
           /\ p.price \in Nat \ {0}
           /\ bin < c.max => \A q \in Derive(c.ladder, bin + 1) : p.price <= q.price

LEMMA PricesRise ==
  ASSUME SoundLadder, NEW c \in Configs, Validate(c),
         NEW low \in c.min .. c.max, NEW high \in c.min .. c.max, low < high,
         NEW p \in Derive(c.ladder, low), NEW q \in Derive(c.ladder, high)
  PROVE  p.price <= q.price
<1>1. c.min \in Int /\ c.max \in Int
  BY AskedAssumption DEF Configs
<1> DEFINE at(n) == Derive(c.ladder, low + 1 + n)
           S == {n \in Nat : low + 1 + n <= c.max => \A r \in at(n) : p.price <= r.price}
<1>2. 0 \in S
  <2>1. low \in Int /\ low + 1 + 0 = low + 1 /\ (low + 1 <= c.max => low < c.max)
    BY <1>1
  <2>2. low < c.max => \A r \in Derive(c.ladder, low + 1) : p.price <= r.price
    BY DEF SoundLadder
  <2>3. QED
    BY <2>1, <2>2
<1>3. ASSUME NEW n \in S PROVE n + 1 \in S
  <2> SUFFICES ASSUME low + 1 + (n + 1) <= c.max, NEW r \in at(n + 1)
               PROVE  p.price <= r.price
    OBVIOUS
  <2> DEFINE mid == low + 1 + n
  <2>1. mid \in c.min .. c.max /\ mid < c.max /\ mid + 1 = low + 1 + (n + 1) /\ low \in Int
    BY <1>1
  <2>2. PICK m \in Derive(c.ladder, mid) : TRUE
    BY <2>1 DEF SoundLadder
  <2>3. m.price \in Nat /\ m.price <= r.price
    <3>1. m.price \in Nat \ {0}
      BY <2>1, <2>2 DEF SoundLadder
    <3>2. \A s \in Derive(c.ladder, mid + 1) : m.price <= s.price
      BY <2>1, <2>2 DEF SoundLadder
    <3>3. r \in Derive(c.ladder, mid + 1)
      BY <2>1
    <3>4. QED
      BY <3>1, <3>2, <3>3
  <2>4. p.price <= m.price
    BY <2>1, <2>2
  <2>5. mid + 1 \in c.min .. c.max /\ r \in Derive(c.ladder, mid + 1)
    BY <1>1, <2>1
  <2>6. p.price \in Nat /\ r.price \in Nat
    BY <2>5 DEF SoundLadder
  <2>7. QED
    BY <2>3, <2>4, <2>6
<1>4. S \in SUBSET Nat
  OBVIOUS
<1> HIDE DEF S
<1>5. S = Nat
  BY <1>2, <1>3, <1>4, Induction
<1>6. high - low - 1 \in S /\ low + 1 + (high - low - 1) = high /\ high <= c.max
  BY <1>1, <1>5
<1>7. QED
  BY <1>6 DEF S

(* A bin's place in its array is where its id says, on both sides of zero. *)
LEMMA BinAndSlot ==
  ASSUME NEW index \in Int, NEW slot \in Slots
  PROVE  LET bin == BinIdAt(<<index, slot>>)
         IN  bin \in Int /\ BinArrayIndex(bin) = index /\ Slot(index, bin) = slot
<1> DEFINE w == MaxBinPerArray
           bin == BinIdAt(<<index, slot>>)
<1>1. w \in Nat \ {0} /\ slot \in 0 .. w - 1
  BY LadderAssumption DEF Slots
<1>2. bin = index * w + slot
  BY DEF BinIdAt, LowerBinId
<1>3. \A j \in Int, v \in Nat \ {0} : \A s \in 0 .. v - 1 :
        j * v + s \in Int /\ (j * v + s) \div v = j /\ (j * v + s) - j * v = s
  OBVIOUS
<1>4. bin \in Int /\ bin \div w = index /\ bin - index * w = slot
  BY <1>1, <1>2, <1>3
<1>5. QED
  BY <1>4 DEF BinArrayIndex, Slot, LowerBinId

BookPrices ==
  [bin \in {BinIdAt(at) : at \in Touched} |->
     LET index == BinArrayIndex(bin) IN arrays[index][Slot(index, bin)].price]

(* The price of a touched bin is in its slot, and the slot is its own.     *)
LEMMA BookIs ==
  ASSUME GridTyped
  PROVE  /\ \A at \in Touched : BookPrices[BinIdAt(at)] = arrays[at[1]][at[2]].price
         /\ \A at, to \in (DOMAIN arrays) \X Slots : BinIdAt(at) = BinIdAt(to) => at = to
<1>1. ASSUME NEW at \in (DOMAIN arrays) \X Slots
      PROVE  BinArrayIndex(BinIdAt(at)) = at[1] /\ Slot(at[1], BinIdAt(at)) = at[2]
  <2>1. at = <<at[1], at[2]>> /\ at[1] \in Int /\ at[2] \in Slots
    BY DEF GridTyped
  <2>2. QED
    BY <2>1, BinAndSlot
<1>2. Touched \subseteq (DOMAIN arrays) \X Slots
  BY DEF Touched
<1>3. \A at, to \in (DOMAIN arrays) \X Slots : BinIdAt(at) = BinIdAt(to) => at = to
  <2> SUFFICES ASSUME NEW at \in (DOMAIN arrays) \X Slots, NEW to \in (DOMAIN arrays) \X Slots,
                      BinIdAt(at) = BinIdAt(to)
               PROVE  at = to
    OBVIOUS
  <2>1. at[1] = to[1]
    BY <1>1
  <2>2. at[2] = to[2]
    BY <1>1, <2>1
  <2>3. QED
    BY <2>1, <2>2
<1>4. QED
  BY <1>1, <1>2, <1>3 DEF BookPrices

(***************************************************************************)
(* From here on, the steps of the grid as steps of a PriceBook.            *)
(***************************************************************************)
BookFacts ==
  /\ DOMAIN BookPrices = {BinIdAt(at) : at \in Touched}
  /\ BookPrices = [bin \in DOMAIN BookPrices |-> BookPrices[bin]]
  /\ \A at \in Touched : BookPrices[BinIdAt(at)] = arrays[at[1]][at[2]].price

LEMMA BookKnown == GridTyped => BookFacts
<1> SUFFICES ASSUME GridTyped PROVE BookFacts
  OBVIOUS
<1>1. \A at \in Touched : BookPrices[BinIdAt(at)] = arrays[at[1]][at[2]].price
  BY BookIs
<1>2. DOMAIN BookPrices = {BinIdAt(at) : at \in Touched}
      /\ BookPrices = [bin \in DOMAIN BookPrices |-> BookPrices[bin]]
  BY DEF BookPrices
<1>3. QED
  BY <1>1, <1>2 DEF BookFacts

LEMMA BookKnownNext == GridTyped' => BookFacts'
<1>1. QED
  BY BookKnown, PTL

(* While no bin is touched and none changes, the book does not.            *)
LEMMA BookUnread ==
  ASSUME GridTyped, GridTyped', Touched' = Touched, \A at \in Touched : Same(at)
  PROVE  BookPrices' = BookPrices
<1>1. BookFacts /\ BookFacts'
  BY BookKnown, BookKnownNext
<1>2. DOMAIN BookPrices' = {BinIdAt(at) : at \in Touched'}
      /\ BookPrices' = [bin \in DOMAIN BookPrices' |-> BookPrices'[bin]]
      /\ \A at \in Touched' : BookPrices'[BinIdAt(at)] = arrays'[at[1]][at[2]].price
  BY <1>1 DEF BookFacts, BinIdAt
<1>3. DOMAIN BookPrices' = DOMAIN BookPrices
  BY <1>1, <1>2 DEF BookFacts
<1>4. ASSUME NEW bin \in DOMAIN BookPrices PROVE BookPrices'[bin] = BookPrices[bin]
  <2>1. PICK at \in Touched : bin = BinIdAt(at)
    BY <1>1 DEF BookFacts
  <2>2. BookPrices[bin] = arrays[at[1]][at[2]].price
    BY <1>1, <2>1 DEF BookFacts
  <2>3. BookPrices'[bin] = arrays'[at[1]][at[2]].price
    BY <1>2, <2>1
  <2>4. QED
    BY <2>2, <2>3 DEF Same
<1>5. QED
  BY <1>1, <1>2, <1>3, <1>4 DEF BookFacts

(* The prices known are in the order of their bins.                        *)
BookOrdered ==
  \A low, high \in DOMAIN BookPrices : low < high => BookPrices[low] <= BookPrices[high]

LEMMA BookInOrder == SoundLadder /\ GridInv => BookOrdered
<1> SUFFICES ASSUME SoundLadder, GridInv,
                    NEW low \in DOMAIN BookPrices, NEW high \in DOMAIN BookPrices, low < high
             PROVE  BookPrices[low] <= BookPrices[high]
  BY DEF BookOrdered
<1>1. GridTyped /\ InBand /\ CacheIsLadder
  BY DEF GridInv
<1>2. BookFacts
  BY <1>1, BookKnown
<1>3. PICK at \in Touched : low = BinIdAt(at)
  BY <1>2 DEF BookFacts
<1>4. PICK to \in Touched : high = BinIdAt(to)
  BY <1>2 DEF BookFacts
<1>5. BookPrices[low] = arrays[at[1]][at[2]].price /\ BookPrices[high] = arrays[to[1]][to[2]].price
  BY <1>2, <1>3, <1>4 DEF BookFacts
<1>6. arrays[at[1]][at[2]] \in Derive(config.ladder, low)
      /\ arrays[to[1]][to[2]] \in Derive(config.ladder, high)
  BY <1>1, <1>3, <1>4 DEF CacheIsLadder
<1>7. low \in config.min .. config.max /\ high \in config.min .. config.max
  BY <1>1, <1>3, <1>4 DEF InBand
<1>8. config \in Configs /\ Validate(config)
  BY <1>1, <1>3 DEF InBand, GridTyped
<1>9. QED
  BY <1>5, <1>6, <1>7, <1>8, PricesRise

LEMMA BookInOrderNext == SoundLadder /\ GridInv' => BookOrdered'
<1>1. SoundLadder' <=> SoundLadder
  BY DEF SoundLadder
<1>2. QED
  BY <1>1, BookInOrder, PTL

LEMMA BookInit == GridInit => Book!Init
<1> SUFFICES ASSUME GridInit PROVE Book!Init
  OBVIOUS
<1>1. Touched = {}
  BY DEF GridInit, Touched
<1>2. BookPrices = [bin \in {} |-> 0]
  BY <1>1 DEF BookPrices
<1>3. OccupiedArrays = {}
  <2>1. \A word \in BitmapWords : words[word] = {}
    BY DEF GridInit
  <2>2. \A set \in BitmapWords \X (0 .. BitmapWordBits - 1) : set[2] \notin words[set[1]]
    BY <2>1
  <2>3. QED
    BY <2>2 DEF OccupiedArrays
<1>4. QED
  BY <1>2, <1>3 DEF Book!Init, BookPrices

(* The first look at a bin is the book's Learn.                            *)
LEMMA TouchIsLearn ==
  ASSUME SoundLadder, GridInv, GridInv', HasPool, NEW bin \in config.min .. config.max,
         NEW index \in DOMAIN arrays, BinMut(index, bin)
  PROVE  bin \in HardMinBinId .. HardMaxBinId /\ Book!Learn(bin)
<1> DEFINE s == Slot(index, bin)
           new == <<index, s>>
<1>0. GridTyped /\ GridTyped'
  BY DEF GridInv
<1>1. /\ s \in Slots /\ BinIdAt(new) = bin
      /\ words' = words /\ DOMAIN arrays' = DOMAIN arrays
      /\ arrays'[index][s] \in Derive(config.ladder, bin)
  BY <1>0, TouchesOne
<1>2. /\ new \notin Touched /\ Touched \subseteq Touched'
      /\ Touched' \subseteq Touched \cup {new}
      /\ \A at \in Touched : Same(at)
  BY <1>0, TouchedByTouching
<1> HIDE DEF s
<1>3. config \in Configs /\ Validate(config)
  BY <1>0 DEF HasPool, GridTyped
<1>4. bin \in HardMinBinId .. HardMaxBinId
  <2>1. /\ config.min >= HardMinBinId /\ config.max <= HardMaxBinId
        /\ config.min \in Int /\ config.max \in Int
    BY <1>3, AskedAssumption DEF Validate, Configs
  <2>2. HardMinBinId \in Int /\ HardMaxBinId \in Int
    BY LadderAssumption DEF HardMinBinId, HardMaxBinId, MinBinArrayIndex, MaxBinArrayIndex
  <2>3. QED
    BY <2>1, <2>2
<1>5. arrays'[index][s].price \in Nat \ {0}
  BY <1>1, <1>3 DEF SoundLadder
<1>6. new \in Touched'
  <2>1. new \in (DOMAIN arrays') \X Slots
    BY <1>1
  <2>2. IsDerived(arrays'[new[1]][new[2]])
    BY <1>5 DEF IsDerived
  <2>3. QED
    BY <2>1, <2>2 DEF Touched, IsDerived
<1>7. Touched' = Touched \cup {new}
  BY <1>2, <1>6
<1>8. BookFacts /\ BookFacts'
  BY <1>0, BookKnown, BookKnownNext
<1>9. /\ DOMAIN BookPrices' = {BinIdAt(at) : at \in Touched'}
      /\ \A at \in Touched' : BookPrices'[BinIdAt(at)] = arrays'[at[1]][at[2]].price
  BY <1>8 DEF BookFacts, BinIdAt
<1>10. /\ DOMAIN BookPrices = {BinIdAt(at) : at \in Touched}
       /\ \A at \in Touched : BookPrices[BinIdAt(at)] = arrays[at[1]][at[2]].price
  BY <1>8 DEF BookFacts
<1>11. bin \notin DOMAIN BookPrices
  <2> SUFFICES ASSUME bin \in DOMAIN BookPrices PROVE FALSE
    OBVIOUS
  <2>1. PICK at \in Touched : bin = BinIdAt(at)
    BY <1>10
  <2>2. at \in (DOMAIN arrays) \X Slots /\ new \in (DOMAIN arrays) \X Slots
    BY <1>1 DEF Touched
  <2>3. at = new
    BY <1>0, <1>1, <2>1, <2>2, BookIs
  <2>4. QED
    BY <1>2, <2>3
<1>12. DOMAIN BookPrices' = DOMAIN BookPrices \cup {bin}
  BY <1>1, <1>7, <1>9, <1>10
<1>13. \A known \in DOMAIN BookPrices : BookPrices'[known] = BookPrices[known]
  <2> SUFFICES ASSUME NEW known \in DOMAIN BookPrices
               PROVE  BookPrices'[known] = BookPrices[known]
    OBVIOUS
  <2>1. PICK at \in Touched : known = BinIdAt(at)
    BY <1>10
  <2>2. BookPrices[known] = arrays[at[1]][at[2]].price
    BY <1>10, <2>1
  <2>3. BookPrices'[known] = arrays'[at[1]][at[2]].price
    BY <1>7, <1>9, <2>1
  <2>4. QED
    BY <1>2, <2>1, <2>2, <2>3 DEF Same
<1>14. BookPrices'[bin] \in Nat \ {0}
  <2>1. BookPrices'[BinIdAt(new)] = arrays'[new[1]][new[2]].price
    BY <1>6, <1>9
  <2>2. QED
    BY <1>1, <1>5, <2>1
<1>15. BookOrdered'
  BY BookInOrderNext
<1>16. OccupiedArrays' = OccupiedArrays
  BY <1>1 DEF OccupiedArrays
<1>17. Book!InOrder(BookPrices')
  BY <1>15 DEF BookOrdered, Book!InOrder
<1>18. QED
  BY <1>4, <1>11, <1>12, <1>13, <1>14, <1>16, <1>17 DEF Book!Learn, BookPrices

LEMMA BookStep == SoundLadder /\ GridInv /\ GridInv' /\ [GridNext]_gridVars
                    => [Book!Next]_(Book!vars)
<1> SUFFICES ASSUME SoundLadder, GridInv, GridInv', [GridNext]_gridVars
             PROVE  Book!Next \/ UNCHANGED Book!vars
  OBVIOUS
<1>0. GridTyped /\ GridTyped'
  BY DEF GridInv
<1>1. ASSUME arrays' = arrays, words' = words PROVE UNCHANGED Book!vars
  <2>1. Touched' = Touched /\ \A at \in Touched : Same(at)
    BY <1>1 DEF Touched, Same
  <2>2. BookPrices' = BookPrices
    BY <1>0, <2>1, BookUnread
  <2>3. OccupiedArrays' = OccupiedArrays
    BY <1>1 DEF OccupiedArrays
  <2>4. QED
    BY <2>2, <2>3 DEF Book!vars, BookPrices
<1>2. CASE UNCHANGED gridVars
  BY <1>1, <1>2 DEF gridVars
<1>3. CASE (Judge \/ Climb) /\ UNCHANGED <<arrays, words>>
  BY <1>1, <1>3
<1>4. ASSUME NEW bin \in config.min .. config.max, MakeArray(BinArrayIndex(bin))
      PROVE  UNCHANGED Book!vars
  <2>1. Touched' = Touched /\ \A at \in Touched : Same(at)
    BY <1>0, <1>4, TouchedByMaking
  <2>2. BookPrices' = BookPrices
    BY <1>0, <2>1, BookUnread
  <2>3. words' = words
    BY <1>0, <1>4, MakesOne
  <2>4. OccupiedArrays' = OccupiedArrays
    BY <2>3 DEF OccupiedArrays
  <2>5. QED
    BY <2>2, <2>4 DEF Book!vars, BookPrices
<1>5. ASSUME HasPool, NEW bin \in config.min .. config.max,
             NEW index \in DOMAIN arrays, BinMut(index, bin)
      PROVE  Book!Next
  <2>1. bin \in HardMinBinId .. HardMaxBinId /\ Book!Learn(bin)
    BY <1>5, TouchIsLearn
  <2>2. QED
    BY <2>1 DEF Book!Next
<1>6. ASSUME NEW index, NEW occupied \in BOOLEAN, SetBinArrayOccupied(index, occupied)
      PROVE  Book!Next
  <2>1. /\ index \in ArrayIndexes /\ arrays' = arrays
        /\ OccupiedArrays' = IF occupied THEN OccupiedArrays \cup {index}
                             ELSE OccupiedArrays \ {index}
    BY <1>0, <1>6, MarksOne
  <2>2. Touched' = Touched /\ \A at \in Touched : Same(at)
    BY <2>1 DEF Touched, Same
  <2>3. BookPrices' = BookPrices
    BY <1>0, <2>2, BookUnread
  <2>4. Book!Mark(index) \/ Book!Unmark(index)
    BY <2>1, <2>3 DEF Book!Mark, Book!Unmark, BookPrices
  <2>5. index \in MinBinArrayIndex .. MaxBinArrayIndex
    BY <2>1 DEF ArrayIndexes
  <2>6. QED
    BY <2>4, <2>5 DEF Book!Next
<1>7. QED
  BY <1>2, <1>3, <1>4, <1>5, <1>6 DEF GridNext

(* The arrays and the bitmap keep the book of prices and marks, for every  *)
(* ladder that is sound on the bands it is accepted for, every size of     *)
(* array and bitmap, and every order of touching, making and marking.      *)
THEOREM GridImplementsBook == ASSUME SoundLadder PROVE GridSpec => IsABook
<1>1. GridInv /\ GridInv' /\ [GridNext]_gridVars => [Book!Next]_(Book!vars)
  BY BookStep
<1>2. QED
  BY <1>1, BookInit, GridAlways, PTL DEF GridSpec, IsABook, Book!Spec
=============================================================================
