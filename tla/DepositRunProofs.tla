-------------------------- MODULE DepositRunProofs --------------------------
(***************************************************************************)
(* A deposit's runner never sends a step the program refuses as the pool   *)
(* stands, deposits nothing twice, has placed the plan when it is done and *)
(* left only dust, for every ladder, request, packet width and band held   *)
(* beforehand.                                                             *)
(*                                                                         *)
(* Finite sets and sequences come first, then what planDeposit returns,    *)
(* then the runner, and last what the roundings of a plan leave over.      *)
(***************************************************************************)
EXTENDS DepositRun, FiniteSetTheorems, WellFoundedInduction, TLAPS

(***************************************************************************)
(* Naturals, their finite sets, and sequences put end to end.              *)
(***************************************************************************)
(* Induction over the naturals, stated of a set.                           *)
LEMMA Induction ==
  ASSUME NEW S \in SUBSET Nat, 0 \in S, \A n \in S : n + 1 \in S
  PROVE  S = Nat
<1> SUFFICES ASSUME Nat \ S # {} PROVE FALSE
  OBVIOUS
<1>1. PICK m \in Nat \ S : \A y \in Nat \ S : ~(<<y, m>> \in OpToRel(<, Nat))
  BY NatLessThanWellFounded, WFMin, Nat \ S \subseteq Nat
<1>2. \A y \in Nat \ S : ~(y < m)
  BY <1>1, Zenon DEF OpToRel
<1>3. m # 0 /\ m - 1 \in Nat
  OBVIOUS
<1>4. m - 1 \in S
  BY <1>2, <1>3
<1>5. QED
  BY <1>3, <1>4

(* A set of naturals with a member has a least one: Min finds it.          *)
LEMMA MinIsLeast ==
  ASSUME NEW S \in SUBSET Nat, S # {}
  PROVE  Min(S) \in S /\ \A y \in S : Min(S) <= y
<1>1. PICK m \in S : \A y \in S : ~(<<y, m>> \in OpToRel(<, Nat))
  BY NatLessThanWellFounded, WFMin
<1>2. \A y \in S : ~(y < m)
  BY <1>1, Zenon DEF OpToRel
<1>3. \A y \in S : m <= y
  BY <1>2
<1>4. QED
  BY <1>3, Zenon DEF Min

(* And within bounds a greatest one: Max finds it.                         *)
LEMMA MaxIsGreatest ==
  ASSUME NEW n \in Nat, NEW S \in SUBSET (0 .. n), S # {}
  PROVE  Max(S) \in S /\ \A y \in S : Max(S) >= y
<1> DEFINE T == {n - y : y \in S}
<1>1. T \in SUBSET Nat /\ T # {} /\ \A y \in S : y \in Nat
  <2>1. \A y \in S : y \in 0 .. n
    OBVIOUS
  <2>2. \A y \in S : y \in Nat /\ n - y \in Nat
    BY <2>1
  <2>3. QED
    BY <2>2
<1>2. Min(T) \in T /\ \A y \in T : Min(T) <= y
  BY <1>1, MinIsLeast
<1>3. n - Min(T) \in S /\ \A y \in S : n - Min(T) >= y
  <2>1. \A y \in S : Min(T) <= n - y
    BY <1>2
  <2>2. PICK z \in S : Min(T) = n - z
    BY <1>2
  <2> HIDE DEF T
  <2>3. Min(T) \in Nat
    BY <1>1, <1>2
  <2>4. n - Min(T) = z
    BY <1>1, <2>2
  <2>5. QED
    BY <1>1, <2>1, <2>2, <2>3, <2>4
<1>4. QED
  BY <1>3, Zenon DEF Max

LEMMA Retyped ==
  ASSUME NEW T, NEW U, NEW a \in Seq(U), \A i \in 1 .. Len(a) : a[i] \in T
  PROVE  a \in Seq(T)
<1>1. Len(a) \in Nat /\ a \in [1 .. Len(a) -> U]
  OBVIOUS
<1>2. a = [i \in 1 .. Len(a) |-> a[i]]
  BY <1>1
<1>3. a \in [1 .. Len(a) -> T]
  BY <1>1, <1>2
<1>4. QED
  BY <1>1, <1>3

LEMMA EndToEnd ==
  ASSUME NEW T, NEW a \in Seq(T), NEW b \in Seq(T)
  PROVE  /\ a \o b \in Seq(T) /\ Len(a \o b) = Len(a) + Len(b)
         /\ \A j \in 1 .. Len(a) : (a \o b)[j] = a[j]
         /\ \A m \in 1 .. Len(b) : (a \o b)[Len(a) + m] = b[m]
  OBVIOUS

LEMMA Prepended ==
  ASSUME NEW T, NEW x \in T, NEW b \in Seq(T)
  PROVE  /\ <<x>> \o b \in Seq(T) /\ Len(<<x>> \o b) = 1 + Len(b)
         /\ (<<x>> \o b)[1] = x
         /\ \A m \in 1 .. Len(b) : (<<x>> \o b)[1 + m] = b[m]
<1>1. <<x>> \in Seq(T) /\ Len(<<x>>) = 1 /\ <<x>>[1] = x /\ 1 \in 1 .. 1
  OBVIOUS
<1> DEFINE a == <<x>>
<1> HIDE DEF a
<1>2. a \in Seq(T) /\ Len(a) = 1 /\ a[1] = x /\ 1 \in 1 .. 1
  BY <1>1, Zenon DEF a
<1>3. /\ a \o b \in Seq(T) /\ Len(a \o b) = Len(a) + Len(b)
      /\ \A j \in 1 .. Len(a) : (a \o b)[j] = a[j]
      /\ \A m \in 1 .. Len(b) : (a \o b)[Len(a) + m] = b[m]
  BY <1>2, EndToEnd
<1>4. /\ a \o b \in Seq(T) /\ Len(a \o b) = 1 + Len(b) /\ (a \o b)[1] = x
      /\ \A m \in 1 .. Len(b) : (a \o b)[1 + m] = b[m]
  BY <1>2, <1>3, Zenon
<1>5. QED
  BY <1>4, Zenon DEF a

(* The k-th part of ss begins after o[k - 1] entries.                      *)
Offsets(o, ss, N) ==
  /\ o \in [0 .. N -> Nat] /\ o[0] = 0
  /\ \A k \in 1 .. N : o[k] = o[k - 1] + Len(ss[k])

FlatFrom(flat, ss, o, N) ==
  /\ Offsets(o, ss, N)
  /\ Len(flat) = o[N]
  /\ \A k \in 1 .. N : \A m \in 1 .. Len(ss[k]) : flat[o[k - 1] + m] = ss[k][m]
  /\ \A j \in 1 .. Len(flat) : \E k \in 1 .. N : \E m \in 1 .. Len(ss[k]) : j = o[k - 1] + m

LEMMA OffsetsRise ==
  ASSUME NEW T, NEW ss \in Seq(Seq(T)), NEW N \in 0 .. Len(ss), NEW o, Offsets(o, ss, N),
         NEW a \in 0 .. N, NEW b \in a .. N
  PROVE  o[a] \in Nat /\ o[b] \in Nat /\ o[a] <= o[b]
<1>1. \A k \in 0 .. N : o[k] \in Nat
  BY DEF Offsets
<1> DEFINE S == {j \in Nat : a + j <= N => o[a] <= o[a + j]}
<1>2. 0 \in S
  BY <1>1
<1>3. ASSUME NEW j \in S PROVE j + 1 \in S
  <2> SUFFICES ASSUME a + (j + 1) <= N PROVE o[a] <= o[a + (j + 1)]
    OBVIOUS
  <2>1. /\ a + j \in 0 .. N /\ a + (j + 1) \in 1 .. N
        /\ (a + (j + 1)) - 1 = a + j /\ a + j <= N
    OBVIOUS
  <2>2. o[a] <= o[a + j]
    BY <2>1
  <2>3. o[a + (j + 1)] = o[a + j] + Len(ss[a + (j + 1)])
    BY <2>1 DEF Offsets
  <2>4. Len(ss[a + (j + 1)]) \in Nat
    BY <2>1
  <2>5. \A x, y, l \in Nat : x <= y => x <= y + l
    OBVIOUS
  <2>6. o[a] <= o[a + j] + Len(ss[a + (j + 1)])
    BY <1>1, <2>1, <2>2, <2>4, <2>5, Zenon
  <2>7. QED
    BY <2>3, <2>6, Zenon
<1>4. S \in SUBSET Nat
  OBVIOUS
<1> HIDE DEF S
<1>5. S = Nat
  BY <1>2, <1>3, <1>4, Induction
<1>6. b - a \in S /\ a + (b - a) = b
  BY <1>5
<1>7. o[a] <= o[b]
  BY <1>6 DEF S
<1>8. QED
  BY <1>1, <1>7

(* An entry of a later part comes after every entry of an earlier one.     *)
LEMMA LaterParts ==
  ASSUME NEW T, NEW ss \in Seq(Seq(T)), NEW N \in 0 .. Len(ss), NEW o, Offsets(o, ss, N),
         NEW k \in 1 .. N, NEW m \in 1 .. Len(ss[k]), NEW l \in k + 1 .. N, NEW n \in Nat \ {0}
  PROVE  o[k - 1] + m < o[l - 1] + n
<1>1. k \in 0 .. N /\ l - 1 \in k .. N /\ k - 1 \in 0 .. N
  OBVIOUS
<1>2. o[k] \in Nat /\ o[l - 1] \in Nat /\ o[k] <= o[l - 1]
  BY <1>1, OffsetsRise
<1>3. o[k] = o[k - 1] + Len(ss[k]) /\ o[k - 1] \in Nat
  BY <1>1 DEF Offsets
<1>4. Len(ss[k]) \in Nat
  OBVIOUS
<1>5. \A p, q, r, x \in Nat : \A y \in 1 .. x : \A z \in Nat \ {0} :
        (p = q + x /\ p <= r) => q + y < r + z
  OBVIOUS
<1>6. QED
  BY <1>2, <1>3, <1>4, <1>5

LEMMA FlatGrows ==
  ASSUME NEW T, NEW ss \in Seq(Seq(T)), NEW N \in Nat, N + 1 <= Len(ss),
         NEW flat \in Seq(T), NEW o, FlatFrom(flat, ss, o, N)
  PROVE  \E p : FlatFrom(flat \o ss[N + 1], ss, p, N + 1)
<1>1. ss[N + 1] \in Seq(T) /\ Len(ss[N + 1]) \in Nat
  OBVIOUS
<1> DEFINE p == [k \in 0 .. N + 1 |-> IF k = N + 1 THEN o[N] + Len(ss[N + 1]) ELSE o[k]]
           both == flat \o ss[N + 1]
<1>2. o[0] = 0 /\ \A k \in 0 .. N : o[k] \in Nat
  BY DEF FlatFrom, Offsets
<1>3. p \in [0 .. N + 1 -> Nat] /\ p[0] = 0
  BY <1>1, <1>2
<1>4. /\ \A k \in 0 .. N : p[k] = o[k]
      /\ p[N + 1] = p[N] + Len(ss[N + 1])
  OBVIOUS
<1>5. \A k \in 1 .. N + 1 : p[k] = p[k - 1] + Len(ss[k])
  <2> HIDE DEF p
  <2> SUFFICES ASSUME NEW k \in 1 .. N + 1 PROVE p[k] = p[k - 1] + Len(ss[k])
    OBVIOUS
  <2>1. CASE k = N + 1
    BY <1>4, <2>1
  <2>2. CASE k # N + 1
    <3>1. k \in 1 .. N /\ k - 1 \in 0 .. N /\ k \in 0 .. N
      BY <2>2
    <3>2. QED
      BY <1>4, <3>1 DEF FlatFrom, Offsets
  <2>3. QED
    BY <2>1, <2>2
<1>6. Offsets(p, ss, N + 1)
  <2> HIDE DEF p
  <2>1. QED
    BY <1>3, <1>5 DEF Offsets
<1>7. /\ Len(flat) = p[N] /\ Len(both) = p[N + 1]
      /\ \A j \in 1 .. Len(flat) : both[j] = flat[j]
      /\ \A m \in 1 .. Len(ss[N + 1]) : both[Len(flat) + m] = ss[N + 1][m]
  <2>1. Len(flat) = o[N]
    BY DEF FlatFrom
  <2> HIDE DEF p
  <2>2. /\ Len(both) = Len(flat) + Len(ss[N + 1])
        /\ \A j \in 1 .. Len(flat) : both[j] = flat[j]
        /\ \A m \in 1 .. Len(ss[N + 1]) : both[Len(flat) + m] = ss[N + 1][m]
    BY <1>1, EndToEnd
  <2>3. p[N] = o[N] /\ p[N + 1] = p[N] + Len(ss[N + 1])
    BY <1>4
  <2> HIDE DEF both
  <2>4. Len(both) = p[N + 1] /\ Len(flat) = p[N]
    BY <2>1, <2>2, <2>3
  <2>5. QED
    BY <2>2, <2>4
<1> HIDE DEF p, both
<1>8. ASSUME NEW k \in 1 .. N + 1, NEW m \in 1 .. Len(ss[k])
      PROVE  both[p[k - 1] + m] = ss[k][m]
  <2>1. CASE k = N + 1
    <3>1. p[k - 1] = Len(flat)
      BY <1>7, <2>1
    <3>2. QED
      BY <1>7, <2>1, <3>1
  <2>2. CASE k # N + 1
    <3>1. k \in 1 .. N /\ k - 1 \in 0 .. N /\ p[k - 1] = o[k - 1]
      BY <1>4, <2>2
    <3>2. flat[o[k - 1] + m] = ss[k][m]
      BY <3>1 DEF FlatFrom
    <3>3. p[k - 1] + m < p[(N + 1) - 1] + 1
      <4>1. /\ k \in 1 .. N + 1 /\ N + 1 \in k + 1 .. N + 1 /\ N + 1 \in 0 .. Len(ss)
            /\ 1 \in Nat \ {0}
        BY <3>1
      <4> HIDE DEF Offsets
      <4>2. QED
        BY ONLY <1>6, <4>1, LaterParts, ss \in Seq(Seq(T)), m \in 1 .. Len(ss[k])
    <3>4. p[k - 1] \in Nat /\ p[N] \in Nat /\ (N + 1) - 1 = N /\ m \in Nat /\ 1 <= m
      <4>1. p[k - 1] = o[k - 1] /\ p[N] = o[N] /\ N \in 0 .. N /\ k - 1 \in 0 .. N
        BY <1>4, <3>1
      <4>2. o[k - 1] \in Nat /\ o[N] \in Nat
        BY <1>2, <4>1
      <4>3. m \in Nat /\ 1 <= m
        BY <3>1
      <4>4. QED
        BY <4>1, <4>2, <4>3
    <3>5. p[k - 1] + m \in 1 .. Len(flat)
      <4>1. Len(flat) = p[N]
        BY <1>7
      <4>2. QED
        BY ONLY <3>3, <3>4, <4>1
    <3>6. both[p[k - 1] + m] = flat[p[k - 1] + m]
      BY <1>7, <3>5, Zenon
    <3>7. QED
      BY ONLY <3>1, <3>2, <3>6
  <2>3. QED
    BY <2>1, <2>2
<1>9. ASSUME NEW j \in 1 .. Len(both)
      PROVE  \E k \in 1 .. N + 1 : \E m \in 1 .. Len(ss[k]) : j = p[k - 1] + m
  <2>1. CASE j <= Len(flat)
    <3>1. j \in 1 .. Len(flat)
      BY <2>1
    <3>2. PICK k \in 1 .. N : \E m \in 1 .. Len(ss[k]) : j = o[k - 1] + m
      BY <3>1 DEF FlatFrom
    <3>3. k \in 1 .. N + 1 /\ p[k - 1] = o[k - 1]
      BY <1>4
    <3>4. QED
      BY <3>2, <3>3
  <2>2. CASE ~(j <= Len(flat))
    <3>1. p[N] \in Nat /\ Len(both) = p[N] + Len(ss[N + 1]) /\ Len(flat) = p[N]
      BY <1>2, <1>4, <1>7
    <3>2. j - p[N] \in 1 .. Len(ss[N + 1])
      BY <1>1, <2>2, <3>1
    <3>3. N + 1 \in 1 .. N + 1 /\ (N + 1) - 1 = N /\ j = p[N] + (j - p[N])
      BY <3>1
    <3>4. QED
      BY <3>2, <3>3
  <2>3. QED
    BY <2>1, <2>2
<1>10. FlatFrom(both, ss, p, N + 1)
  BY <1>6, <1>7, <1>8, <1>9 DEF FlatFrom
<1>11. QED
  BY <1>10 DEF both

(* f holds the parts up to the i-th put end to end.                        *)
Ends(f, i, ss) == IF i = 1 THEN ss[i] ELSE f[i - 1] \o ss[i]
Flattens(f, ss, N) == f = [i \in 1 .. N |-> Ends(f, i, ss)]

LEMMA FlattensExist ==
  ASSUME NEW ss
  PROVE  \A N \in Nat : \E f : Flattens(f, ss, N)
<1> DEFINE S == {N \in Nat : \E f : Flattens(f, ss, N)}
<1>1. 0 \in S
  <2>1. Flattens([i \in 1 .. 0 |-> 0], ss, 0)
    BY DEF Flattens
  <2>2. QED
    BY <2>1
<1>2. ASSUME NEW N \in S PROVE N + 1 \in S
  <2>1. PICK f : Flattens(f, ss, N)
    OBVIOUS
  <2> DEFINE g == [i \in 1 .. N + 1 |-> IF i = N + 1 THEN Ends(f, i, ss) ELSE f[i]]
  <2>2. ASSUME NEW i \in 1 .. N + 1 PROVE g[i] = Ends(g, i, ss)
    <3>1. g[i] = Ends(f, i, ss)
      BY <2>1 DEF Flattens
    <3>2. i # 1 => g[i - 1] = f[i - 1]
      OBVIOUS
    <3> HIDE DEF g
    <3>3. QED
      BY <3>1, <3>2 DEF Ends
  <2>3. g = [i \in 1 .. N + 1 |-> g[i]]
    OBVIOUS
  <2> HIDE DEF g
  <2>4. Flattens(g, ss, N + 1)
    BY <2>2, <2>3, Zenon DEF Flattens
  <2>5. QED
    BY <2>4
<1>3. S \in SUBSET Nat
  OBVIOUS
<1> HIDE DEF S
<1>4. S = Nat
  BY <1>1, <1>2, <1>3, Induction
<1>5. QED
  BY <1>4 DEF S

LEMMA FlattenIs ==
  ASSUME NEW T, NEW ss \in Seq(Seq(T))
  PROVE  /\ FlattenSeq(ss) \in Seq(T)
         /\ \E o : FlatFrom(FlattenSeq(ss), ss, o, Len(ss))
<1>1. FlatFrom(<<>>, ss, [k \in 0 .. 0 |-> 0], 0)
  BY DEF FlatFrom, Offsets
<1>2. CASE Len(ss) = 0
  <2>1. FlattenSeq(ss) = ss /\ ss = <<>>
    BY <1>2 DEF FlattenSeq
  <2>2. QED
    BY <1>1, <1>2, <2>1
<1>3. CASE Len(ss) # 0
  <2> DEFINE f == CHOOSE f : f = [i \in 1 .. Len(ss) |-> IF i = 1 THEN ss[i]
                                                       ELSE f[i - 1] \o ss[i]]
  <2>1. PICK g : Flattens(g, ss, Len(ss))
    BY FlattensExist, Len(ss) \in Nat
  <2>2. f = [i \in 1 .. Len(ss) |-> IF i = 1 THEN ss[i] ELSE f[i - 1] \o ss[i]]
    BY <2>1, Zenon DEF Flattens, Ends
  <2>3. FlattenSeq(ss) = f[Len(ss)]
    BY <1>3, Zenon DEF FlattenSeq
  <2> HIDE DEF f
  <2>4. \A i \in 1 .. Len(ss) : f[i] = IF i = 1 THEN ss[i] ELSE f[i - 1] \o ss[i]
    BY <2>2, Zenon
  <2> DEFINE S == {n \in Nat : n + 1 <= Len(ss) =>
                                 /\ f[n + 1] \in Seq(T)
                                 /\ \E o : FlatFrom(f[n + 1], ss, o, n + 1)}
  <2>5. 0 \in S
    <3>1. f[1] = ss[1] /\ ss[1] \in Seq(T) /\ <<>> \o ss[1] = ss[1] /\ <<>> \in Seq(T)
      BY <1>3, <2>4
    <3>2. \E o : FlatFrom(<<>> \o ss[0 + 1], ss, o, 0 + 1)
      <4>1. 0 \in Nat /\ 0 + 1 <= Len(ss) /\ 0 + 1 = 1
        BY <1>3
      <4>2. QED
        BY ONLY <1>1, <3>1, <4>1, FlatGrows, ss \in Seq(Seq(T))
    <3>3. QED
      BY <3>1, <3>2
  <2>6. ASSUME NEW n \in S PROVE n + 1 \in S
    <3> SUFFICES ASSUME (n + 1) + 1 <= Len(ss)
                 PROVE  /\ f[(n + 1) + 1] \in Seq(T)
                        /\ \E o : FlatFrom(f[(n + 1) + 1], ss, o, (n + 1) + 1)
      OBVIOUS
    <3>1. PICK o : f[n + 1] \in Seq(T) /\ FlatFrom(f[n + 1], ss, o, n + 1)
      OBVIOUS
    <3>2. /\ (n + 1) + 1 \in 1 .. Len(ss) /\ (n + 1) + 1 # 1
          /\ ((n + 1) + 1) - 1 = n + 1 /\ n + 1 \in Nat
      OBVIOUS
    <3>3. f[(n + 1) + 1] = f[n + 1] \o ss[(n + 1) + 1]
      BY <2>4, <3>2
    <3>4. \E p : FlatFrom(f[n + 1] \o ss[(n + 1) + 1], ss, p, (n + 1) + 1)
      BY <3>1, <3>2, FlatGrows
    <3>5. ss[(n + 1) + 1] \in Seq(T)
      BY <3>2
    <3>6. QED
      BY <3>1, <3>3, <3>4, <3>5, EndToEnd
  <2>7. S \in SUBSET Nat
    OBVIOUS
  <2> HIDE DEF S
  <2>8. S = Nat
    BY <2>5, <2>6, <2>7, Induction
  <2>9. Len(ss) - 1 \in S /\ (Len(ss) - 1) + 1 = Len(ss)
    BY <1>3, <2>8
  <2>10. QED
    BY <2>3, <2>9 DEF S
<1>4. QED
  BY <1>2, <1>3

-----------------------------------------------------------------------------
(***************************************************************************)
(* The sums over finite sets that Total takes.                             *)
(***************************************************************************)
(* What holds of a set once it holds of the set less any one member holds  *)
(* of every subset of a finite set.                                        *)
LEMMA SubsetInduction ==
  ASSUME NEW S, IsFiniteSet(S), NEW A \in SUBSET SUBSET S,
         \A T \in SUBSET S : (\A x \in T : T \ {x} \in A) => T \in A
  PROVE  A = SUBSET S
<1> DEFINE N == {n \in Nat : \A T \in SUBSET S : Cardinality(T) = n => T \in A}
<1>1. 0 \in N
  <2>1. \A T \in SUBSET S : Cardinality(T) = 0 => T = {}
    BY FS_Subset, FS_EmptySet
  <2>2. {} \in A
    OBVIOUS
  <2>3. QED
    BY <2>1, <2>2
<1>2. ASSUME NEW n \in N PROVE n + 1 \in N
  <2> SUFFICES ASSUME NEW T \in SUBSET S, Cardinality(T) = n + 1 PROVE T \in A
    OBVIOUS
  <2>1. IsFiniteSet(T) /\ n \in Nat
    BY FS_Subset
  <2>2. ASSUME NEW x \in T PROVE T \ {x} \in A
    <3>1. Cardinality(T \ {x}) = n
      BY <2>1, FS_RemoveElement
    <3>2. QED
      BY <3>1
  <2>3. QED
    BY <2>2
<1>3. N \in SUBSET Nat
  OBVIOUS
<1> HIDE DEF N
<1>4. N = Nat
  BY <1>1, <1>2, <1>3, Induction
<1>5. ASSUME NEW T \in SUBSET S PROVE T \in A
  <2>1. Cardinality(T) \in Nat
    BY FS_Subset, FS_CardinalityType
  <2>2. QED
    BY <1>4, <2>1 DEF N
<1>6. QED
  BY <1>5

(* s is the iteration Total stands for, over the subsets of S of at most N *)
(* members.                                                                *)
Small(S, N) == {T \in SUBSET S : Cardinality(T) <= N}
Chosen(T) == CHOOSE x \in T : TRUE
Summand(s, w, T) == IF T = {} THEN 0 ELSE w[Chosen(T)] + s[T \ {Chosen(T)}]
Iteration(s, w, S) == s = [T \in SUBSET S |-> Summand(s, w, T)]

LEMMA IterationExists ==
  ASSUME NEW S, IsFiniteSet(S), NEW w
  PROVE  \E s : Iteration(s, w, S)
<1> DEFINE Up(s, N) == s = [T \in Small(S, N) |-> Summand(s, w, T)]
           P == {N \in Nat : \E s : Up(s, N)}
<1>0. \A T \in SUBSET S : IsFiniteSet(T) /\ Cardinality(T) \in Nat
  BY FS_Subset, FS_CardinalityType
<1>1. 0 \in P
  <2> DEFINE s == [T \in Small(S, 0) |-> 0]
  <2>1. \A T \in Small(S, 0) : T = {}
    <3>1. \A T \in Small(S, 0) : T \in SUBSET S /\ Cardinality(T) = 0
      BY <1>0 DEF Small
    <3>2. QED
      BY <1>0, <3>1, FS_EmptySet
  <2>2. Up(s, 0)
    BY <2>1 DEF Summand
  <2>3. QED
    BY <2>2
<1>2. ASSUME NEW N \in P PROVE N + 1 \in P
  <2>1. N \in Nat
    OBVIOUS
  <2>2. PICK s : Up(s, N)
    OBVIOUS
  <2> DEFINE v == [T \in Small(S, N + 1) |-> Summand(s, w, T)]
  <2>3. ASSUME NEW T \in Small(S, N + 1), T # {}
        PROVE  T \ {Chosen(T)} \in Small(S, N)
    <3>1. T \in SUBSET S /\ Cardinality(T) <= N + 1 /\ IsFiniteSet(T) /\ Chosen(T) \in T
      BY <1>0, <2>3 DEF Small, Chosen
    <3>2. Cardinality(T \ {Chosen(T)}) = Cardinality(T) - 1
      BY <3>1, FS_RemoveElement
    <3>3. Cardinality(T) \in Nat
      BY <1>0, <3>1
    <3>4. QED
      BY <2>1, <3>1, <3>2, <3>3 DEF Small
  <2>4. ASSUME NEW T \in Small(S, N) PROVE v[T] = s[T]
    <3>1. T \in Small(S, N + 1)
      BY <1>0, <2>1 DEF Small
    <3>2. s[T] = Summand(s, w, T)
      BY <2>2
    <3>3. QED
      BY <3>1, <3>2
  <2>5. ASSUME NEW T \in Small(S, N + 1) PROVE v[T] = Summand(v, w, T)
    <3>1. v[T] = Summand(s, w, T)
      OBVIOUS
    <3> HIDE DEF v
    <3>2. T # {} => v[T \ {Chosen(T)}] = s[T \ {Chosen(T)}]
      BY <2>3, <2>4
    <3>3. QED
      BY <3>1, <3>2 DEF Summand
  <2>6. Up(v, N + 1)
    <3>1. v = [T \in Small(S, N + 1) |-> v[T]]
      OBVIOUS
    <3> HIDE DEF v
    <3>2. QED
      BY <2>5, <3>1, Zenon
  <2>7. \E t : Up(t, N + 1)
    BY <2>6
  <2> HIDE DEF Up
  <2>8. QED
    BY <2>1, <2>7
<1>3. P \in SUBSET Nat
  OBVIOUS
<1> HIDE DEF P
<1>4. P = Nat
  BY <1>1, <1>2, <1>3, Induction
<1>5. Cardinality(S) \in Nat
  BY <1>0
<1>6. PICK s : Up(s, Cardinality(S))
  BY <1>4, <1>5 DEF P
<1>7. Small(S, Cardinality(S)) = SUBSET S
  BY FS_Subset DEF Small
<1>8. QED
  BY <1>6, <1>7 DEF Iteration

(* The sums of w over the subsets of its domain, in whatever order.        *)
Sums(s, w) ==
  /\ s \in [SUBSET DOMAIN w -> Nat]
  /\ s[{}] = 0
  /\ \A T \in SUBSET DOMAIN w : \A x \in T : s[T] = w[x] + s[T \ {x}]

Amounts(w) == IsFiniteSet(DOMAIN w) /\ \A x \in DOMAIN w : w[x] \in Nat

LEMMA TotalIsASum ==
  ASSUME NEW w, Amounts(w)
  PROVE  \E s : Sums(s, w) /\ Total(w) = s[DOMAIN w]
<1> DEFINE S == DOMAIN w
           s == CHOOSE t : Iteration(t, w, S)
<1>1. s = [T \in SUBSET S |-> Summand(s, w, T)]
  <2>1. \E t : Iteration(t, w, S)
    BY IterationExists DEF Amounts
  <2>2. Iteration(s, w, S)
    BY <2>1, Zenon
  <2> HIDE DEF s
  <2>3. QED
    BY <2>2 DEF Iteration
<1>2. Total(w) = s[S]
  BY Zenon DEF Total, MapThenSumSet, MapThenFoldSet, Iteration, Summand, Chosen
<1> HIDE DEF s
<1>3. s[{}] = 0
  BY <1>1 DEF Summand
<1>10. ASSUME NEW T \in SUBSET S PROVE s[T] \in Nat
  <2> DEFINE B == {R \in SUBSET S : s[R] \in Nat}
  <2>1. ASSUME NEW R \in SUBSET S, \A x \in R : R \ {x} \in B
        PROVE  R \in B
    <3>1. CASE R = {}
      BY <1>3, <3>1
    <3>2. CASE R # {}
      <4> DEFINE c == Chosen(R)
      <4>1. c \in R /\ s[R] = w[c] + s[R \ {c}]
        BY <1>1, <3>2 DEF Summand, Chosen
      <4> HIDE DEF c
      <4>2. w[c] \in Nat /\ s[R \ {c}] \in Nat
        BY <2>1, <4>1 DEF Amounts
      <4>3. QED
        BY <4>1, <4>2
    <3>3. QED
      BY <3>1, <3>2
  <2>2. B \in SUBSET SUBSET S /\ IsFiniteSet(S)
    BY DEF Amounts
  <2> HIDE DEF B, S
  <2>3. B = SUBSET S
    BY <2>1, <2>2, SubsetInduction
  <2>4. QED
    BY <2>3 DEF B
<1> DEFINE A == {T \in SUBSET S : \A x \in T : s[T] = w[x] + s[T \ {x}]}
<1>4. ASSUME NEW T \in SUBSET S, \A x \in T : T \ {x} \in A
      PROVE  T \in A
  <2>1. CASE T = {}
    BY <1>3, <2>1
  <2>2. CASE T # {}
    <3> DEFINE c == Chosen(T)
    <3>1. c \in T /\ s[T] = w[c] + s[T \ {c}]
      BY <1>1, <2>2 DEF Summand, Chosen
    <3> HIDE DEF c
    <3>2. \A x \in T : w[x] \in Nat /\ s[T \ {x}] \in Nat
      BY <1>10 DEF Amounts
    <3>3. ASSUME NEW x \in T PROVE s[T] = w[x] + s[T \ {x}]
      <4>1. CASE x = c
        BY <3>1, <4>1
      <4>2. CASE x # c
        <5> DEFINE R == T \ {c, x}
        <5>1. (T \ {c}) \ {x} = R /\ (T \ {x}) \ {c} = R
          OBVIOUS
        <5>2. T \ {c} \in A /\ T \ {x} \in A /\ x \in T \ {c} /\ c \in T \ {x}
          BY <1>4, <3>1, <4>2
        <5> HIDE DEF R
        <5>3. s[T \ {c}] = w[x] + s[R] /\ s[T \ {x}] = w[c] + s[R]
          <6>1. s[T \ {c}] = w[x] + s[(T \ {c}) \ {x}]
            BY <5>2
          <6>2. s[T \ {x}] = w[c] + s[(T \ {x}) \ {c}]
            BY <5>2
          <6>3. QED
            BY <5>1, <6>1, <6>2
        <5>4. s[R] \in Nat
          BY <1>10 DEF R
        <5>5. QED
          BY <3>1, <3>2, <5>3, <5>4
      <4>3. QED
        BY <4>1, <4>2
    <3>4. QED
      BY <3>3
  <2>3. QED
    BY <2>1, <2>2
<1>5. A \in SUBSET SUBSET S
  OBVIOUS
<1> HIDE DEF A
<1>6. A = SUBSET S
  <2>1. IsFiniteSet(S)
    BY DEF Amounts
  <2> HIDE DEF S
  <2>2. QED
    BY <1>4, <1>5, <2>1, SubsetInduction
<1>7. s = [T \in SUBSET S |-> s[T]]
  BY <1>1
<1>8. Sums(s, w)
  BY <1>3, <1>6, <1>7, <1>10 DEF Sums, A
<1>9. QED
  BY <1>2, <1>8

LEMMA TotalIsNat ==
  ASSUME NEW w, Amounts(w)
  PROVE  Total(w) \in Nat
<1>1. PICK s : Sums(s, w) /\ Total(w) = s[DOMAIN w]
  BY TotalIsASum
<1>2. QED
  BY <1>1 DEF Sums

LEMMA TotalOfNone ==
  ASSUME NEW w, DOMAIN w = {}
  PROVE  Total(w) = 0
<1>1. Amounts(w)
  BY FS_EmptySet DEF Amounts
<1>2. PICK s : Sums(s, w) /\ Total(w) = s[DOMAIN w]
  BY <1>1, TotalIsASum
<1>3. QED
  BY <1>2 DEF Sums

LEMMA TotalOfOne ==
  ASSUME NEW w, NEW a, DOMAIN w = {a}, w[a] \in Nat
  PROVE  Total(w) = w[a]
<1>1. Amounts(w)
  BY FS_Singleton DEF Amounts
<1>2. PICK s : Sums(s, w) /\ Total(w) = s[DOMAIN w]
  BY <1>1, TotalIsASum
<1>3. s[{a}] = w[a] + s[{a} \ {a}]
  BY <1>2 DEF Sums
<1>4. {a} \ {a} = {} /\ s[{}] = 0
  BY <1>2 DEF Sums
<1>5. s[{a}] = w[a]
  BY <1>3, <1>4
<1>6. QED
  BY <1>2, <1>5

LEMMA TotalAtLeast ==
  ASSUME NEW w, Amounts(w), NEW a \in DOMAIN w
  PROVE  w[a] <= Total(w)
<1>1. PICK s : Sums(s, w) /\ Total(w) = s[DOMAIN w]
  BY TotalIsASum
<1>2. s[DOMAIN w] = w[a] + s[DOMAIN w \ {a}]
  BY <1>1 DEF Sums
<1>3. s[DOMAIN w \ {a}] \in Nat
  BY <1>1 DEF Sums
<1>4. w[a] \in Nat
  BY DEF Amounts
<1>5. QED
  BY <1>1, <1>2, <1>3, <1>4

(* Entry by entry in no more than a proportion is in all in no more.       *)
LEMMA TotalsCompare ==
  ASSUME NEW f, NEW g, Amounts(f), Amounts(g), DOMAIN f = DOMAIN g, NEW c \in Nat, NEW t \in Nat,
         \A x \in DOMAIN f : c * f[x] <= t * g[x]
  PROVE  c * Total(f) <= t * Total(g)
<1> DEFINE S == DOMAIN f
<1>1. PICK s : Sums(s, f) /\ Total(f) = s[S]
  BY TotalIsASum
<1>2. PICK r : Sums(r, g) /\ Total(g) = r[S]
  BY TotalIsASum
<1> DEFINE A == {T \in SUBSET S : c * s[T] <= t * r[T]}
<1>3. ASSUME NEW T \in SUBSET S, \A x \in T : T \ {x} \in A
      PROVE  T \in A
  <2>1. CASE T = {}
    BY <1>1, <1>2, <2>1 DEF Sums
  <2>2. CASE T # {}
    <3>1. PICK x \in T : TRUE
      BY <2>2
    <3>2. s[T] = f[x] + s[T \ {x}] /\ r[T] = g[x] + r[T \ {x}]
      BY <1>1, <1>2 DEF Sums
    <3>3. s[T \ {x}] \in Nat /\ r[T \ {x}] \in Nat /\ f[x] \in Nat /\ g[x] \in Nat
      BY <1>1, <1>2 DEF Sums, Amounts
    <3>4. c * s[T \ {x}] <= t * r[T \ {x}] /\ c * f[x] <= t * g[x]
      BY <1>3
    <3>5. \A u, v, u2, v2 \in Nat : c * u <= t * v /\ c * u2 <= t * v2 => c * (u2 + u) <= t * (v2 + v)
      <4> SUFFICES ASSUME NEW u \in Nat, NEW v \in Nat, NEW u2 \in Nat, NEW v2 \in Nat,
                          c * u <= t * v, c * u2 <= t * v2
                   PROVE  c * (u2 + u) <= t * (v2 + v)
        OBVIOUS
      <4>1. c * (u2 + u) = c * u2 + c * u /\ t * (v2 + v) = t * v2 + t * v
        OBVIOUS
      <4>2. c * u2 \in Nat /\ c * u \in Nat /\ t * v2 \in Nat /\ t * v \in Nat
        OBVIOUS
      <4>3. QED
        BY <4>1, <4>2
    <3>6. c * (f[x] + s[T \ {x}]) <= t * (g[x] + r[T \ {x}])
      BY ONLY <3>3, <3>4, <3>5, Zenon
    <3>7. QED
      BY <3>2, <3>6
  <2>3. QED
    BY <2>1, <2>2
<1>4. A \in SUBSET SUBSET S /\ IsFiniteSet(S)
  BY DEF Amounts
<1> HIDE DEF A, S
<1>5. A = SUBSET S
  BY <1>3, <1>4, SubsetInduction
<1>6. QED
  BY <1>1, <1>2, <1>5 DEF A

-----------------------------------------------------------------------------
(***************************************************************************)
(* The two loops of the plan that advance over a range: the split into     *)
(* bands and the cut into pieces.  From `at' such a loop keeps item[at],   *)
(* or nothing, and goes on from next[at], until it reaches N.              *)
(***************************************************************************)
Turned(rest, at, keep, item) == (IF at \in keep THEN <<item[at]>> ELSE <<>>) \o rest
Cut(f, at, N, keep, item, next) ==
  IF at >= N THEN <<>> ELSE Turned(f[next[at]], at, keep, item)
Cuts(f, N, keep, item, next) == f = [at \in Nat |-> Cut(f, at, N, keep, item, next)]

LEMMA CutsExist ==
  ASSUME NEW N \in Nat, NEW keep, NEW item, NEW next \in [Nat -> Nat],
         \A at \in Nat : next[at] > at
  PROVE  \E f : Cuts(f, N, keep, item, next)
<1> DEFINE C(f, at) == Cut(f, at, N, keep, item, next)
           S == {n \in Nat : \E f : \A at \in Nat : N - at <= n => f[at] = C(f, at)}
<1>1. 0 \in S
  <2> DEFINE f == [at \in Nat |-> <<>>]
  <2>1. \A at \in Nat : N - at <= 0 => f[at] = C(f, at)
    BY DEF Cut
  <2> HIDE DEF f, C
  <2>2. QED
    BY <2>1
<1>2. ASSUME NEW n \in S PROVE n + 1 \in S
  <2>1. PICK f : \A at \in Nat : N - at <= n => f[at] = C(f, at)
    OBVIOUS
  <2> DEFINE g == [at \in Nat |-> IF N - at = n + 1 THEN C(f, at) ELSE f[at]]
  <2>2. ASSUME NEW at \in Nat, N - at <= n + 1 PROVE g[at] = C(g, at)
    <3>1. g[at] = C(f, at)
      <4> HIDE DEF C
      <4>1. CASE N - at = n + 1
        BY <4>1
      <4>2. CASE N - at # n + 1
        BY <2>1, <2>2, <4>2
      <4>3. QED
        BY <4>1, <4>2
    <3>2. g[next[at]] = f[next[at]]
      <4> HIDE DEF C
      <4>1. next[at] \in Nat /\ N - next[at] # n + 1
        BY <2>2
      <4>2. QED
        BY <4>1
    <3> HIDE DEF g
    <3>3. QED
      BY <3>1, <3>2, Zenon DEF Cut
  <2> HIDE DEF g, C
  <2>3. QED
    BY <2>2
<1>3. S \in SUBSET Nat
  OBVIOUS
<1> HIDE DEF S
<1>4. S = Nat
  BY <1>1, <1>2, <1>3, Induction
<1>5. N \in S
  BY <1>4
<1>6. PICK h : \A at \in Nat : N - at <= N => h[at] = C(h, at)
  BY <1>5 DEF S
<1> DEFINE f == [at \in Nat |-> h[at]]
<1>7. ASSUME NEW at \in Nat PROVE f[at] = C(f, at)
  <2>1. h[at] = C(h, at)
    <3> HIDE DEF C
    <3>1. QED
      BY <1>6
  <2>2. f[at] = h[at] /\ f[next[at]] = h[next[at]]
    OBVIOUS
  <2> HIDE DEF f
  <2>3. QED
    BY <2>1, <2>2, Zenon DEF Cut
<1>8. f = [at \in Nat |-> f[at]]
  OBVIOUS
<1> HIDE DEF f
<1>9. Cuts(f, N, keep, item, next)
  BY <1>7, <1>8, Zenon DEF Cuts
<1>10. QED
  BY <1>9

(* What the loop returns from at: what it kept, each from its own place o, *)
(* and no place between at and N is passed over.                           *)
Trail(seq, o, at, N, keep, item, next) ==
  /\ o \in [1 .. Len(seq) -> Nat]
  /\ \A k \in 1 .. Len(seq) : at <= o[k] /\ o[k] < N /\ o[k] \in keep /\ seq[k] = item[o[k]]
  /\ \A k, l \in 1 .. Len(seq) : k < l => next[o[k]] <= o[l]
  /\ \A r \in Nat : at <= r /\ r < N =>
       \E s \in at .. r : r < next[s] /\ (s \in keep => \E k \in 1 .. Len(seq) : o[k] = s)

(* One more turn at the front.                                             *)
LEMMA TrailGrows ==
  ASSUME NEW T, NEW N \in Nat, NEW keep, NEW item, NEW next \in [Nat -> Nat],
         \A s \in Nat : next[s] > s, \A s \in Nat : s < N /\ s \in keep => item[s] \in T,
         NEW at \in Nat, at < N,
         NEW rest \in Seq(T), NEW o, Trail(rest, o, next[at], N, keep, item, next)
  PROVE  /\ Turned(rest, at, keep, item) \in Seq(T)
         /\ \E p : Trail(Turned(rest, at, keep, item), p, at, N, keep, item, next)
<1>1. next[at] \in Nat /\ at < next[at] /\ Len(rest) \in Nat
  OBVIOUS
<1>b. \A a, b, c \in Nat : a < b /\ b <= c => a <= c
  OBVIOUS
<1>0. /\ \A k \in 1 .. Len(rest) : /\ o[k] \in Nat /\ next[at] <= o[k] /\ o[k] < N
                                   /\ o[k] \in keep /\ rest[k] = item[o[k]]
      /\ \A k, l \in 1 .. Len(rest) : k < l => next[o[k]] <= o[l]
  BY DEF Trail
<1>a. ASSUME NEW r \in Nat, r < N, ~(r < next[at])
      PROVE  \E s \in Nat : /\ next[at] <= s /\ s <= r /\ r < next[s]
                            /\ s \in keep => \E k \in 1 .. Len(rest) : o[k] = s
  <2>1. next[at] <= r
    BY <1>1, <1>a
  <2>2. PICK s \in next[at] .. r : r < next[s] /\ (s \in keep => \E k \in 1 .. Len(rest) : o[k] = s)
    BY <1>a, <2>1 DEF Trail
  <2>3. s \in Nat /\ next[at] <= s /\ s <= r
    BY <1>1
  <2>4. QED
    BY <2>2, <2>3
<1>2. CASE at \notin keep
  <2>1. Turned(rest, at, keep, item) = rest
    BY <1>2 DEF Turned
  <2>2. ASSUME NEW r \in Nat, at <= r, r < N
        PROVE  \E s \in at .. r : r < next[s] /\ (s \in keep => \E k \in 1 .. Len(rest) : o[k] = s)
    <3>1. CASE r < next[at]
      <4>1. at \in at .. r
        BY <2>2
      <4>2. QED
        BY <1>2, <3>1, <4>1
    <3>2. CASE ~(r < next[at])
      <4>1. PICK s \in Nat : /\ next[at] <= s /\ s <= r /\ r < next[s]
                             /\ s \in keep => \E k \in 1 .. Len(rest) : o[k] = s
        BY <2>2, <3>2, <1>a
      <4>2. s \in at .. r
        BY <1>1, <4>1
      <4>3. QED
        BY <4>1, <4>2
    <3>3. QED
      BY <3>1, <3>2
  <2>3. \A k \in 1 .. Len(rest) : at <= o[k]
    <3> SUFFICES ASSUME NEW k \in 1 .. Len(rest) PROVE at <= o[k]
      OBVIOUS
    <3>1. o[k] \in Nat /\ next[at] <= o[k]
      BY <1>0
    <3>2. QED
      BY <1>1, <1>b, <3>1, Zenon
  <2>4. Trail(rest, o, at, N, keep, item, next)
    BY <2>2, <2>3 DEF Trail
  <2>5. QED
    BY <2>1, <2>4
<1>3. CASE at \in keep
  <2> DEFINE seq == <<item[at]>> \o rest
             p == [k \in 1 .. Len(rest) + 1 |-> IF k = 1 THEN at ELSE o[k - 1]]
  <2>1. /\ seq \in Seq(T) /\ Len(seq) = Len(rest) + 1 /\ seq[1] = item[at] /\ Len(rest) \in Nat
        /\ \A k \in 2 .. Len(seq) : seq[k] = rest[k - 1]
    <3>1. item[at] \in T
      BY <1>3
    <3>2. rest \in Seq(T) /\ Len(rest) \in Nat
      BY <1>1
    <3>3. /\ seq \in Seq(T) /\ Len(seq) = 1 + Len(rest) /\ seq[1] = item[at]
          /\ \A m \in 1 .. Len(rest) : seq[1 + m] = rest[m]
      <4>1. /\ <<item[at]>> \o rest \in Seq(T)
            /\ Len(<<item[at]>> \o rest) = 1 + Len(rest)
            /\ (<<item[at]>> \o rest)[1] = item[at]
            /\ \A m \in 1 .. Len(rest) : (<<item[at]>> \o rest)[1 + m] = rest[m]
        BY ONLY <3>1, <3>2, Prepended
      <4>2. seq = <<item[at]>> \o rest
        OBVIOUS
      <4> HIDE DEF seq
      <4>3. QED
        BY ONLY <4>1, <4>2, Zenon
    <3> HIDE DEF seq
    <3>4. \A k \in 2 .. Len(seq) : k - 1 \in 1 .. Len(rest) /\ 1 + (k - 1) = k
      BY <3>2, <3>3
    <3>5. \A k \in 2 .. Len(seq) : seq[k] = rest[k - 1]
      BY <3>3, <3>4
    <3>6. Len(seq) = Len(rest) + 1
      BY <3>2, <3>3
    <3>7. QED
      BY <3>2, <3>3, <3>5, <3>6, Zenon
  <2>2. /\ p[1] = at /\ \A k \in 2 .. Len(seq) : p[k] = o[k - 1]
        /\ \A k \in 2 .. Len(seq) : k - 1 \in 1 .. Len(rest)
        /\ DOMAIN p = 1 .. Len(seq)
    <3> HIDE DEF seq
    <3>1. QED
      BY <2>1
  <2>3. p = [k \in 1 .. Len(seq) |-> p[k]]
    BY <2>1
  <2> HIDE DEF seq, p
  <2>4. ASSUME NEW k \in 1 .. Len(seq)
        PROVE  p[k] \in Nat /\ at <= p[k] /\ p[k] < N /\ p[k] \in keep /\ seq[k] = item[p[k]]
    <3>1. CASE k = 1
      <4>1. p[k] = at /\ seq[k] = item[at]
        BY <2>1, <2>2, <3>1
      <4>2. QED
        BY <1>3, <4>1
    <3>2. CASE k # 1
      <4>1. k \in 2 .. Len(seq) /\ k - 1 \in 1 .. Len(rest)
        BY <2>2, <3>2
      <4>2. /\ o[k - 1] \in Nat /\ next[at] <= o[k - 1] /\ o[k - 1] < N
            /\ o[k - 1] \in keep /\ rest[k - 1] = item[o[k - 1]]
        BY <1>0, <4>1
      <4>3. p[k] = o[k - 1] /\ seq[k] = rest[k - 1]
        BY <2>1, <2>2, <4>1
      <4>4. at <= o[k - 1]
        BY <1>1, <1>b, <4>2, Zenon
      <4>5. QED
        BY <4>2, <4>3, <4>4, Zenon
    <3>3. QED
      BY <3>1, <3>2
  <2>5. ASSUME NEW k \in 1 .. Len(seq), NEW l \in 1 .. Len(seq), k < l
        PROVE  next[p[k]] <= p[l]
    <3>1. l \in 2 .. Len(seq) /\ l - 1 \in 1 .. Len(rest) /\ p[l] = o[l - 1]
      <4>1. l \in 2 .. Len(seq)
        BY <2>1, <2>5
      <4>2. QED
        BY <2>2, <4>1
    <3>2. CASE k = 1
      <4>1. p[k] = at /\ next[at] <= o[l - 1]
        BY <1>0, <2>2, <3>1, <3>2
      <4>2. QED
        BY <3>1, <4>1
    <3>3. CASE k # 1
      <4>1. k \in 2 .. Len(seq) /\ k - 1 \in 1 .. Len(rest) /\ p[k] = o[k - 1] /\ k - 1 < l - 1
        <5>0. k \in Nat /\ l \in Nat /\ 1 <= k /\ k <= Len(seq) /\ Len(seq) \in Nat
          <6>1. Len(seq) \in Nat
            BY <2>1
          <6>2. QED
            BY <6>1
        <5>1. k \in 2 .. Len(seq) /\ k - 1 < l - 1
          BY <5>0, <2>5, <3>3
        <5>2. QED
          BY <2>2, <5>1
      <4>2. next[o[k - 1]] <= o[l - 1]
        BY <1>0, <3>1, <4>1
      <4>3. QED
        BY <3>1, <4>1, <4>2
    <3>4. QED
      BY <3>2, <3>3
  <2>6. ASSUME NEW r \in Nat, at <= r, r < N
        PROVE  \E s \in at .. r : r < next[s] /\ (s \in keep => \E k \in 1 .. Len(seq) : p[k] = s)
    <3>1. CASE r < next[at]
      <4>1. at \in at .. r /\ 1 \in 1 .. Len(seq)
        BY <2>1, <2>6
      <4>2. QED
        BY <2>2, <3>1, <4>1
    <3>2. CASE ~(r < next[at])
      <4>1. PICK s \in Nat : /\ next[at] <= s /\ s <= r /\ r < next[s]
                             /\ s \in keep => \E k \in 1 .. Len(rest) : o[k] = s
        BY <2>6, <3>2, <1>a
      <4>2. s \in at .. r
        BY <1>1, <4>1
      <4>3. ASSUME s \in keep PROVE \E k \in 1 .. Len(seq) : p[k] = s
        <5>1. PICK k \in 1 .. Len(rest) : o[k] = s
          BY <4>1, <4>3
        <5>2. k + 1 \in 2 .. Len(seq) /\ (k + 1) - 1 = k /\ k + 1 \in 1 .. Len(seq)
          BY <2>1
        <5>3. p[k + 1] = s
          BY <2>2, <5>1, <5>2
        <5>4. QED
          BY <5>2, <5>3
      <4>4. QED
        BY <4>1, <4>2, <4>3
    <3>3. QED
      BY <3>1, <3>2
  <2>7. p \in [1 .. Len(seq) -> Nat]
    BY <2>3, <2>4
  <2>8. Trail(seq, p, at, N, keep, item, next)
    BY <2>4, <2>5, <2>6, <2>7 DEF Trail
  <2>9. QED
    BY <1>3, <2>1, <2>8 DEF seq, Turned
<1>4. QED
  BY <1>2, <1>3

LEMMA LoopIsTrail ==
  ASSUME NEW T, NEW N \in Nat, NEW keep, NEW item, NEW next \in [Nat -> Nat],
         \A s \in Nat : next[s] > s, \A s \in Nat : s < N /\ s \in keep => item[s] \in T,
         NEW f, Cuts(f, N, keep, item, next), NEW at \in Nat
  PROVE  f[at] \in Seq(T) /\ \E o : Trail(f[at], o, at, N, keep, item, next)
<1> DEFINE Is(s) == f[s] \in Seq(T) /\ \E o : Trail(f[s], o, s, N, keep, item, next)
           S == {n \in Nat : \A s \in Nat : N - s <= n => Is(s)}
<1>1. \A s \in Nat : f[s] = Cut(f, s, N, keep, item, next)
  BY Zenon DEF Cuts
<1>2. ASSUME NEW s \in Nat, s >= N PROVE Is(s)
  <2>1. f[s] = <<>>
    BY <1>1, <1>2 DEF Cut
  <2>2. Trail(<<>>, [k \in 1 .. 0 |-> 0], s, N, keep, item, next)
    BY <1>2 DEF Trail
  <2>3. QED
    BY <2>1, <2>2
<1>3. ASSUME NEW s \in Nat, s < N, Is(next[s]) PROVE Is(s)
  <2>1. f[s] = Turned(f[next[s]], s, keep, item)
    <3>1. ~(s >= N)
      BY <1>3
    <3>2. QED
      BY <1>1, <3>1, Zenon DEF Cut
  <2>2. PICK o : Trail(f[next[s]], o, next[s], N, keep, item, next)
    BY <1>3
  <2>3. f[next[s]] \in Seq(T)
    BY <1>3
  <2>4. /\ Turned(f[next[s]], s, keep, item) \in Seq(T)
        /\ \E p : Trail(Turned(f[next[s]], s, keep, item), p, s, N, keep, item, next)
    <3> HIDE DEF Is, S
    <3>1. QED
      BY <1>3, <2>2, <2>3, TrailGrows
  <2>5. QED
    BY <2>1, <2>4, Zenon
<1> HIDE DEF Is
<1>4. 0 \in S
  BY <1>2
<1>5. ASSUME NEW n \in S PROVE n + 1 \in S
  <2> SUFFICES ASSUME NEW s \in Nat, N - s <= n + 1 PROVE Is(s)
    OBVIOUS
  <2>1. CASE s >= N
    BY <1>2, <2>1
  <2>2. CASE ~(s >= N)
    <3>1. next[s] \in Nat /\ N - next[s] <= n
      OBVIOUS
    <3>2. QED
      BY <1>3, <2>2, <3>1
  <2>3. QED
    BY <2>1, <2>2
<1>6. S \in SUBSET Nat
  OBVIOUS
<1> HIDE DEF S
<1>7. S = Nat
  BY <1>4, <1>5, <1>6, Induction
<1>8. N \in S /\ N - at <= N
  BY <1>7
<1>9. Is(at)
  BY <1>8 DEF S
<1>10. QED
  BY <1>9 DEF Is

-----------------------------------------------------------------------------
(***************************************************************************)
(* splitRange: bands within the range, one after another, that leave no    *)
(* bin of it out.                                                          *)
(***************************************************************************)
LEMMA Division ==
  ASSUME NEW a \in Nat, NEW n \in Nat \ {0}
  PROVE  /\ a \div n \in Nat /\ a % n \in 0 .. n - 1
         /\ a = (a \div n) * n + (a % n)
  OBVIOUS

LEMMA ArrayEndsAbove ==
  ASSUME NEW b \in Nat
  PROVE  ArrayUpper(b) \in Nat /\ b <= ArrayUpper(b)
<1> DEFINE q == b \div BinsPerArray
           r == b % BinsPerArray
           n == BinsPerArray
<1>1. n \in Nat \ {0}
  BY DepositAssumption
<1>2. q \in Nat /\ r \in 0 .. n - 1 /\ b = q * n + r
  BY <1>1, Division
<1>3. ArrayUpper(b) = (q + 1) * n - 1
  BY DEF ArrayUpper
<1> HIDE DEF q, r, n
<1>4. q * n \in Nat /\ (q + 1) * n = q * n + n
  BY <1>1, <1>2
<1>5. QED
  BY <1>1, <1>2, <1>3, <1>4

LEMMA SpecEndIs ==
  ASSUME NEW req \in Requests, NEW s \in Nat, s <= req.upper
  PROVE  SpecEnd(req, s) \in Nat /\ s <= SpecEnd(req, s) /\ SpecEnd(req, s) <= req.upper
<1>1. req.upper \in Nat /\ req.cap \in Nat \ {0}
  BY DepositAssumption DEF Request, Bins
<1>2. ArrayUpper(s) \in Nat /\ s <= ArrayUpper(s)
  BY ArrayEndsAbove
<1>3. QED
  BY <1>1, <1>2 DEF SpecEnd, Smaller

Specs(specs, req) ==
  /\ specs \in Seq([lower : Bins, upper : Bins])
  /\ \A i \in 1 .. Len(specs) : /\ req.lower <= specs[i].lower
                                /\ specs[i].lower <= specs[i].upper
                                /\ specs[i].upper <= req.upper
  /\ \A i, j \in 1 .. Len(specs) : i < j => specs[i].upper < specs[j].lower
  /\ \A b \in BinsOf(req) : \E i \in 1 .. Len(specs) : b \in BinsOf(specs[i])

LEMMA SplitIs ==
  ASSUME NEW req \in Requests
  PROVE  Specs(SplitRange(req), req)
<1> DEFINE N == req.upper + 1
           item == [s \in Nat |-> [lower |-> s, upper |-> SpecEnd(req, s)]]
           next == [s \in Nat |-> IF s > req.upper THEN s + 1 ELSE SpecEnd(req, s) + 1]
           body(f) == [start \in Nat |->
                         IF start > req.upper THEN <<>>
                         ELSE <<[lower |-> start, upper |-> SpecEnd(req, start)]>>
                                \o f[SpecEnd(req, start) + 1]]
           T == [lower : Bins, upper : Bins]
<1>1. /\ req.lower \in Bins /\ req.upper \in Bins
      /\ \A b \in Bins : b \in Nat /\ MinBin <= b /\ b <= MaxBin
      /\ \A b \in Nat : MinBin <= b /\ b <= MaxBin => b \in Bins
      /\ MinBin \in Nat /\ MaxBin \in Nat
  BY DepositAssumption DEF Request, Bins
<1>2. N \in Nat
  BY <1>1
<1>3. next \in [Nat -> Nat] /\ \A s \in Nat : next[s] > s
  <2> SUFFICES ASSUME NEW s \in Nat
               PROVE  (IF s > req.upper THEN s + 1 ELSE SpecEnd(req, s) + 1) \in {n \in Nat : n > s}
    OBVIOUS
  <2>1. CASE s > req.upper
    BY <2>1
  <2>2. CASE ~(s > req.upper)
    <3>1. s <= req.upper
      BY <1>1, <2>2
    <3>2. SpecEnd(req, s) \in Nat /\ s <= SpecEnd(req, s)
      BY <3>1, SpecEndIs
    <3>3. QED
      BY <2>2, <3>2
  <2>3. QED
    BY <2>1, <2>2
<1>4. \A s \in Nat : s < N => s <= req.upper /\ ~(s > req.upper) /\ ~(s >= N)
  BY <1>1
<1>5. \A f : \A s \in Nat : body(f)[s] = Cut(f, s, N, Nat, item, next)
  <2> SUFFICES ASSUME NEW f, NEW s \in Nat
               PROVE  body(f)[s] = Cut(f, s, N, Nat, item, next)
    BY Zenon
  <2>1. CASE s > req.upper
    <3>1. s >= N
      BY <1>1, <2>1
    <3>2. QED
      BY <2>1, <3>1 DEF Cut
  <2>2. CASE ~(s > req.upper)
    <3>1. ~(s >= N)
      BY <1>1, <2>2
    <3>2. item[s] = [lower |-> s, upper |-> SpecEnd(req, s)] /\ next[s] = SpecEnd(req, s) + 1
      BY <2>2
    <3>3. body(f)[s] = <<[lower |-> s, upper |-> SpecEnd(req, s)]>> \o f[SpecEnd(req, s) + 1]
      BY <2>2
    <3> HIDE DEF item, next, body, N
    <3>4. Cut(f, s, N, Nat, item, next) = <<item[s]>> \o f[next[s]]
      BY <3>1 DEF Cut, Turned
    <3>5. QED
      BY <3>2, <3>3, <3>4
  <2>3. QED
    BY <2>1, <2>2
<1>6. \A f : body(f) = [s \in Nat |-> body(f)[s]]
  OBVIOUS
<1> DEFINE specs == CHOOSE f : f = body(f)
<1>7. SplitRange(req) = specs[req.lower]
  BY Zenon DEF SplitRange
<1> HIDE DEF body, item, next, N
<1>8. PICK f : Cuts(f, N, Nat, item, next)
  BY <1>2, <1>3, CutsExist
<1>9. \A g : body(g) = [s \in Nat |-> Cut(g, s, N, Nat, item, next)]
  BY <1>5, <1>6
<1>10. specs = body(specs)
  <2>1. f = body(f)
    BY <1>8, <1>9, Zenon DEF Cuts
  <2>2. QED
    BY <2>1, Zenon
<1> HIDE DEF specs
<1>11. Cuts(specs, N, Nat, item, next)
  BY <1>9, <1>10, Zenon DEF Cuts
<1>12. ASSUME NEW s \in Nat, s < N
       PROVE  /\ item[s].lower = s /\ item[s].upper = SpecEnd(req, s)
              /\ next[s] = item[s].upper + 1 /\ s <= item[s].upper /\ item[s].upper <= req.upper
              /\ item[s].upper \in Nat /\ item[s] = [lower |-> s, upper |-> item[s].upper]
  BY <1>4, <1>12, SpecEndIs DEF item, next
<1> SUFFICES Specs(specs[req.lower], req)
  BY <1>7
<1> DEFINE U == [lower : Nat, upper : Nat]
<1>13. PICK o : /\ specs[req.lower] \in Seq(U)
                /\ Trail(specs[req.lower], o, req.lower, N, Nat, item, next)
  <2>1. ASSUME NEW s \in Nat, s < N PROVE item[s] \in U
    <3>1. item[s].upper \in Nat /\ item[s] = [lower |-> s, upper |-> item[s].upper]
      BY <1>12, <2>1
    <3>2. QED
      BY <3>1
  <2>2. req.lower \in Nat
    BY <1>1
  <2> HIDE DEF U
  <2>3. QED
    BY <1>2, <1>3, <1>11, <2>1, <2>2, LoopIsTrail
<1> DEFINE list == specs[req.lower]
<1> HIDE DEF list
<1>14. \A i \in 1 .. Len(list) : o[i] \in Nat /\ req.lower <= o[i] /\ o[i] < N /\ list[i] = item[o[i]]
  BY <1>13 DEF Trail, list
<1>15. ASSUME NEW i \in 1 .. Len(list)
       PROVE  /\ list[i].lower = o[i] /\ list[i].upper \in Nat
              /\ req.lower <= list[i].lower /\ list[i].lower <= list[i].upper
              /\ list[i].upper <= req.upper /\ next[o[i]] = list[i].upper + 1
              /\ list[i] = [lower |-> list[i].lower, upper |-> list[i].upper]
  <2>1. o[i] \in Nat /\ req.lower <= o[i] /\ o[i] < N /\ list[i] = item[o[i]]
    BY <1>14
  <2>2. /\ item[o[i]].lower = o[i] /\ next[o[i]] = item[o[i]].upper + 1
        /\ o[i] <= item[o[i]].upper /\ item[o[i]].upper <= req.upper
        /\ item[o[i]].upper \in Nat
        /\ item[o[i]] = [lower |-> o[i], upper |-> item[o[i]].upper]
    BY <1>12, <2>1
  <2>3. QED
    BY <2>1, <2>2, Zenon
<1>16. list \in Seq(T)
  <2>1. list \in Seq(U)
    BY <1>13 DEF list
  <2>2. \A i \in 1 .. Len(list) : list[i] \in T
    <3> SUFFICES ASSUME NEW i \in 1 .. Len(list) PROVE list[i] \in T
      OBVIOUS
    <3>0. /\ list[i].lower = o[i] /\ o[i] \in Nat /\ list[i].upper \in Nat
          /\ req.lower <= list[i].lower /\ list[i].lower <= list[i].upper
          /\ list[i].upper <= req.upper
          /\ list[i] = [lower |-> list[i].lower, upper |-> list[i].upper]
      BY <1>14, <1>15
    <3>1. list[i].lower \in Nat /\ list[i].upper \in Nat
      BY <3>0
    <3>2. /\ req.lower \in Nat /\ req.upper \in Nat /\ MinBin \in Nat /\ MaxBin \in Nat
          /\ MinBin <= req.lower /\ req.upper <= MaxBin
      BY <1>1
    <3>3. list[i].lower \in Bins /\ list[i].upper \in Bins
      BY <3>0, <3>1, <3>2 DEF Bins
    <3>4. QED
      BY <3>0, <3>3
  <2> HIDE DEF T, U
  <2>3. QED
    BY <2>1, <2>2, Retyped
<1>17. ASSUME NEW i \in 1 .. Len(list), NEW j \in 1 .. Len(list), i < j
       PROVE  list[i].upper < list[j].lower
  <2>1. next[o[i]] <= o[j]
    BY <1>13, <1>17 DEF Trail, list
  <2>2. /\ next[o[i]] = list[i].upper + 1 /\ list[i].upper \in Nat
        /\ list[j].lower = o[j] /\ o[j] \in Nat
    BY <1>14, <1>15
  <2>3. QED
    BY <2>1, <2>2
<1>18. ASSUME NEW b \in BinsOf(req)
       PROVE  \E i \in 1 .. Len(list) : b \in BinsOf(list[i])
  <2>1. b \in Nat /\ req.lower <= b /\ b < N
    BY <1>1 DEF BinsOf, N
  <2>2. PICK s \in req.lower .. b : b < next[s] /\ (s \in Nat => \E k \in 1 .. Len(list) : o[k] = s)
    BY <1>13, <2>1 DEF Trail, list
  <2>3. s \in Nat /\ s <= b
    BY <1>1, <2>1
  <2>4. PICK k \in 1 .. Len(list) : o[k] = s
    BY <2>2, <2>3
  <2>5. b < list[k].upper + 1 /\ list[k].lower = s /\ list[k].upper \in Nat
    BY <1>15, <2>2, <2>4
  <2>6. b \in BinsOf(list[k])
    BY <2>1, <2>3, <2>5 DEF BinsOf
  <2>7. QED
    BY <2>6
<1>19. Specs(list, req)
  BY <1>15, <1>16, <1>17, <1>18 DEF Specs
<1>20. QED
  BY <1>19 DEF list

-----------------------------------------------------------------------------
(***************************************************************************)
(* The cut of a table into pieces: each is a stretch of the table, no bin  *)
(* is in two of them, and every bin that receives something is in one.     *)
(***************************************************************************)
HasTable(p) ==
  /\ p.dist = [b \in DOMAIN p.dist |-> p.dist[b]] /\ DOMAIN p.dist \subseteq Bins
  /\ p.exists \in BOOLEAN

PartOf(dist, table) ==
  /\ DOMAIN dist \subseteq DOMAIN table
  /\ dist = [b \in DOMAIN dist |-> table[b]]

Pieces(chunks, p) ==
  /\ chunks \in Seq({Slice(p.dist, D) : D \in SUBSET DOMAIN p.dist})
  /\ \A k \in 1 .. Len(chunks) : PartOf(chunks[k], p.dist)
  /\ \A k, l \in 1 .. Len(chunks) : k < l => DOMAIN chunks[k] \cap DOMAIN chunks[l] = {}
  /\ \A b \in Places(p.dist, p.x, p.y) : \E k \in 1 .. Len(chunks) : b \in DOMAIN chunks[k]

LEMMA BinsBounded == Bins \subseteq Nat /\ Bins \subseteq 0 .. MaxBin /\ MaxBin \in Nat /\ IsFiniteSet(Bins)
<1>1. MinBin \in Nat /\ MaxBin \in Nat
  BY DepositAssumption
<1>2. \A b \in Bins : b \in Int /\ MinBin <= b /\ b <= MaxBin
  BY <1>1 DEF Bins
<1>3. IsFiniteSet(Bins)
  BY <1>1, FS_Interval DEF Bins
<1>4. QED
  BY <1>1, <1>2, <1>3

LEMMA RankIs ==
  ASSUME NEW dist, DOMAIN dist \subseteq Bins, NEW b \in DOMAIN dist
  PROVE  /\ Cardinality(DOMAIN dist) \in Nat /\ Rank(dist, b) \in Nat
         /\ Rank(dist, b) < Cardinality(DOMAIN dist)
<1> DEFINE T == {c \in DOMAIN dist : c < b}
<1>1. IsFiniteSet(DOMAIN dist)
  BY BinsBounded, FS_Subset
<1>2. T \in SUBSET DOMAIN dist /\ T # DOMAIN dist
  <2>0. b \in Nat
    BY BinsBounded
  <2>1. ~(b < b)
    BY <2>0
  <2>2. QED
    BY <2>1
<1> HIDE DEF T
<1>3. IsFiniteSet(T) /\ Cardinality(T) <= Cardinality(DOMAIN dist)
      /\ Cardinality(T) # Cardinality(DOMAIN dist)
  BY <1>1, <1>2, FS_Subset
<1>4. Cardinality(T) \in Nat /\ Cardinality(DOMAIN dist) \in Nat
  BY <1>1, <1>3, FS_CardinalityType
<1>5. Rank(dist, b) = Cardinality(T)
  BY DEF Rank, T
<1>6. QED
  BY <1>3, <1>4, <1>5

(* A bin receives from a part of a table what it receives from the table.  *)
LEMMA PartPlaces ==
  ASSUME NEW table, NEW dist, PartOf(dist, table), NEW x, NEW y, NEW b \in DOMAIN dist
  PROVE  /\ Preview(dist, x, y)[b] = Preview(table, x, y)[b]
         /\ b \in Places(dist, x, y) <=> b \in Places(table, x, y)
<1>1. b \in DOMAIN table /\ dist[b] = table[b]
  BY DEF PartOf
<1>2. Preview(dist, x, y)[b] = Preview(table, x, y)[b]
  BY <1>1 DEF Preview
<1>3. QED
  BY <1>1, <1>2 DEF Places

LEMMA TrimIs ==
  ASSUME NEW slice, DOMAIN slice \subseteq Bins, NEW p, Places(slice, p.x, p.y) # {}
  PROVE  /\ PartOf(Trim(slice, p), slice)
         /\ Places(slice, p.x, p.y) \subseteq DOMAIN Trim(slice, p)
<1> DEFINE hit == Places(slice, p.x, p.y)
<1>1. hit \in SUBSET (0 .. MaxBin) /\ hit \in SUBSET Nat /\ MaxBin \in Nat /\ hit \subseteq DOMAIN slice
  BY BinsBounded DEF Places
<1>2. Trim(slice, p) = Slice(slice, Min(hit) .. Max(hit))
  BY DEF Trim
<1> HIDE DEF hit
<1>3. /\ Min(hit) \in hit /\ \A b \in hit : Min(hit) <= b
      /\ Max(hit) \in hit /\ \A b \in hit : Max(hit) >= b
  BY <1>1, MinIsLeast, MaxIsGreatest DEF hit
<1>4. hit \subseteq DOMAIN slice \cap (Min(hit) .. Max(hit))
  BY <1>1, <1>3
<1>5. DOMAIN Trim(slice, p) = DOMAIN slice \cap (Min(hit) .. Max(hit))
  BY <1>2 DEF Slice
<1>6. PartOf(Trim(slice, p), slice)
  BY <1>2, <1>5 DEF Slice, PartOf
<1>7. QED
  BY <1>4, <1>5, <1>6 DEF hit

LEMMA PieceIs ==
  ASSUME NEW p, HasTable(p), NEW at \in Nat
  PROVE  LET slice == Entries(p.dist, at, WidthAt(p, at))
             keep == Places(slice, p.x, p.y) # {} \/ OpensAt(p, at)
             piece == IF Places(slice, p.x, p.y) # {} THEN Trim(slice, p) ELSE slice
             within(b) == Rank(p.dist, b) \in at .. at + WidthAt(p, at) - 1
         IN  /\ PieceAt(p, at) = IF keep THEN <<piece>> ELSE <<>>
             /\ PartOf(piece, p.dist)
             /\ \A b \in DOMAIN piece : within(b)
             /\ \A b \in Places(p.dist, p.x, p.y) : within(b) => keep /\ b \in DOMAIN piece
<1> DEFINE slice == Entries(p.dist, at, WidthAt(p, at))
           piece == IF Places(slice, p.x, p.y) # {} THEN Trim(slice, p) ELSE slice
           within(b) == Rank(p.dist, b) \in at .. at + WidthAt(p, at) - 1
<1>1. /\ PartOf(slice, p.dist) /\ DOMAIN slice \subseteq Bins
      /\ \A b \in DOMAIN p.dist : b \in DOMAIN slice <=> within(b)
      /\ slice = [b \in DOMAIN slice |-> slice[b]]
  BY DEF Entries, Slice, PartOf, HasTable
<1>2. PieceAt(p, at) = IF Places(slice, p.x, p.y) # {} \/ OpensAt(p, at) THEN <<piece>> ELSE <<>>
  BY DEF PieceAt
<1> HIDE DEF slice, within
<1>3. /\ PartOf(piece, slice)
      /\ Places(slice, p.x, p.y) \subseteq DOMAIN piece
  <2>1. CASE Places(slice, p.x, p.y) # {}
    BY <1>1, <2>1, TrimIs
  <2>2. CASE Places(slice, p.x, p.y) = {}
    BY <1>1, <2>2 DEF PartOf
  <2>3. QED
    BY <2>1, <2>2
<1> HIDE DEF piece
<1>4. PartOf(piece, p.dist)
  BY <1>1, <1>3 DEF PartOf
<1>5. \A b \in DOMAIN piece : within(b)
  BY <1>1, <1>3 DEF PartOf
<1>6. ASSUME NEW b \in Places(p.dist, p.x, p.y), within(b)
      PROVE  b \in Places(slice, p.x, p.y)
  <2>1. b \in DOMAIN p.dist
    BY DEF Places
  <2>2. b \in DOMAIN slice
    BY <1>1, <1>6, <2>1
  <2>3. QED
    BY <1>1, <2>2, PartPlaces
<1>7. QED
  BY <1>2, <1>3, <1>4, <1>5, <1>6, Zenon DEF slice, piece, within

LEMMA ChunksArePieces ==
  ASSUME NEW p, HasTable(p)
  PROVE  Pieces(Chunks(p), p)
<1> DEFINE slice(at) == Entries(p.dist, at, WidthAt(p, at))
           kept(at) == Places(slice(at), p.x, p.y) # {} \/ OpensAt(p, at)
           piece(at) == IF Places(slice(at), p.x, p.y) # {} THEN Trim(slice(at), p) ELSE slice(at)
           within(at, b) == Rank(p.dist, b) \in at .. at + WidthAt(p, at) - 1
           N == Cardinality(DOMAIN p.dist)
           keep == {at \in Nat : kept(at)}
           item == [at \in Nat |-> piece(at)]
           next == [at \in Nat |-> at + WidthAt(p, at)]
           body(f) == [at \in Nat |-> IF at >= Cardinality(DOMAIN p.dist) THEN <<>>
                                      ELSE PieceAt(p, at) \o f[at + WidthAt(p, at)]]
           T == {Slice(p.dist, D) : D \in SUBSET DOMAIN p.dist}
<1>1. \A at : WidthAt(p, at) \in Nat \ {0}
  BY DepositAssumption DEF WidthAt
<1>2. N \in Nat
  <2>1. IsFiniteSet(DOMAIN p.dist)
    BY BinsBounded, FS_Subset DEF HasTable
  <2>2. QED
    BY <2>1, FS_CardinalityType
<1>3. /\ next \in [Nat -> Nat] /\ \A s \in Nat : next[s] > s
      /\ \A s \in Nat : next[s] = s + WidthAt(p, s)
  <2> SUFFICES ASSUME NEW s \in Nat PROVE s + WidthAt(p, s) \in {n \in Nat : n > s}
    OBVIOUS
  <2>1. QED
    BY <1>1
<1>4. ASSUME NEW at \in Nat
      PROVE  /\ PieceAt(p, at) = IF at \in keep THEN <<item[at]>> ELSE <<>>
             /\ PartOf(item[at], p.dist)
             /\ \A b \in DOMAIN item[at] : within(at, b)
             /\ \A b \in Places(p.dist, p.x, p.y) : within(at, b) => at \in keep /\ b \in DOMAIN item[at]
  <2>1. /\ PieceAt(p, at) = IF kept(at) THEN <<piece(at)>> ELSE <<>>
        /\ PartOf(piece(at), p.dist)
        /\ \A b \in DOMAIN piece(at) : within(at, b)
        /\ \A b \in Places(p.dist, p.x, p.y) : within(at, b) => kept(at) /\ b \in DOMAIN piece(at)
    BY PieceIs, Zenon
  <2>2. (at \in keep <=> kept(at)) /\ item[at] = piece(at)
    OBVIOUS
  <2> HIDE DEF kept, piece, within, keep, item
  <2>3. QED
    BY <2>1, <2>2
<1> HIDE DEF kept, piece, keep, item, slice
<1>5. \A f : \A s \in Nat : body(f)[s] = Cut(f, s, N, keep, item, next)
  BY <1>3, <1>4, Zenon DEF Cut, Turned
<1>6. \A f : body(f) = [s \in Nat |-> body(f)[s]]
  OBVIOUS
<1> DEFINE pieces == CHOOSE f : f = body(f)
<1>7. Chunks(p) = pieces[0]
  BY Zenon DEF Chunks
<1> HIDE DEF body, next, N, within
<1>8. PICK f : Cuts(f, N, keep, item, next)
  BY <1>2, <1>3, CutsExist
<1>9. \A g : body(g) = [s \in Nat |-> Cut(g, s, N, keep, item, next)]
  BY <1>5, <1>6
<1>10. pieces = body(pieces)
  <2>1. f = body(f)
    BY <1>8, <1>9, Zenon DEF Cuts
  <2>2. QED
    BY <2>1, Zenon
<1> HIDE DEF pieces
<1>11. Cuts(pieces, N, keep, item, next)
  BY <1>9, <1>10, Zenon DEF Cuts
<1>12. \A s \in Nat : s < N /\ s \in keep => item[s] \in T
  <2> SUFFICES ASSUME NEW s \in Nat PROVE item[s] \in T
    OBVIOUS
  <2>1. PartOf(item[s], p.dist)
    BY <1>4
  <2>2. DOMAIN p.dist \cap DOMAIN item[s] = DOMAIN item[s]
    BY <2>1 DEF PartOf
  <2>3. item[s] = Slice(p.dist, DOMAIN item[s])
    BY <2>1, <2>2 DEF PartOf, Slice
  <2>4. DOMAIN item[s] \in SUBSET DOMAIN p.dist
    BY <2>1 DEF PartOf
  <2>5. QED
    BY <2>3, <2>4
<1> HIDE DEF T
<1> DEFINE list == pieces[0]
<1>13. PICK o : list \in Seq(T) /\ Trail(list, o, 0, N, keep, item, next)
  BY <1>2, <1>3, <1>11, <1>12, LoopIsTrail
<1> HIDE DEF list
<1>14. \A k \in 1 .. Len(list) : o[k] \in Nat /\ o[k] < N /\ o[k] \in keep /\ list[k] = item[o[k]]
  BY <1>13 DEF Trail
<1>15. \A k \in 1 .. Len(list) : PartOf(list[k], p.dist)
  BY <1>4, <1>14
<1>16. ASSUME NEW k \in 1 .. Len(list), NEW l \in 1 .. Len(list), k < l
       PROVE  DOMAIN list[k] \cap DOMAIN list[l] = {}
  <2> SUFFICES ASSUME NEW b \in DOMAIN list[k], b \in DOMAIN list[l] PROVE FALSE
    OBVIOUS
  <2>1. next[o[k]] <= o[l]
    BY <1>13, <1>16 DEF Trail
  <2>2. within(o[k], b) /\ within(o[l], b)
    BY <1>4, <1>14
  <2>3. o[k] \in Nat /\ o[l] \in Nat /\ next[o[k]] = o[k] + WidthAt(p, o[k])
    BY <1>3, <1>14
  <2>4. WidthAt(p, o[k]) \in Nat /\ WidthAt(p, o[l]) \in Nat
    BY <1>1
  <2>5. QED
    BY <2>1, <2>2, <2>3, <2>4 DEF within
<1>17. ASSUME NEW b \in Places(p.dist, p.x, p.y)
       PROVE  \E k \in 1 .. Len(list) : b \in DOMAIN list[k]
  <2>1. b \in DOMAIN p.dist
    BY DEF Places
  <2>2. Rank(p.dist, b) \in Nat /\ 0 <= Rank(p.dist, b) /\ Rank(p.dist, b) < N
    BY <2>1, RankIs DEF HasTable, N
  <2> DEFINE r == Rank(p.dist, b)
  <2> HIDE DEF r
  <2>3. PICK s \in 0 .. r : r < next[s] /\ (s \in keep => \E k \in 1 .. Len(list) : o[k] = s)
    BY <1>13, <2>2 DEF Trail, r
  <2>4. s \in Nat /\ s <= r /\ r \in Nat
    BY <2>2 DEF r
  <2>5. within(s, b)
    <3>1. r < s + WidthAt(p, s) /\ WidthAt(p, s) \in Nat
      BY <1>1, <1>3, <2>3, <2>4
    <3>2. r \in s .. s + WidthAt(p, s) - 1
      BY <2>4, <3>1
    <3>3. QED
      BY <3>2 DEF within, r
  <2>6. s \in keep /\ b \in DOMAIN item[s]
    BY <1>4, <2>4, <2>5
  <2>7. PICK k \in 1 .. Len(list) : o[k] = s
    BY <2>3, <2>6
  <2>8. QED
    BY <1>14, <2>6, <2>7
<1>18. Pieces(list, p)
  BY <1>13, <1>15, <1>16, <1>17 DEF Pieces, T
<1>19. QED
  BY <1>7, <1>18 DEF list

-----------------------------------------------------------------------------
(***************************************************************************)
(* Weights, shares of an amount and basis points are naturals.             *)
(***************************************************************************)
(* A share of a split is never negative: rounded down they sum to at most  *)
(* what is split.                                                          *)
LEMMA AllocateIsNat ==
  ASSUME NEW total \in Nat, NEW weights, Amounts(weights), NEW i \in DOMAIN weights
  PROVE  Allocate(total, weights)[i] \in Nat
<1> DEFINE D == DOMAIN weights
           sum == Total(weights)
           scaled == [k \in D |-> (2 * weights[k] * Scale + sum) \div (2 * sum)]
           all == Total(scaled)
           out == [k \in D |-> (total * scaled[k]) \div all]
           heaviest == Min({k \in D : \A j \in D : scaled[j] <= scaled[k]})
<1>1. Allocate(total, weights)[i] =
        IF sum = 0 \/ all = 0 THEN 0 ELSE out[i] + (IF i = heaviest THEN total - Total(out) ELSE 0)
  BY Zenon DEF Allocate
<1> HIDE DEF heaviest
<1>2. CASE sum = 0 \/ all = 0
  BY <1>1, <1>2
<1>3. CASE ~(sum = 0 \/ all = 0)
  <2>1. sum \in Nat /\ sum # 0
    BY <1>3, TotalIsNat
  <2>2. Amounts(scaled)
    <3>1. ASSUME NEW k \in D PROVE scaled[k] \in Nat
      <4>1. weights[k] \in Nat /\ Scale \in Nat
        BY DepositAssumption DEF Amounts
      <4>2. \A u, v, s \in Nat : s # 0 => (2 * u * v + s) \div (2 * s) \in Nat
        <5> SUFFICES ASSUME NEW u \in Nat, NEW v \in Nat, NEW s \in Nat, s # 0
                     PROVE  (2 * u * v + s) \div (2 * s) \in Nat
          OBVIOUS
        <5>1. 2 * u * v + s \in Nat /\ 2 * s \in Nat \ {0}
          OBVIOUS
        <5>2. QED
          BY <5>1, Division
      <4>3. scaled[k] = (2 * weights[k] * Scale + sum) \div (2 * sum)
        OBVIOUS
      <4> HIDE DEF sum, scaled
      <4>4. QED
        BY <2>1, <4>1, <4>2, <4>3
    <3>2. IsFiniteSet(D) /\ DOMAIN scaled = D
      BY DEF Amounts
    <3> HIDE DEF scaled
    <3>3. QED
      BY <3>1, <3>2 DEF Amounts
  <2> HIDE DEF scaled
  <2>3. all \in Nat \ {0}
    BY <1>3, <2>2, TotalIsNat
  <2> HIDE DEF all
  <2>4. ASSUME NEW k \in D PROVE out[k] \in Nat /\ all * out[k] <= total * scaled[k]
    <3>1. scaled[k] \in Nat
      BY <2>2 DEF Amounts, scaled
    <3>2. total * scaled[k] \in Nat
      BY <3>1
    <3>3. out[k] = (total * scaled[k]) \div all
      OBVIOUS
    <3> HIDE DEF out
    <3>4. \A u \in Nat, v \in Nat \ {0} : u \div v \in Nat /\ v * (u \div v) <= u
      OBVIOUS
    <3>5. QED
      BY <2>3, <3>2, <3>3, <3>4
  <2>5. Amounts(out) /\ DOMAIN out = D /\ DOMAIN scaled = D
    <3>1. IsFiniteSet(D) /\ DOMAIN out = D
      BY DEF Amounts
    <3> HIDE DEF out
    <3>2. QED
      BY <2>4, <3>1 DEF Amounts, scaled
  <2> HIDE DEF out
  <2>6. all * Total(out) <= total * all
    BY <2>2, <2>3, <2>4, <2>5, TotalsCompare DEF all
  <2>7. Total(out) \in Nat
    BY <2>5, TotalIsNat
  <2>8. Total(out) <= total
    <3>1. \A a \in Nat \ {0}, u, v \in Nat : a * u <= v * a => u <= v
      <4> SUFFICES ASSUME NEW a \in Nat \ {0}, NEW u \in Nat, NEW v \in Nat, u > v
                   PROVE  a * u > v * a
        OBVIOUS
      <4>1. PICK e \in Nat : u = v + 1 + e
        <5>1. u - v - 1 \in Nat /\ u = v + 1 + (u - v - 1)
          OBVIOUS
        <5>2. QED
          BY <5>1
      <4>2. a * u = v * a + a + a * e /\ a * e \in Nat /\ v * a \in Nat
        BY <4>1
      <4>3. QED
        BY <4>2
    <3>2. QED
      BY <2>3, <2>6, <2>7, <3>1
  <2>9. out[i] \in Nat
    BY <2>4
  <2>10. QED
    BY <1>1, <1>3, <2>7, <2>8, <2>9
<1>4. QED
  BY <1>2, <1>3

(* A bin's basis points are never negative.                                *)
LEMMA ToBpsIsNat ==
  ASSUME NEW w, Amounts(w), NEW b \in DOMAIN w
  PROVE  ToBps(w)[b] \in Nat
<1>1. w[b] \in Nat /\ One \in Nat /\ Total(w) \in Nat
  BY ShapeAssumption, TotalIsNat DEF Amounts
<1>2. PICK extra \in {0, 1} :
        ToBps(w)[b] = IF Total(w) = 0 THEN 0 ELSE (w[b] * One) \div Total(w) + extra
  <2>1. \E ex : ToBps(w)[b] = IF Total(w) = 0 THEN 0
                              ELSE (w[b] * One) \div Total(w) + (IF ex THEN 1 ELSE 0)
    BY Zenon DEF ToBps
  <2>2. QED
    BY <2>1
<1>3. w[b] * One \in Nat
  BY <1>1
<1>4. Total(w) # 0 => (w[b] * One) \div Total(w) \in Nat
  BY <1>1, <1>3, Division
<1>5. QED
  BY <1>1, <1>2, <1>4

LEMMA DistributeIsNat ==
  ASSUME NEW weights, IsFiniteSet(DOMAIN weights),
         \A b \in DOMAIN weights : weights[b].x \in Nat /\ weights[b].y \in Nat,
         NEW b \in DOMAIN Distribute(weights)
  PROVE  Distribute(weights)[b].x \in Nat /\ Distribute(weights)[b].y \in Nat
<1> DEFINE wx == [c \in DOMAIN weights |-> weights[c].x]
           wy == [c \in DOMAIN weights |-> weights[c].y]
<1>1. Amounts(wx) /\ Amounts(wy) /\ DOMAIN wx = DOMAIN weights /\ DOMAIN wy = DOMAIN weights
  BY DEF Amounts
<1>2. b \in DOMAIN weights /\ Distribute(weights)[b] = [x |-> ToBps(wx)[b], y |-> ToBps(wy)[b]]
  BY DEF Distribute
<1> HIDE DEF wx, wy
<1>3. ToBps(wx)[b] \in Nat /\ ToBps(wy)[b] \in Nat
  BY <1>1, <1>2, ToBpsIsNat
<1>4. QED
  BY <1>2, <1>3

(* A side of the range: its raw ramp, blended, with its part of the active *)
(* bin.                                                                    *)
LEMMA RampIsNat ==
  ASSUME NEW shape, NEW S \in SUBSET Bins, NEW at \in Bins
  PROVE  Amounts(Ramp(shape, S, at)) /\ DOMAIN Ramp(shape, S, at) = S
<1> DEFINE d(b) == Distance(b, at)
           ds == {d(b) : b \in S}
           near == Min(ds)
           far == Max(ds)
           w == Ramp(shape, S, at)
<1>1. \A b \in S : d(b) \in 0 .. MaxBin
  <2>1. \A a, b, m \in Nat : a <= m /\ b <= m => Distance(a, b) \in 0 .. m
    BY DEF Distance
  <2>2. at \in Nat /\ at <= MaxBin /\ MaxBin \in Nat /\ \A b \in S : b \in Nat /\ b <= MaxBin
    BY BinsBounded
  <2>3. QED
    BY <2>1, <2>2
<1>2. IsFiniteSet(S) /\ DOMAIN w = S
  BY BinsBounded, FS_Subset DEF Ramp
<1>3. ASSUME NEW b \in S PROVE w[b] \in Nat
  <2>1. w[b] = IF far - near = 0 \/ shape = "spot" THEN 1
               ELSE IF shape = "curve" THEN far - near - (d(b) - near) ELSE d(b) - near
    BY Zenon DEF Ramp
  <2> HIDE DEF d
  <2>2. ds \in SUBSET (0 .. MaxBin) /\ ds # {} /\ d(b) \in ds /\ MaxBin \in Nat
    BY <1>1, BinsBounded
  <2> HIDE DEF ds
  <2>3. ds \in SUBSET Nat
    BY <2>2
  <2>4. near \in ds /\ near <= d(b)
    BY <2>2, <2>3, MinIsLeast
  <2>5. far \in ds /\ far >= d(b)
    BY <2>2, MaxIsGreatest
  <2>6. near \in Nat /\ far \in Nat /\ d(b) \in Nat
    BY <2>2, <2>3, <2>4, <2>5
  <2> HIDE DEF near, far, w
  <2>7. QED
    BY <2>1, <2>4, <2>5, <2>6
<1>4. QED
  BY <1>2, <1>3 DEF Amounts

LEMMA BlendIsNat ==
  ASSUME NEW w, Amounts(w), NEW blend \in 0 .. One
  PROVE  Amounts(Blend(w, blend)) /\ DOMAIN Blend(w, blend) = DOMAIN w
<1>1. One \in Nat /\ blend \in Nat /\ One - blend \in Nat
  BY ShapeAssumption
<1>2. Total(w) \in Nat /\ Cardinality(DOMAIN w) \in Nat
  BY TotalIsNat, FS_CardinalityType DEF Amounts
<1>3. ASSUME NEW b \in DOMAIN w PROVE Blend(w, blend)[b] \in Nat
  <2>1. Blend(w, blend)[b] = (One - blend) * w[b] * Cardinality(DOMAIN w) + blend * Total(w)
    BY Zenon DEF Blend
  <2>2. w[b] \in Nat
    BY DEF Amounts
  <2>3. \A a, c, e, f, g \in Nat : a * c * e + f * g \in Nat
    OBVIOUS
  <2>4. QED
    BY <1>1, <1>2, <2>1, <2>2, <2>3
<1>4. DOMAIN Blend(w, blend) = DOMAIN w
  BY DEF Blend
<1>5. QED
  BY <1>3, <1>4 DEF Amounts

LEMMA SplitActiveIsNat ==
  ASSUME NEW w, Amounts(w), NEW at, NEW keep \in Nat
  PROVE  Amounts(SplitActive(w, at, keep)) /\ DOMAIN SplitActive(w, at, keep) = DOMAIN w
<1> DEFINE scaled == [b \in DOMAIN w |-> w[b] * (IF b = at THEN keep ELSE ShareUnit)]
<1>1. SplitActive(w, at, keep) = scaled \/ SplitActive(w, at, keep) = w
  BY Zenon DEF SplitActive
<1>2. ASSUME NEW b \in DOMAIN w PROVE scaled[b] \in Nat
  <2>1. w[b] \in Nat /\ ShareUnit \in Nat
    BY ShapeAssumption DEF Amounts
  <2>2. w[b] * keep \in Nat /\ w[b] * ShareUnit \in Nat
    BY <2>1
  <2>3. QED
    BY <2>2
<1>3. DOMAIN scaled = DOMAIN w
  OBVIOUS
<1> HIDE DEF scaled
<1>4. Amounts(scaled)
  BY <1>2, <1>3 DEF Amounts
<1>5. QED
  BY <1>1, <1>3, <1>4

Side(req, at, S, keep) ==
  SplitActive(Blend(Ramp(req.shape, S, at), req.blend), at, keep)

LEMMA SideIsNat ==
  ASSUME NEW req \in Requests, NEW at \in Bins, NEW S \in SUBSET Bins, NEW keep \in Nat
  PROVE  Amounts(Side(req, at, S, keep)) /\ DOMAIN Side(req, at, S, keep) = S
<1>1. req.blend \in 0 .. One
  BY DepositAssumption DEF Request
<1>2. QED
  BY <1>1, RampIsNat, BlendIsNat, SplitActiveIsNat DEF Side

(* The weights of a request, and the two sides they are put together of. *)
WeightsOf(req, at) == WeightsFor(req.lower, req.upper, at, req.shape, req.blend, req.share)
UpFrom(req, at) == {b \in BinsOf(req) : b >= at}
DownFrom(req, at) == {b \in BinsOf(req) : b <= at}

LEMMA RequestIs ==
  ASSUME NEW req \in Requests
  PROVE  /\ req.lower \in Bins /\ req.upper \in Bins /\ req.x \in Nat /\ req.y \in Nat
         /\ req.share \in Nat /\ ShareUnit - req.share \in Nat
         /\ BinsOf(req) \subseteq Bins
<1>1. /\ req.lower \in Bins /\ req.upper \in Bins /\ req.x \in Nat /\ req.y \in Nat
      /\ req.share \in 0 .. ShareUnit /\ ShareUnit \in Nat
  BY DepositAssumption, ShapeAssumption DEF Request
<1>2. req.share \in Nat /\ ShareUnit - req.share \in Nat
  BY <1>1
<1>3. MinBin \in Nat /\ MaxBin \in Nat
  BY DepositAssumption
<1>4. \A l, u, a, b \in Nat : l \in a .. b /\ u \in a .. b => (l .. u) \subseteq (a .. b)
  OBVIOUS
<1>5. BinsOf(req) \subseteq Bins
  BY <1>1, <1>3, <1>4, BinsBounded DEF BinsOf, Bins
<1>6. QED
  BY <1>1, <1>2, <1>5

LEMMA WeightsAre ==
  ASSUME NEW req \in Requests, NEW at \in Bins
  PROVE  /\ DOMAIN WeightsOf(req, at) = BinsOf(req)
         /\ \A b \in BinsOf(req) :
              WeightsOf(req, at)[b] =
                [x |-> IF b >= at THEN Side(req, at, UpFrom(req, at), req.share)[b] ELSE 0,
                 y |-> IF b <= at THEN Side(req, at, DownFrom(req, at), ShareUnit - req.share)[b]
                       ELSE 0]
         /\ \A b \in BinsOf(req) : /\ WeightsOf(req, at)[b].x \in Nat
                                   /\ WeightsOf(req, at)[b].y \in Nat
<1> DEFINE x == Side(req, at, UpFrom(req, at), req.share)
           y == Side(req, at, DownFrom(req, at), ShareUnit - req.share)
<1>1. WeightsOf(req, at) = [b \in BinsOf(req) |-> [x |-> IF b >= at THEN x[b] ELSE 0,
                                                   y |-> IF b <= at THEN y[b] ELSE 0]]
  BY Zenon DEF WeightsOf, WeightsFor, Side, UpFrom, DownFrom, BinsOf
<1>2. /\ UpFrom(req, at) \in SUBSET Bins /\ DownFrom(req, at) \in SUBSET Bins
      /\ req.share \in Nat /\ ShareUnit - req.share \in Nat
  BY RequestIs DEF UpFrom, DownFrom
<1>3. \A b \in UpFrom(req, at) : x[b] \in Nat
  BY <1>2, SideIsNat DEF Amounts
<1>4. \A b \in DownFrom(req, at) : y[b] \in Nat
  BY <1>2, SideIsNat DEF Amounts
<1> HIDE DEF x, y
<1>5. \A b \in BinsOf(req) : (b >= at => x[b] \in Nat) /\ (b <= at => y[b] \in Nat)
  BY <1>3, <1>4 DEF UpFrom, DownFrom
<1>6. QED
  BY <1>1, <1>5 DEF x, y

-----------------------------------------------------------------------------
(***************************************************************************)
(* The positions of a plan: each over a band of its own, with a table      *)
(* within it.                                                              *)
(***************************************************************************)
WeightsX(req, at) ==
  [i \in DOMAIN SplitRange(req) |->
     Total([b \in BinsOf(SplitRange(req)[i]) |-> WeightsOf(req, at)[b].x])]
WeightsY(req, at) ==
  [i \in DOMAIN SplitRange(req) |->
     Total([b \in BinsOf(SplitRange(req)[i]) |-> WeightsOf(req, at)[b].y])]

(* A draft and the part of the split it is for.                            *)
Draft(req, at, held, n, i) ==
  LET spec == SplitRange(req)[i]
  IN  [spec |-> spec, exists |-> PositionFor(spec, held) # {}, account |-> HomeOf(spec, held, n),
       x |-> Allocate(req.x, WeightsX(req, at))[i], y |-> Allocate(req.y, WeightsY(req, at))[i],
       dist |-> Distribute(Slice(WeightsOf(req, at), BinsOf(spec)))]

LEMMA DraftsAre ==
  ASSUME NEW req, NEW at, NEW held, NEW n
  PROVE  Drafts(req, at, held, n) = [i \in DOMAIN SplitRange(req) |-> Draft(req, at, held, n, i)]
BY Zenon DEF Drafts, Draft, WeightsX, WeightsY, WeightsOf

(* A table spreads over the bins it is given, and no others.               *)
LEMMA TableSpreads ==
  ASSUME NEW w
  PROVE  /\ DOMAIN Distribute(w) \subseteq DOMAIN w
         /\ Distribute(w) = [b \in DOMAIN Distribute(w) |-> Distribute(w)[b]]
BY DEF Distribute

Position(p, held, n) ==
  /\ p.spec \in [lower : Bins, upper : Bins] /\ p.spec.lower <= p.spec.upper
  /\ HasTable(p) /\ DOMAIN p.dist \subseteq BinsOf(p.spec)
  /\ p.exists = (PositionFor(p.spec, held) # {})
  /\ p.account = HomeOf(p.spec, held, n)

LEMMA DraftIsPosition ==
  ASSUME NEW req \in Requests, NEW at, NEW held, NEW n, NEW i \in 1 .. Len(SplitRange(req))
  PROVE  LET p == Draft(req, at, held, n, i)
         IN  Position(p, held, n) /\ p.spec = SplitRange(req)[i]
<1> DEFINE p == Draft(req, at, held, n, i)
           spec == SplitRange(req)[i]
           w == Slice(WeightsOf(req, at), BinsOf(spec))
<1>1. /\ p.spec = spec /\ p.exists = (PositionFor(spec, held) # {})
      /\ p.account = HomeOf(spec, held, n) /\ p.dist = Distribute(w)
  BY DEF Draft
<1>2. spec \in [lower : Bins, upper : Bins] /\ spec.lower <= spec.upper
  <2> HIDE DEF p, w
  <2>1. Specs(SplitRange(req), req)
    BY SplitIs
  <2>2. spec \in [lower : Bins, upper : Bins]
    <3> DEFINE R == [lower : Bins, upper : Bins]
    <3>1. SplitRange(req) \in Seq(R)
      BY <2>1 DEF Specs
    <3> HIDE DEF R
    <3>2. spec \in R
      BY <3>1
    <3>3. QED
      BY <3>2 DEF R
  <2>3. spec.lower <= spec.upper
    BY <2>1 DEF Specs
  <2>4. QED
    BY <2>2, <2>3
<1>3. DOMAIN w \subseteq BinsOf(spec)
  BY DEF Slice
<1>4. BinsOf(spec) \subseteq Bins
  <2>1. /\ spec.lower \in Nat /\ spec.upper \in Nat /\ MinBin \in Nat /\ MaxBin \in Nat
        /\ MinBin <= spec.lower /\ spec.upper <= MaxBin
    BY <1>2, DepositAssumption DEF Bins
  <2>2. QED
    BY <2>1 DEF BinsOf, Bins
<1> HIDE DEF p, spec, w
<1>5. DOMAIN p.dist \subseteq BinsOf(spec) /\ p.dist = [b \in DOMAIN p.dist |-> p.dist[b]]
  BY <1>1, <1>3, TableSpreads
<1>6. HasTable(p)
  BY <1>1, <1>4, <1>5 DEF HasTable
<1>7. Position(p, held, n)
  BY <1>1, <1>2, <1>5, <1>6 DEF Position
<1>8. QED
  BY <1>1, <1>7 DEF p, spec

(* Every amount of a plan is a natural.                                    *)
Counted(p) ==
  /\ p.x \in Nat /\ p.y \in Nat
  /\ \A b \in DOMAIN p.dist : p.dist[b].x \in Nat /\ p.dist[b].y \in Nat

LEMMA SpecWithin ==
  ASSUME NEW req \in Requests, NEW i \in 1 .. Len(SplitRange(req))
  PROVE  /\ BinsOf(SplitRange(req)[i]) \subseteq BinsOf(req)
         /\ IsFiniteSet(BinsOf(SplitRange(req)[i])) /\ IsFiniteSet(DOMAIN SplitRange(req))
         /\ DOMAIN SplitRange(req) = 1 .. Len(SplitRange(req)) /\ Len(SplitRange(req)) \in Nat
<1>1. Specs(SplitRange(req), req)
  BY SplitIs
<1> DEFINE specs == SplitRange(req)
           R == [lower : Bins, upper : Bins]
<1> HIDE DEF specs, R
<1>2. specs \in Seq(R) /\ req.lower <= specs[i].lower /\ specs[i].upper <= req.upper
  BY <1>1 DEF Specs, specs, R
<1>3. specs[i] \in R /\ Len(specs) \in Nat /\ DOMAIN specs = 1 .. Len(specs)
  BY <1>2 DEF specs
<1>4. specs[i].lower \in Nat /\ specs[i].upper \in Nat /\ req.lower \in Nat /\ req.upper \in Nat
  BY <1>3, BinsBounded, RequestIs DEF R
<1>5. \A l, u, a, b \in Nat : a <= l /\ u <= b => (l .. u) \subseteq (a .. b)
  OBVIOUS
<1>6. BinsOf(specs[i]) \subseteq BinsOf(req)
  BY <1>2, <1>4, <1>5 DEF BinsOf
<1>7. IsFiniteSet(BinsOf(specs[i])) /\ IsFiniteSet(DOMAIN specs)
  <2>1. \A a, b \in Nat : IsFiniteSet(a .. b)
    BY FS_Interval
  <2>2. IsFiniteSet(specs[i].lower .. specs[i].upper)
    BY <1>4, <2>1, Zenon
  <2>3. IsFiniteSet(1 .. Len(specs))
    BY <1>3, <2>1
  <2>4. QED
    BY <1>3, <2>2, <2>3 DEF BinsOf
<1>8. QED
  BY <1>3, <1>6, <1>7 DEF specs

LEMMA DraftIsCounted ==
  ASSUME NEW req \in Requests, NEW at \in Bins, NEW held, NEW n, NEW i \in 1 .. Len(SplitRange(req))
  PROVE  Counted(Draft(req, at, held, n, i))
<1> DEFINE specs == SplitRange(req)
           W == WeightsOf(req, at)
           wx(k) == [b \in BinsOf(specs[k]) |-> W[b].x]
           wy(k) == [b \in BinsOf(specs[k]) |-> W[b].y]
           slice == Slice(W, BinsOf(specs[i]))
           p == Draft(req, at, held, n, i)
<1>1. /\ p.x = Allocate(req.x, WeightsX(req, at))[i] /\ p.y = Allocate(req.y, WeightsY(req, at))[i]
      /\ p.dist = Distribute(slice)
  BY DEF Draft
<1>2. /\ WeightsX(req, at) = [k \in DOMAIN specs |-> Total(wx(k))]
      /\ WeightsY(req, at) = [k \in DOMAIN specs |-> Total(wy(k))]
  BY DEF WeightsX, WeightsY
<1> HIDE DEF p, specs, W
<1>3. \A k \in 1 .. Len(specs) :
        /\ BinsOf(specs[k]) \subseteq BinsOf(req) /\ IsFiniteSet(BinsOf(specs[k]))
  BY SpecWithin DEF specs
<1>4. IsFiniteSet(DOMAIN specs) /\ DOMAIN specs = 1 .. Len(specs) /\ i \in 1 .. Len(specs)
  BY SpecWithin DEF specs
<1>5. DOMAIN W = BinsOf(req) /\ \A b \in BinsOf(req) : W[b].x \in Nat /\ W[b].y \in Nat
  BY WeightsAre DEF W
<1>6. ASSUME NEW k \in DOMAIN specs
      PROVE  Total(wx(k)) \in Nat /\ Total(wy(k)) \in Nat
  <2>1. Amounts(wx(k)) /\ Amounts(wy(k))
    BY <1>3, <1>4, <1>5 DEF Amounts
  <2> HIDE DEF wx, wy
  <2>2. QED
    BY <2>1, TotalIsNat
<1> HIDE DEF wx, wy
<1>7. Amounts(WeightsX(req, at)) /\ i \in DOMAIN WeightsX(req, at)
  BY <1>2, <1>4, <1>6 DEF Amounts
<1>8. Amounts(WeightsY(req, at)) /\ i \in DOMAIN WeightsY(req, at)
  BY <1>2, <1>4, <1>6 DEF Amounts
<1>9. p.x \in Nat /\ p.y \in Nat
  BY <1>1, <1>7, <1>8, RequestIs, AllocateIsNat
<1>10. /\ IsFiniteSet(DOMAIN slice)
       /\ \A b \in DOMAIN slice : slice[b].x \in Nat /\ slice[b].y \in Nat
  <2>1. DOMAIN slice = BinsOf(specs[i]) /\ \A b \in BinsOf(specs[i]) : slice[b] = W[b]
    BY <1>3, <1>4, <1>5 DEF Slice
  <2> HIDE DEF slice
  <2>2. QED
    BY <1>3, <1>4, <1>5, <2>1
<1> HIDE DEF slice
<1>11. \A b \in DOMAIN p.dist : p.dist[b].x \in Nat /\ p.dist[b].y \in Nat
  BY <1>1, <1>10, DistributeIsNat
<1>12. QED
  BY <1>9, <1>11 DEF Counted, p

(* k is the part of the split each position of the plan is for.            *)
Positions(ps, k, req, at, held, n) ==
  /\ ps \in Seq({Draft(req, at, held, n, i) : i \in 1 .. Len(SplitRange(req))})
  /\ k \in [1 .. Len(ps) -> 1 .. Len(SplitRange(req))]
  /\ \A i \in 1 .. Len(ps) : /\ ps[i] = Draft(req, at, held, n, k[i])
                             /\ Places(ps[i].dist, ps[i].x, ps[i].y) # {}
  /\ \A i, j \in 1 .. Len(ps) : i < j => k[i] < k[j]
  /\ \A m \in 1 .. Len(SplitRange(req)) :
       LET p == Draft(req, at, held, n, m)
       IN  Places(p.dist, p.x, p.y) # {} => \E i \in 1 .. Len(ps) : k[i] = m

LEMMA PlansAreDrafts ==
  ASSUME NEW req \in Requests, NEW at, NEW held, NEW n
  PROVE  \E k : Positions(PositionPlans(req, at, held, n), k, req, at, held, n)
<1> DEFINE M == Len(SplitRange(req))
           D(i) == Draft(req, at, held, n, i)
           T == {D(i) : i \in 1 .. M}
           receives(p) == Places(p.dist, p.x, p.y) # {}
           drafts == Drafts(req, at, held, n)
           ss == [i \in DOMAIN drafts |-> IF receives(drafts[i]) THEN <<drafts[i]>> ELSE <<>>]
           ps == PositionPlans(req, at, held, n)
<1>1. M \in Nat /\ DOMAIN SplitRange(req) = 1 .. M
  BY SplitIs DEF Specs
<1>2. DOMAIN drafts = 1 .. M /\ \A i \in 1 .. M : drafts[i] = D(i)
  BY <1>1, DraftsAre
<1>3. ps = FlattenSeq(ss)
  BY Zenon DEF PositionPlans
<1> HIDE DEF drafts, ps, receives, M, D
<1>4. /\ ss = [i \in 1 .. M |-> ss[i]]
      /\ \A i \in 1 .. M : ss[i] = IF receives(D(i)) THEN <<D(i)>> ELSE <<>>
  BY <1>2
<1> HIDE DEF ss
<1>5. ss \in Seq(Seq(T)) /\ Len(ss) = M
  <2>1. \A i \in 1 .. M : ss[i] \in Seq(T)
    <3> SUFFICES ASSUME NEW i \in 1 .. M PROVE ss[i] \in Seq(T)
      OBVIOUS
    <3>1. D(i) \in T
      OBVIOUS
    <3> HIDE DEF T
    <3>2. <<D(i)>> \in Seq(T) /\ <<>> \in Seq(T)
      BY <3>1
    <3>3. QED
      BY <1>4, <3>2, Zenon
  <2> HIDE DEF T
  <2>2. ss \in [1 .. M -> Seq(T)]
    BY <1>4, <2>1
  <2>3. QED
    BY <1>1, <2>2
<1> HIDE DEF T
<1>6. PICK o : ps \in Seq(T) /\ FlatFrom(ps, ss, o, M)
  BY <1>3, <1>5, FlattenIs
<1>7. \A i \in 1 .. M : Len(ss[i]) = (IF receives(D(i)) THEN 1 ELSE 0)
                        /\ (receives(D(i)) => ss[i][1] = D(i))
  BY <1>4
<1> DEFINE at1(j, i) == receives(D(i)) /\ j = o[i - 1] + 1
<1>8. \A j \in 1 .. Len(ps) : \E i \in 1 .. M : at1(j, i)
  <2> SUFFICES ASSUME NEW j \in 1 .. Len(ps) PROVE \E i \in 1 .. M : at1(j, i)
    OBVIOUS
  <2>1. PICK i \in 1 .. M : \E m \in 1 .. Len(ss[i]) : j = o[i - 1] + m
    BY <1>6 DEF FlatFrom
  <2>2. PICK m \in 1 .. Len(ss[i]) : j = o[i - 1] + m
    BY <2>1
  <2>3. receives(D(i)) /\ m = 1
    BY <1>7
  <2>4. QED
    BY <2>2, <2>3
<1> DEFINE k == [j \in 1 .. Len(ps) |-> CHOOSE i \in 1 .. M : at1(j, i)]
<1> HIDE DEF at1
<1>9. \A j \in 1 .. Len(ps) : k[j] \in 1 .. M /\ at1(j, k[j])
  BY <1>8
<1>10. k \in [1 .. Len(ps) -> 1 .. M]
  BY <1>9
<1> HIDE DEF k
<1>11. ASSUME NEW j \in 1 .. Len(ps)
       PROVE  ps[j] = D(k[j]) /\ receives(ps[j])
  <2>1. k[j] \in 1 .. M /\ receives(D(k[j])) /\ j = o[k[j] - 1] + 1
    BY <1>9 DEF at1
  <2>2. 1 \in 1 .. Len(ss[k[j]]) /\ ss[k[j]][1] = D(k[j])
    BY <1>7, <2>1
  <2>3. ps[o[k[j] - 1] + 1] = ss[k[j]][1]
    BY <1>6, <2>1, <2>2 DEF FlatFrom
  <2>4. QED
    BY <2>1, <2>2, <2>3
<1>12. ASSUME NEW i \in 1 .. Len(ps), NEW j \in 1 .. Len(ps), i < j
       PROVE  k[i] < k[j]
  <2> SUFFICES ASSUME ~(k[i] < k[j]) PROVE FALSE
    OBVIOUS
  <2>1. /\ k[i] \in 1 .. M /\ i = o[k[i] - 1] + 1
        /\ k[j] \in 1 .. M /\ j = o[k[j] - 1] + 1 /\ receives(D(k[j]))
    BY <1>9 DEF at1
  <2>2. k[i] # k[j]
    BY <1>12, <2>1
  <2>3. k[i] \in k[j] + 1 .. M
    BY <1>1, <2>1, <2>2
  <2>4. 1 \in 1 .. Len(ss[k[j]]) /\ 1 \in Nat \ {0} /\ M \in 0 .. Len(ss)
    BY <1>1, <1>5, <1>7, <2>1
  <2>5. Offsets(o, ss, M)
    BY <1>6 DEF FlatFrom
  <2>6. o[k[j] - 1] + 1 < o[k[i] - 1] + 1
    BY <1>5, <2>1, <2>3, <2>4, <2>5, LaterParts
  <2>7. j < i /\ i \in Nat /\ j \in Nat
    BY <2>1, <2>6
  <2>8. QED
    BY <1>12, <2>7
<1>13. ASSUME NEW m \in 1 .. M, receives(D(m))
       PROVE  \E j \in 1 .. Len(ps) : k[j] = m
  <2>1. 1 \in 1 .. Len(ss[m]) /\ ss[m][1] = D(m)
    BY <1>7, <1>13
  <2> DEFINE j == o[m - 1] + 1
  <2>2. j \in 1 .. Len(ps)
    <3>1. o \in [0 .. M -> Nat] /\ Len(ps) = o[M] /\ o[m] = o[m - 1] + Len(ss[m]) /\ Offsets(o, ss, M)
      BY <1>6 DEF FlatFrom, Offsets
    <3>2. m \in 0 .. M /\ M \in m .. M /\ m - 1 \in 0 .. M /\ M \in 0 .. Len(ss)
      BY <1>1, <1>5
    <3>3. o[m] <= o[M] /\ o[m] \in Nat /\ o[M] \in Nat
      BY <1>5, <3>1, <3>2, OffsetsRise
    <3>4. o[m - 1] \in Nat /\ Len(ss[m]) = 1
      BY <1>7, <1>13, <3>1, <3>2
    <3>5. QED
      BY <3>1, <3>3, <3>4
  <2>3. k[j] \in 1 .. M /\ receives(D(k[j])) /\ o[m - 1] + 1 = o[k[j] - 1] + 1
    BY <1>9, <2>2 DEF at1
  <2>4. k[j] = m
    <3> SUFFICES ASSUME k[j] # m PROVE FALSE
      OBVIOUS
    <3>1. /\ 1 \in 1 .. Len(ss[m]) /\ 1 \in 1 .. Len(ss[k[j]]) /\ 1 \in Nat \ {0} /\ M \in 0 .. Len(ss)
          /\ Offsets(o, ss, M)
      BY <1>1, <1>5, <1>6, <1>7, <1>13, <2>3 DEF FlatFrom
    <3> HIDE DEF j
    <3>2. o[m - 1] \in Nat /\ o[k[j] - 1] \in Nat
      <4>1. m - 1 \in 0 .. M /\ k[j] - 1 \in 0 .. M
        BY <1>1, <2>3
      <4>2. QED
        BY <3>1, <4>1 DEF Offsets
    <3>3. CASE m < k[j]
      <4>1. k[j] \in m + 1 .. M
        BY <1>1, <2>3, <3>3
      <4>2. o[m - 1] + 1 < o[k[j] - 1] + 1
        BY <1>5, <3>1, <4>1, LaterParts
      <4>3. QED
        BY <2>3, <3>2, <4>2
    <3>4. CASE k[j] < m
      <4>1. m \in k[j] + 1 .. M
        BY <1>1, <2>3, <3>4
      <4>2. o[k[j] - 1] + 1 < o[m - 1] + 1
        BY <1>5, <2>3, <3>1, <4>1, LaterParts
      <4>3. QED
        BY <2>3, <3>2, <4>2
    <3>5. QED
      BY <1>1, <2>3, <3>3, <3>4
  <2>5. QED
    BY <2>2, <2>4
<1>14. Positions(ps, k, req, at, held, n)
  BY <1>6, <1>10, <1>11, <1>12, <1>13 DEF Positions, M, T, D, receives
<1>15. QED
  BY <1>14 DEF ps

LEMMA PositionsApart ==
  ASSUME NEW req \in Requests, NEW at, NEW held, NEW n, NEW ps, NEW k,
         Positions(ps, k, req, at, held, n)
  PROVE  /\ Len(ps) \in Nat /\ DOMAIN ps = 1 .. Len(ps)
         /\ \A a \in 1 .. Len(ps) : Position(ps[a], held, n)
         /\ \A a, b \in 1 .. Len(ps) : a < b => ps[a].spec.upper < ps[b].spec.lower
<1>1. Len(ps) \in Nat /\ DOMAIN ps = 1 .. Len(ps)
  BY DEF Positions
<1>2. \A a \in 1 .. Len(ps) : k[a] \in 1 .. Len(SplitRange(req)) /\ ps[a] = Draft(req, at, held, n, k[a])
  BY DEF Positions
<1>3. \A a \in 1 .. Len(ps) : Position(ps[a], held, n) /\ ps[a].spec = SplitRange(req)[k[a]]
  BY <1>2, DraftIsPosition
<1>4. ASSUME NEW a \in 1 .. Len(ps), NEW b \in 1 .. Len(ps), a < b
      PROVE  ps[a].spec.upper < ps[b].spec.lower
  <2>1. k[a] < k[b]
    BY <1>4 DEF Positions
  <2>2. Specs(SplitRange(req), req)
    BY SplitIs
  <2>3. QED
    BY <1>2, <1>3, <2>1, <2>2 DEF Specs
<1>5. QED
  BY <1>1, <1>3, <1>4

-----------------------------------------------------------------------------
(***************************************************************************)
(* The steps of a plan.                                                    *)
(***************************************************************************)
Accounts(n) == [address : (0 .. n) \X Bins, lower : Bins, upper : Bins]

(* Where a position's liquidity goes holds its whole table.                *)
LEMMA HomeHolds ==
  ASSUME NEW n \in Nat \ {0}, NEW held \in SUBSET Accounts(n - 1), NEW p, Position(p, held, n)
  PROVE  /\ p.account \in Accounts(n) /\ BinsOf(p.spec) \subseteq BinsOf(p.account)
         /\ p.exists => p.account \in held
         /\ ~p.exists => p.account = Account(<<n, p.spec.lower>>, p.spec)
<1>1. /\ p.spec.lower \in Bins /\ p.spec.upper \in Bins
      /\ p.exists = (PositionFor(p.spec, held) # {}) /\ p.account = HomeOf(p.spec, held, n)
  BY DEF Position
<1>2. Bins \subseteq Nat
  BY BinsBounded
<1>3. CASE p.exists
  <2>1. p.account \in PositionFor(p.spec, held)
    BY <1>1, <1>3, Zenon DEF HomeOf
  <2>2. p.account \in held /\ p.account.lower <= p.spec.lower /\ p.account.upper >= p.spec.upper
    <3>1. \/ p.account \in held /\ p.account.lower = p.spec.lower /\ p.account.upper = p.spec.upper
          \/ p.account \in held /\ p.account.lower <= p.spec.lower /\ p.account.upper >= p.spec.upper
      BY <2>1, Zenon DEF PositionFor
    <3>2. p.spec.lower \in Nat /\ p.spec.upper \in Nat
      BY <1>1, <1>2
    <3>3. p.spec.lower <= p.spec.lower /\ p.spec.upper >= p.spec.upper
      BY <3>2
    <3>4. QED
      BY <3>1, <3>3
  <2>3. p.account \in Accounts(n)
    <3>1. p.account \in Accounts(n - 1)
      BY <2>2
    <3>2. 0 .. n - 1 \subseteq 0 .. n
      OBVIOUS
    <3>3. QED
      BY <3>1, <3>2 DEF Accounts
  <2>4. p.account.lower \in Nat /\ p.account.upper \in Nat
    BY <1>2, <2>3 DEF Accounts
  <2>5. BinsOf(p.spec) \subseteq BinsOf(p.account)
    <3>1. p.spec.lower \in Nat /\ p.spec.upper \in Nat
      BY <1>1, <1>2
    <3>2. \A lo, up, l, u \in Nat : l <= lo /\ u >= up => (lo .. up) \subseteq (l .. u)
      OBVIOUS
    <3>3. (p.spec.lower .. p.spec.upper) \subseteq (p.account.lower .. p.account.upper)
      BY <2>2, <2>4, <3>1, <3>2
    <3>4. QED
      BY <3>3, Zenon DEF BinsOf
  <2>6. QED
    BY <1>3, <2>2, <2>3, <2>5
<1>4. CASE ~p.exists
  <2>1. p.account = Account(<<n, p.spec.lower>>, p.spec)
    BY <1>1, <1>4, Zenon DEF HomeOf
  <2>2. <<n, p.spec.lower>> \in (0 .. n) \X Bins
    BY <1>1
  <2>3. p.account \in Accounts(n)
    BY <1>1, <2>1, <2>2 DEF Account, Accounts
  <2>4. p.account.lower = p.spec.lower /\ p.account.upper = p.spec.upper
    BY <2>1 DEF Account
  <2>5. QED
    BY <1>4, <2>1, <2>3, <2>4 DEF BinsOf
<1>5. QED
  BY <1>1, <1>3, <1>4

StepRecord(p, m) ==
  [id |-> StepId(p, m), opens |-> ~p.exists /\ m = 1, creates |-> Creates(p, m),
   account |-> p.account, dist |-> Chunks(p)[m], x |-> p.x, y |-> p.y,
   fills |-> Places(Chunks(p)[m], p.x, p.y) # {}, valid |-> ActiveBinBounds(Chunks(p)[m])]

(* The i-th step is the index[i]-th of position of[i].                     *)
Steps(steps, of, index, ps) ==
  /\ steps \in Seq({steps[i] : i \in 1 .. Len(steps)})
  /\ \A i \in 1 .. Len(steps) :
       /\ of[i] \in 1 .. Len(ps) /\ index[i] \in 1 .. Len(Chunks(ps[of[i]]))
       /\ steps[i] = StepRecord(ps[of[i]], index[i])
  /\ \A i, j \in 1 .. Len(steps) : of[i] = of[j] /\ index[i] = index[j] => i = j
  /\ \A a \in 1 .. Len(ps) : \A m \in 1 .. Len(Chunks(ps[a])) :
       \E i \in 1 .. Len(steps) : of[i] = a /\ index[i] = m
  /\ \A i, j \in 1 .. Len(steps) : of[i] = of[j] /\ index[i] < index[j] => i < j

LEMMA PlanSteps ==
  ASSUME NEW ps, Len(ps) \in Nat, DOMAIN ps = 1 .. Len(ps),
         \A a \in 1 .. Len(ps) : HasTable(ps[a])
  PROVE  \E of, index :
           Steps(FlattenSeq([a \in DOMAIN ps |-> StepsOf(ps[a])]), of, index, ps)
<1> DEFINE N == Len(ps)
           ss == [a \in 1 .. N |-> StepsOf(ps[a])]
           T == UNION {{StepRecord(ps[a], m) : m \in 1 .. Len(Chunks(ps[a]))} : a \in 1 .. N}
           steps == FlattenSeq(ss)
<1>1. ASSUME NEW a \in 1 .. N
      PROVE  /\ Len(Chunks(ps[a])) \in Nat /\ ss[a] \in Seq(T) /\ Len(ss[a]) = Len(Chunks(ps[a]))
             /\ \A m \in 1 .. Len(Chunks(ps[a])) : ss[a][m] = StepRecord(ps[a], m)
  <2>1. Len(Chunks(ps[a])) \in Nat /\ DOMAIN Chunks(ps[a]) = 1 .. Len(Chunks(ps[a]))
    BY ChunksArePieces DEF Pieces
  <2>2. ss[a] = [m \in 1 .. Len(Chunks(ps[a])) |-> StepRecord(ps[a], m)]
    BY <2>1, Zenon DEF StepsOf, StepRecord
  <2>3. \A m \in 1 .. Len(Chunks(ps[a])) : StepRecord(ps[a], m) \in T
    OBVIOUS
  <2> HIDE DEF ss, T
  <2>4. QED
    BY <2>1, <2>2, <2>3
<1> HIDE DEF T
<1>2. ss \in Seq(Seq(T)) /\ Len(ss) = N
  <2>1. ss = [a \in 1 .. N |-> ss[a]]
    OBVIOUS
  <2> HIDE DEF ss
  <2>2. ss \in [1 .. N -> Seq(T)]
    BY <1>1, <2>1
  <2>3. QED
    BY <2>2
<1> HIDE DEF ss
<1>3. PICK o : steps \in Seq(T) /\ FlatFrom(steps, ss, o, N)
  BY <1>2, FlattenIs
<1> HIDE DEF steps
<1>4. Offsets(o, ss, N) /\ N \in 0 .. Len(ss)
  BY <1>2, <1>3 DEF FlatFrom
<1> DEFINE C(a) == Len(Chunks(ps[a]))
           of == [i \in 1 .. Len(steps) |-> CHOOSE a \in 1 .. N : \E m \in 1 .. C(a) : i = o[a - 1] + m]
           index == [i \in 1 .. Len(steps) |-> i - o[of[i] - 1]]
<1>5. ASSUME NEW i \in 1 .. Len(steps)
      PROVE  /\ of[i] \in 1 .. N /\ index[i] \in 1 .. C(of[i]) /\ i = o[of[i] - 1] + index[i]
             /\ o[of[i] - 1] \in Nat
  <2>1. PICK a \in 1 .. N : \E m \in 1 .. Len(ss[a]) : i = o[a - 1] + m
    BY <1>3 DEF FlatFrom
  <2>2. \E m \in 1 .. C(a) : i = o[a - 1] + m
    BY <1>1, <2>1
  <2>3. of[i] \in 1 .. N /\ \E m \in 1 .. C(of[i]) : i = o[of[i] - 1] + m
    <3> HIDE DEF C
    <3>1. QED
      BY <2>2
  <2>4. index[i] = i - o[of[i] - 1]
    OBVIOUS
  <2> HIDE DEF of, index, C
  <2>5. o[of[i] - 1] \in Nat
    <3>1. of[i] - 1 \in 0 .. N
      BY <2>3
    <3>2. QED
      BY <1>4, <3>1 DEF Offsets
  <2>6. PICK m \in 1 .. C(of[i]) : i = o[of[i] - 1] + m
    BY <2>3
  <2>7. index[i] = m
    BY <2>4, <2>5, <2>6
  <2>8. QED
    BY <2>3, <2>5, <2>6, <2>7
<1> HIDE DEF of, index
<1>6. ASSUME NEW i \in 1 .. Len(steps)
      PROVE  steps[i] = StepRecord(ps[of[i]], index[i])
  <2>1. /\ of[i] \in 1 .. N /\ index[i] \in 1 .. Len(ss[of[i]]) /\ i = o[of[i] - 1] + index[i]
        /\ ss[of[i]][index[i]] = StepRecord(ps[of[i]], index[i])
    BY <1>1, <1>5
  <2>2. steps[o[of[i] - 1] + index[i]] = ss[of[i]][index[i]]
    BY <1>3, <2>1 DEF FlatFrom
  <2>3. QED
    BY <2>1, <2>2
<1>7. ASSUME NEW i \in 1 .. Len(steps), NEW j \in 1 .. Len(steps), of[i] = of[j]
      PROVE  (index[i] = index[j] => i = j) /\ (index[i] < index[j] => i < j)
  <2>1. /\ i = o[of[i] - 1] + index[i] /\ j = o[of[i] - 1] + index[j] /\ o[of[i] - 1] \in Nat
        /\ index[i] \in Nat /\ index[j] \in Nat
    BY <1>5, <1>7
  <2>2. QED
    BY <2>1
<1>8. ASSUME NEW a \in 1 .. N, NEW m \in 1 .. C(a)
      PROVE  \E i \in 1 .. Len(steps) : of[i] = a /\ index[i] = m
  <2> DEFINE i == o[a - 1] + m
  <2>1. i \in 1 .. Len(steps) /\ o[a - 1] \in Nat
    <3>1. /\ o \in [0 .. N -> Nat] /\ Len(steps) = o[N] /\ o[a] = o[a - 1] + Len(ss[a])
          /\ Len(ss[a]) = C(a)
      BY <1>1, <1>3, <1>4 DEF FlatFrom, Offsets
    <3>2. a \in 0 .. N /\ N \in a .. N /\ a - 1 \in 0 .. N
      OBVIOUS
    <3>3. o[a] <= o[N] /\ o[a] \in Nat /\ o[N] \in Nat
      BY <1>2, <1>4, <3>2, OffsetsRise
    <3>4. o[a - 1] \in Nat
      BY <3>1, <3>2
    <3>5. C(a) \in Nat
      BY <1>1
    <3>6. m \in Nat /\ 1 <= m /\ m <= C(a)
      BY <3>5
    <3> HIDE DEF C
    <3>7. QED
      BY <3>1, <3>3, <3>4, <3>5, <3>6
  <2>2. of[i] \in 1 .. N /\ index[i] \in 1 .. C(of[i]) /\ i = o[of[i] - 1] + index[i] /\ o[of[i] - 1] \in Nat
    BY <1>5, <2>1
  <2>3. /\ m \in 1 .. Len(ss[a]) /\ index[i] \in 1 .. Len(ss[of[i]])
        /\ m \in Nat \ {0} /\ index[i] \in Nat \ {0}
    <3>1. Len(ss[a]) = C(a) /\ Len(ss[of[i]]) = C(of[i]) /\ C(a) \in Nat /\ C(of[i]) \in Nat
      BY <1>1, <2>2
    <3> HIDE DEF i, C
    <3>2. QED
      BY <2>2, <3>1
  <2>4. o[a - 1] + m = o[of[i] - 1] + index[i]
    BY <2>2
  <2> HIDE DEF i, C
  <2>5. of[i] = a
    <3>1. CASE a < of[i]
      <4>1. of[i] \in a + 1 .. N
        BY <2>2, <3>1
      <4>2. o[a - 1] + m < o[of[i] - 1] + index[i]
        BY <1>2, <1>4, <2>3, <4>1, LaterParts
      <4>3. QED
        BY <2>1, <2>2, <2>3, <2>4, <4>2
    <3>2. CASE of[i] < a
      <4>1. a \in of[i] + 1 .. N
        BY <2>2, <3>2
      <4>2. o[of[i] - 1] + index[i] < o[a - 1] + m
        BY <1>2, <1>4, <2>2, <2>3, <4>1, LaterParts
      <4>3. QED
        BY <2>1, <2>2, <2>3, <2>4, <4>2
    <3>3. QED
      BY <2>2, <3>1, <3>2
  <2>6. index[i] = m
    BY <2>1, <2>2, <2>3, <2>4, <2>5
  <2>7. QED
    BY <2>1, <2>5, <2>6
<1>9. steps \in Seq({steps[i] : i \in 1 .. Len(steps)})
  <2> DEFINE R == {steps[i] : i \in 1 .. Len(steps)}
  <2>1. \A i \in 1 .. Len(steps) : steps[i] \in R
    OBVIOUS
  <2> HIDE DEF R
  <2>2. steps \in Seq(R)
    BY <1>3, <2>1, Retyped
  <2>3. QED
    BY <2>2 DEF R
<1>10. Steps(steps, of, index, ps)
  BY <1>5, <1>6, <1>7, <1>8, <1>9 DEF Steps
<1>11. FlattenSeq([a \in DOMAIN ps |-> StepsOf(ps[a])]) = steps
  BY DEF steps, ss
<1>12. QED
  BY <1>10, <1>11, Zenon

(* What a step of the n-th plan says of itself is so.                      *)
GoodStep(s, n) ==
  /\ s.opens \in BOOLEAN /\ s.creates = s.opens
  /\ s.account \in Accounts(n) /\ s.id[1] = s.account.address
  /\ s.opens => s.account.address[1] = n
  /\ DOMAIN s.dist \subseteq Bins /\ DOMAIN s.dist \subseteq BinsOf(s.account)
  /\ s.valid = ActiveBinBounds(s.dist)
  /\ s.fills => DOMAIN s.dist # {}

(* Steps are told apart by their ids and their tables, and a fill goes to  *)
(* a position held beforehand or opened by a step before it.               *)
GoodSteps(steps, held, n) ==
  /\ Len(steps) \in Nat /\ DOMAIN steps = 1 .. Len(steps)
  /\ \A i \in 1 .. Len(steps) : GoodStep(steps[i], n)
  /\ \A i, j \in 1 .. Len(steps) : steps[i].id = steps[j].id => i = j
  /\ \A i, j \in 1 .. Len(steps) :
       steps[i].opens /\ steps[j].opens /\ steps[i].account.address = steps[j].account.address
         => i = j
  /\ \A i \in 1 .. Len(steps) :
       \/ steps[i].opens
       \/ steps[i].account \in held
       \/ \E j \in 1 .. Len(steps) : /\ j < i /\ steps[j].opens
                                     /\ steps[j].account = steps[i].account
  /\ \A i, j \in 1 .. Len(steps) : i # j => DOMAIN steps[i].dist \cap DOMAIN steps[j].dist = {}

LEMMA StepIsGood ==
  ASSUME NEW n \in Nat \ {0}, NEW held \in SUBSET Accounts(n - 1), NEW p, Position(p, held, n),
         NEW m \in 1 .. Len(Chunks(p))
  PROVE  /\ GoodStep(StepRecord(p, m), n) /\ PartOf(StepRecord(p, m).dist, p.dist)
         /\ DOMAIN StepRecord(p, m).dist \subseteq BinsOf(p.spec)
<1> DEFINE s == StepRecord(p, m)
<1>1. /\ HasTable(p) /\ DOMAIN p.dist \subseteq BinsOf(p.spec) /\ p.exists \in BOOLEAN
      /\ DOMAIN p.dist \subseteq Bins
  BY DEF Position, HasTable
<1>2. PartOf(Chunks(p)[m], p.dist)
  BY <1>1, ChunksArePieces DEF Pieces
<1>3. /\ s.id = StepId(p, m) /\ s.opens = (~p.exists /\ m = 1) /\ s.creates = Creates(p, m)
      /\ s.account = p.account /\ s.dist = Chunks(p)[m]
      /\ s.fills = (Places(Chunks(p)[m], p.x, p.y) # {}) /\ s.valid = ActiveBinBounds(Chunks(p)[m])
  BY DEF StepRecord
<1> HIDE DEF s
<1>4. s.opens \in BOOLEAN /\ s.creates = s.opens
  BY <1>3 DEF Creates
<1>10. /\ p.account \in Accounts(n) /\ BinsOf(p.spec) \subseteq BinsOf(p.account)
       /\ ~p.exists => p.account = Account(<<n, p.spec.lower>>, p.spec)
  BY HomeHolds
<1>5. s.account \in Accounts(n) /\ s.id[1] = s.account.address
  <2>1. s.id = <<p.account.address, p.spec.lower, m>>
    BY <1>3 DEF StepId
  <2>2. QED
    BY <1>3, <1>10, <2>1
<1>6. s.opens => s.account.address[1] = n
  <2> SUFFICES ASSUME s.opens PROVE s.account.address[1] = n
    OBVIOUS
  <2>1. p.account = Account(<<n, p.spec.lower>>, p.spec)
    BY <1>3, <1>10
  <2>2. p.account.address = <<n, p.spec.lower>>
    BY <2>1 DEF Account
  <2>3. QED
    BY <1>3, <2>2
<1>7. /\ DOMAIN s.dist \subseteq Bins /\ DOMAIN s.dist \subseteq BinsOf(s.account)
      /\ DOMAIN s.dist \subseteq BinsOf(p.spec)
  BY <1>1, <1>2, <1>3, <1>10 DEF PartOf
<1>8. s.fills => DOMAIN s.dist # {}
  BY <1>3 DEF Places
<1>9. QED
  BY <1>2, <1>3, <1>4, <1>5, <1>6, <1>7, <1>8 DEF GoodStep, s

LEMMA StepsAreGood ==
  ASSUME NEW n \in Nat \ {0}, NEW held \in SUBSET Accounts(n - 1),
         NEW ps, NEW steps, NEW of, NEW index, Steps(steps, of, index, ps), Len(ps) \in Nat,
         \A a \in 1 .. Len(ps) : Position(ps[a], held, n),
         \A a, b \in 1 .. Len(ps) : a < b => ps[a].spec.upper < ps[b].spec.lower
  PROVE  GoodSteps(steps, held, n)
<1> DEFINE p(i) == ps[of[i]]
           L == Len(steps)
<1>1. L \in Nat /\ DOMAIN steps = 1 .. L
  BY DEF Steps
<1>2. \A i \in 1 .. L : /\ of[i] \in 1 .. Len(ps) /\ index[i] \in 1 .. Len(Chunks(p(i)))
                        /\ steps[i] = StepRecord(p(i), index[i])
  BY DEF Steps
<1> HIDE DEF L
<1>3. ASSUME NEW i \in 1 .. L
      PROVE  /\ Position(p(i), held, n)
             /\ GoodStep(steps[i], n) /\ PartOf(steps[i].dist, p(i).dist)
             /\ DOMAIN steps[i].dist \subseteq BinsOf(p(i).spec)
             /\ steps[i].id = StepId(p(i), index[i]) /\ steps[i].account = p(i).account
             /\ steps[i].opens = (~p(i).exists /\ index[i] = 1)
             /\ steps[i].dist = Chunks(p(i))[index[i]]
             /\ p(i).exists \in BOOLEAN
  <2>1. Position(p(i), held, n)
    BY <1>2
  <2>2. /\ GoodStep(steps[i], n) /\ PartOf(steps[i].dist, p(i).dist)
        /\ DOMAIN steps[i].dist \subseteq BinsOf(p(i).spec)
    BY <1>2, <2>1, StepIsGood
  <2>3. /\ steps[i].id = StepId(p(i), index[i]) /\ steps[i].account = p(i).account
        /\ steps[i].opens = (~p(i).exists /\ index[i] = 1)
        /\ steps[i].dist = Chunks(p(i))[index[i]]
    <3> HIDE DEF p
    <3>1. steps[i] = StepRecord(p(i), index[i])
      BY <1>2
    <3>2. \A q, m : /\ StepRecord(q, m).id = StepId(q, m) /\ StepRecord(q, m).account = q.account
                    /\ StepRecord(q, m).opens = (~q.exists /\ m = 1)
                    /\ StepRecord(q, m).dist = Chunks(q)[m]
      BY DEF StepRecord
    <3> DEFINE r == StepRecord(p(i), index[i])
    <3>3. /\ r.id = StepId(p(i), index[i]) /\ r.account = p(i).account
          /\ r.opens = (~p(i).exists /\ index[i] = 1)
          /\ r.dist = Chunks(p(i))[index[i]]
      BY <3>2
    <3>4. steps[i] = r
      BY <3>1
    <3> HIDE DEF r
    <3>5. QED
      BY ONLY <3>3, <3>4
  <2>4. QED
    BY <2>1, <2>2, <2>3 DEF Position, HasTable
<1>4. ASSUME NEW a \in 1 .. Len(ps), NEW b \in 1 .. Len(ps), a # b
      PROVE  ps[a].spec.lower # ps[b].spec.lower /\ BinsOf(ps[a].spec) \cap BinsOf(ps[b].spec) = {}
  <2>1. /\ ps[a].spec.lower \in Nat /\ ps[a].spec.upper \in Nat
        /\ ps[a].spec.lower <= ps[a].spec.upper
        /\ ps[b].spec.lower \in Nat /\ ps[b].spec.upper \in Nat
        /\ ps[b].spec.lower <= ps[b].spec.upper
    BY BinsBounded DEF Position
  <2>2. ps[a].spec.upper < ps[b].spec.lower \/ ps[b].spec.upper < ps[a].spec.lower
    BY <1>4
  <2>3. \A l, u, k, v \in Nat : l <= u /\ k <= v /\ (u < k \/ v < l) =>
                                  l # k /\ (l .. u) \cap (k .. v) = {}
    OBVIOUS
  <2>4. QED
    BY <2>1, <2>2, <2>3, Zenon DEF BinsOf
<1>5. ASSUME NEW i \in 1 .. L, NEW j \in 1 .. L, p(i).spec.lower = p(j).spec.lower
      PROVE  of[i] = of[j]
  BY <1>2, <1>4, <1>5
<1>6. ASSUME NEW i \in 1 .. L, NEW j \in 1 .. L, of[i] = of[j], index[i] = index[j]
      PROVE  i = j
  BY <1>6 DEF Steps, L
<1>7. ASSUME NEW i \in 1 .. L, NEW j \in 1 .. L, steps[i].id = steps[j].id
      PROVE  i = j
  <2>1. p(i).spec.lower = p(j).spec.lower /\ index[i] = index[j]
    BY <1>3, <1>7 DEF StepId
  <2>2. QED
    BY <1>5, <1>6, <2>1
<1>8. ASSUME NEW i \in 1 .. L, NEW j \in 1 .. L, steps[i].opens, steps[j].opens,
             steps[i].account.address = steps[j].account.address
      PROVE  i = j
  <2>1. /\ ~p(i).exists /\ ~p(j).exists /\ index[i] = 1 /\ index[j] = 1
        /\ p(i).account.address = p(j).account.address
    BY <1>3, <1>8
  <2>2. /\ p(i).account = Account(<<n, p(i).spec.lower>>, p(i).spec)
        /\ p(j).account = Account(<<n, p(j).spec.lower>>, p(j).spec)
    <3> HIDE DEF p
    <3>1. Position(p(i), held, n) /\ Position(p(j), held, n)
      BY <1>3
    <3>2. QED
      BY <2>1, <3>1, HomeHolds
  <2>3. p(i).spec.lower = p(j).spec.lower
    BY <2>1, <2>2 DEF Account
  <2>4. QED
    BY <1>5, <1>6, <2>1, <2>3
<1>9. ASSUME NEW i \in 1 .. L, ~steps[i].opens, steps[i].account \notin held
      PROVE  \E j \in 1 .. L : j < i /\ steps[j].opens /\ steps[j].account = steps[i].account
  <2>1. ~p(i).exists
    <3> HIDE DEF p
    <3>1. QED
      BY <1>3, <1>9, HomeHolds
  <2>2. index[i] # 1
    BY <1>3, <1>9, <2>1
  <2>3. Len(Chunks(p(i))) \in Nat
    BY <1>3, ChunksArePieces DEF Position, Pieces
  <2>4. 1 \in 1 .. Len(Chunks(p(i))) /\ 1 < index[i]
    BY <1>2, <2>2, <2>3
  <2>5. PICK j \in 1 .. L : of[j] = of[i] /\ index[j] = 1
    <3>1. of[i] \in 1 .. Len(ps) /\ 1 \in 1 .. Len(Chunks(ps[of[i]]))
      BY <1>2, <2>4
    <3>2. \A a \in 1 .. Len(ps) : \A m \in 1 .. Len(Chunks(ps[a])) :
            \E j \in 1 .. L : of[j] = a /\ index[j] = m
      BY Zenon DEF Steps, L
    <3>3. QED
      BY <3>1, <3>2, Zenon
  <2>6. j < i
    BY <2>4, <2>5 DEF Steps, L
  <2>7. steps[j].opens /\ steps[j].account = steps[i].account
    <3>1. p(j) = p(i) /\ index[j] = 1
      BY <2>5
    <3> HIDE DEF p
    <3>2. ~p(j).exists
      BY <2>1, <3>1
    <3>3. steps[j].opens
      BY <1>3, <3>1, <3>2, Zenon
    <3>4. steps[j].account = steps[i].account
      <4>1. steps[j].account = p(j).account /\ steps[i].account = p(i).account
        BY <1>3
      <4>2. QED
        BY ONLY <3>1, <4>1
    <3>5. QED
      BY <3>3, <3>4
  <2>8. QED
    BY <2>6, <2>7
<1>10. ASSUME NEW i \in 1 .. L, NEW j \in 1 .. L, i # j
       PROVE  DOMAIN steps[i].dist \cap DOMAIN steps[j].dist = {}
  <2>1. CASE of[i] # of[j]
    BY <1>2, <1>3, <1>4, <2>1
  <2>2. CASE of[i] = of[j]
    <3>1. index[i] # index[j] /\ index[j] \in 1 .. Len(Chunks(p(i))) /\ p(j) = p(i)
      BY <1>2, <1>6, <1>10, <2>2
    <3>2. Pieces(Chunks(p(i)), p(i)) /\ Len(Chunks(p(i))) \in Nat
      <4> HIDE DEF p
      <4>1. HasTable(p(i))
        BY <1>3 DEF Position
      <4>2. Pieces(Chunks(p(i)), p(i))
        BY <4>1, ChunksArePieces
      <4>3. QED
        BY <4>2 DEF Pieces
    <3>3. steps[i].dist = Chunks(p(i))[index[i]] /\ steps[j].dist = Chunks(p(i))[index[j]]
      BY <1>3, <3>1
    <3>4. index[i] < index[j] \/ index[j] < index[i]
      BY <1>2, <3>1, <3>2
    <3>5. QED
      BY <1>2, <3>1, <3>2, <3>3, <3>4 DEF Pieces
  <2>3. QED
    BY <2>1, <2>2
<1>11. QED
  BY <1>1, <1>3, <1>7, <1>8, <1>9, <1>10 DEF GoodSteps, L

-----------------------------------------------------------------------------
(***************************************************************************)
(* What one call per position would place, and what the steps place of it. *)
(***************************************************************************)
Zero == [x |-> 0, y |-> 0]
Row(p, b) == [x |-> (p.x * p.dist[b].x) \div One, y |-> (p.y * p.dist[b].y) \div One]
Here(ps, b) == {i \in DOMAIN ps : b \in DOMAIN ps[i].dist}
OneCall(ps, b) ==
  [x |-> Total([i \in Here(ps, b) |-> Preview(ps[i].dist, ps[i].x, ps[i].y)[b].x]),
   y |-> Total([i \in Here(ps, b) |-> Preview(ps[i].dist, ps[i].x, ps[i].y)[b].y])]

(* The positions' tables share no bin.                                     *)
Apart(ps) ==
  \A i, j \in DOMAIN ps : i # j => DOMAIN ps[i].dist \cap DOMAIN ps[j].dist = {}

LEMMA PositionsCount ==
  ASSUME NEW req \in Requests, NEW at \in Bins, NEW held, NEW n, NEW ps, NEW k,
         Positions(ps, k, req, at, held, n)
  PROVE  (\A a \in 1 .. Len(ps) : HasTable(ps[a]) /\ Counted(ps[a])) /\ Apart(ps)
<1>1. /\ Len(ps) \in Nat /\ DOMAIN ps = 1 .. Len(ps)
      /\ \A a \in 1 .. Len(ps) : Position(ps[a], held, n)
      /\ \A a, b \in 1 .. Len(ps) : a < b => ps[a].spec.upper < ps[b].spec.lower
  BY PositionsApart
<1>2. \A a \in 1 .. Len(ps) : HasTable(ps[a]) /\ Counted(ps[a])
  <2>1. \A a \in 1 .. Len(ps) : /\ k[a] \in 1 .. Len(SplitRange(req))
                                /\ ps[a] = Draft(req, at, held, n, k[a])
    BY DEF Positions
  <2>2. QED
    BY <1>1, <2>1, DraftIsCounted DEF Position
<1>3. Apart(ps)
  <2> SUFFICES ASSUME NEW i \in 1 .. Len(ps), NEW j \in 1 .. Len(ps), i < j
               PROVE  DOMAIN ps[i].dist \cap DOMAIN ps[j].dist = {}
    BY <1>1 DEF Apart
  <2>1. ps[i].spec.upper < ps[j].spec.lower
    BY <1>1
  <2>2. /\ ps[i].spec.lower \in Nat /\ ps[i].spec.upper \in Nat
        /\ ps[j].spec.lower \in Nat /\ ps[j].spec.upper \in Nat
        /\ DOMAIN ps[i].dist \subseteq BinsOf(ps[i].spec)
        /\ DOMAIN ps[j].dist \subseteq BinsOf(ps[j].spec)
    BY <1>1, BinsBounded DEF Position
  <2>3. \A l, u, a, b \in Nat : u < a => (l .. u) \cap (a .. b) = {}
    OBVIOUS
  <2>4. BinsOf(ps[i].spec) \cap BinsOf(ps[j].spec) = {}
    BY <2>1, <2>2, <2>3 DEF BinsOf
  <2>5. QED
    BY <2>2, <2>4
<1>4. QED
  BY <1>2, <1>3

LEMMA PreviewIs ==
  ASSUME NEW p, NEW b \in DOMAIN p.dist
  PROVE  Preview(p.dist, p.x, p.y)[b] = Row(p, b)
BY DEF Preview, Row

LEMMA RowIsNat ==
  ASSUME NEW p, Counted(p), NEW b \in DOMAIN p.dist
  PROVE  Row(p, b) \in [x : Nat, y : Nat]
<1>1. p.x \in Nat /\ p.y \in Nat /\ p.dist[b].x \in Nat /\ p.dist[b].y \in Nat /\ One \in Nat \ {0}
  BY ShapeAssumption DEF Counted
<1>2. \A u, v \in Nat, d \in Nat \ {0} : (u * v) \div d \in Nat
  <2>1. \A u, v \in Nat : u * v \in Nat
    OBVIOUS
  <2>2. QED
    BY <2>1, Division
<1>3. (p.x * p.dist[b].x) \div One \in Nat /\ (p.y * p.dist[b].y) \div One \in Nat
  BY <1>1, <1>2
<1>4. QED
  BY <1>3 DEF Row

LEMMA OneCallIsRow ==
  ASSUME NEW ps, Apart(ps), \A i \in DOMAIN ps : Counted(ps[i])
  PROVE  /\ \A i \in DOMAIN ps : \A b \in DOMAIN ps[i].dist : OneCall(ps, b) = Row(ps[i], b)
         /\ \A b : Here(ps, b) = {} => OneCall(ps, b) = Zero
         /\ \A b : OneCall(ps, b) \in [x : Nat, y : Nat]
<1> DEFINE X(b) == [i \in Here(ps, b) |-> Preview(ps[i].dist, ps[i].x, ps[i].y)[b].x]
           Y(b) == [i \in Here(ps, b) |-> Preview(ps[i].dist, ps[i].x, ps[i].y)[b].y]
<1>1. \A b : OneCall(ps, b) = [x |-> Total(X(b)), y |-> Total(Y(b))]
  BY Zenon DEF OneCall
<1>2. ASSUME NEW i \in DOMAIN ps, NEW b \in DOMAIN ps[i].dist
      PROVE  OneCall(ps, b) = Row(ps[i], b)
  <2>1. Here(ps, b) = {i}
    BY DEF Here, Apart
  <2>2. Preview(ps[i].dist, ps[i].x, ps[i].y)[b] = Row(ps[i], b)
    BY PreviewIs
  <2>3. Row(ps[i], b) \in [x : Nat, y : Nat]
    BY RowIsNat
  <2>4. /\ DOMAIN X(b) = {i} /\ X(b)[i] = Row(ps[i], b).x
        /\ DOMAIN Y(b) = {i} /\ Y(b)[i] = Row(ps[i], b).y
    BY <2>1, <2>2
  <2> HIDE DEF X, Y
  <2>5. Row(ps[i], b).x \in Nat /\ Row(ps[i], b).y \in Nat
    BY <2>3
  <2>6. Total(X(b)) = Row(ps[i], b).x /\ Total(Y(b)) = Row(ps[i], b).y
    BY <2>4, <2>5, TotalOfOne
  <2>7. Row(ps[i], b) = [x |-> Row(ps[i], b).x, y |-> Row(ps[i], b).y]
    BY <2>3
  <2>8. QED
    BY <1>1, <2>6, <2>7
<1>3. ASSUME NEW b, Here(ps, b) = {}
      PROVE  OneCall(ps, b) = Zero
  <2>1. DOMAIN X(b) = {} /\ DOMAIN Y(b) = {}
    BY <1>3
  <2> HIDE DEF X, Y
  <2>2. Total(X(b)) = 0 /\ Total(Y(b)) = 0
    BY <2>1, TotalOfNone
  <2>3. QED
    BY <1>1, <2>2 DEF Zero
<1>4. ASSUME NEW b PROVE OneCall(ps, b) \in [x : Nat, y : Nat]
  <2>1. CASE Here(ps, b) = {}
    BY <1>3, <2>1 DEF Zero
  <2>2. CASE Here(ps, b) # {}
    <3>1. PICK i \in DOMAIN ps : b \in DOMAIN ps[i].dist
      BY <2>2 DEF Here
    <3>2. QED
      BY <1>2, <3>1, RowIsNat
  <2>3. QED
    BY <2>1, <2>2
<1>5. QED
  BY <1>2, <1>3, <1>4

(* A step places of each of its bins what one call would; a bin no step    *)
(* has would get nothing from the call either.                             *)
GoodRows(steps, ps) ==
  /\ \A i \in 1 .. Len(steps) : \A b \in DOMAIN steps[i].dist :
       Row(steps[i], b) = OneCall(ps, b)
  /\ \A b : (\A i \in 1 .. Len(steps) : b \notin DOMAIN steps[i].dist) => OneCall(ps, b) = Zero
  /\ \A b : OneCall(ps, b) \in [x : Nat, y : Nat]

LEMMA RowsAreGood ==
  ASSUME NEW steps, NEW of, NEW index, NEW ps, Steps(steps, of, index, ps),
         DOMAIN ps = 1 .. Len(ps), Apart(ps),
         \A a \in 1 .. Len(ps) : HasTable(ps[a]) /\ Counted(ps[a])
  PROVE  GoodRows(steps, ps)
<1>1. /\ \A a \in 1 .. Len(ps) : \A b \in DOMAIN ps[a].dist : OneCall(ps, b) = Row(ps[a], b)
      /\ \A b : Here(ps, b) = {} => OneCall(ps, b) = Zero
      /\ \A b : OneCall(ps, b) \in [x : Nat, y : Nat]
  BY OneCallIsRow
<1>2. ASSUME NEW i \in 1 .. Len(steps), NEW b \in DOMAIN steps[i].dist
      PROVE  Row(steps[i], b) = OneCall(ps, b)
  <2> DEFINE p == ps[of[i]]
             m == index[i]
  <2>1. of[i] \in 1 .. Len(ps) /\ m \in 1 .. Len(Chunks(p)) /\ steps[i] = StepRecord(p, m)
    BY DEF Steps
  <2>2. HasTable(p) /\ Counted(p)
    BY <2>1
  <2> HIDE DEF p, m
  <2>3. steps[i].dist = Chunks(p)[m] /\ steps[i].x = p.x /\ steps[i].y = p.y
    BY <2>1 DEF StepRecord
  <2>4. PartOf(Chunks(p)[m], p.dist)
    BY <2>1, <2>2, ChunksArePieces DEF Pieces
  <2>5. b \in DOMAIN p.dist /\ steps[i].dist[b] = p.dist[b]
    BY <2>3, <2>4 DEF PartOf
  <2>6. Row(steps[i], b) = Row(p, b)
    BY <2>3, <2>5 DEF Row
  <2>7. QED
    BY <1>1, <2>1, <2>5, <2>6 DEF p
<1>3. ASSUME NEW b, \A i \in 1 .. Len(steps) : b \notin DOMAIN steps[i].dist
      PROVE  OneCall(ps, b) = Zero
  <2>1. CASE Here(ps, b) = {}
    BY <1>1, <2>1
  <2>2. CASE Here(ps, b) # {}
    <3>1. PICK a \in 1 .. Len(ps) : b \in DOMAIN ps[a].dist
      BY <2>2 DEF Here
    <3>2. HasTable(ps[a])
      OBVIOUS
    <3>3. b \notin Places(ps[a].dist, ps[a].x, ps[a].y)
      <4> SUFFICES ASSUME b \in Places(ps[a].dist, ps[a].x, ps[a].y) PROVE FALSE
        OBVIOUS
      <4>1. PICK m \in 1 .. Len(Chunks(ps[a])) : b \in DOMAIN Chunks(ps[a])[m]
        BY <3>2, ChunksArePieces DEF Pieces
      <4>2. PICK i \in 1 .. Len(steps) : of[i] = a /\ index[i] = m
        BY Zenon DEF Steps
      <4>3. steps[i] = StepRecord(ps[a], m)
        BY <4>2 DEF Steps
      <4>4. steps[i].dist = Chunks(ps[a])[m]
        BY <4>3 DEF StepRecord
      <4>5. QED
        BY <1>3, <4>1, <4>4
    <3>4. Preview(ps[a].dist, ps[a].x, ps[a].y)[b] = Zero
      BY <3>1, <3>3 DEF Places, Zero
    <3>5. QED
      BY <1>1, <3>1, <3>4, PreviewIs
  <2>3. QED
    BY <2>1, <2>2
<1>4. QED
  BY <1>1, <1>2, <1>3 DEF GoodRows

(* What the plan is.                                                       *)
GoodPlan(pl, held, n) == GoodSteps(pl.steps, held, n) /\ GoodRows(pl.steps, pl.positions)

LEMMA PlanIsGood ==
  ASSUME NEW req \in Requests, NEW at \in Bins, NEW n \in Nat \ {0},
         NEW held \in SUBSET Accounts(n - 1)
  PROVE  GoodPlan(PlanDeposit(req, at, held, n), held, n)
<1> DEFINE ps == PositionPlans(req, at, held, n)
           steps == FlattenSeq([a \in DOMAIN ps |-> StepsOf(ps[a])])
           pl == PlanDeposit(req, at, held, n)
<1>1. pl.positions = ps /\ pl.steps = steps
  BY DEF PlanDeposit, PlanOf
<1>2. PICK k : Positions(ps, k, req, at, held, n)
  BY PlansAreDrafts
<1> HIDE DEF ps, pl
<1>3. /\ Len(ps) \in Nat /\ DOMAIN ps = 1 .. Len(ps)
      /\ \A a \in 1 .. Len(ps) : Position(ps[a], held, n)
      /\ \A a, b \in 1 .. Len(ps) : a < b => ps[a].spec.upper < ps[b].spec.lower
  BY <1>2, PositionsApart
<1>4. (\A a \in 1 .. Len(ps) : HasTable(ps[a]) /\ Counted(ps[a])) /\ Apart(ps)
  BY <1>2, PositionsCount
<1>6. PICK of, index : Steps(steps, of, index, ps)
  BY <1>3, <1>4, PlanSteps
<1> HIDE DEF steps
<1>7. GoodSteps(steps, held, n)
  BY <1>3, <1>6, StepsAreGood
<1>8. GoodRows(steps, ps)
  BY <1>3, <1>4, <1>6, RowsAreGood
<1>9. QED
  BY <1>1, <1>7, <1>8 DEF GoodPlan, pl

-----------------------------------------------------------------------------
(***************************************************************************)
(* The runner: what the chain and the runner's memory have to do with the  *)
(* plan it is at.                                                          *)
(***************************************************************************)
StepNumbers == 1 .. Len(plan.steps)
InPlan(d) == \E i \in StepNumbers : d = plan.steps[i]
OpenedBy(p) == \E i \in StepNumbers : plan.steps[i].opens /\ p = plan.steps[i].account

(* The plan was made for this deposit, from positions that are still there.*)
PlanInv ==
  /\ plans \in Nat \ {0} /\ request \in Requests /\ active \in Bins
  /\ opened \subseteq Accounts(plans)
  /\ \E held \in SUBSET Accounts(plans - 1) : held \subseteq opened /\ GoodPlan(plan, held, plans)

(* A step the runner remembers or has given up on is this plan's, or its   *)
(* account is an earlier plan's; a remembered opening has opened, and what *)
(* was opened at this plan's addresses one of its steps opened.            *)
MemoryInv ==
  /\ \A d \in done \cup late :
       /\ d.account \in Accounts(plans) /\ d.id[1] = d.account.address
       /\ d.account.address[1] = plans => InPlan(d)
  /\ \A d \in done : d.opens => d.account \in opened
  /\ \A p \in opened : p.address[1] = plans => OpenedBy(p)

LandedInv == sent = "landed" /\ Left # {} /\ Current.opens => Current.account \in opened

RunnerInv == PlanInv /\ MemoryInv /\ LandedInv

LEMMA CurrentIs ==
  ASSUME PlanInv, Left # {}
  PROVE  /\ Min(Left) \in StepNumbers /\ Min(Left) \in Left /\ Current = plan.steps[Min(Left)]
         /\ ~Remembered(Current) /\ GoodStep(Current, plans)
         /\ \A j \in StepNumbers : j < Min(Left) => Remembered(plan.steps[j])
<1>1. PICK held : GoodSteps(plan.steps, held, plans)
  BY DEF PlanInv, GoodPlan
<1>2. Len(plan.steps) \in Nat /\ DOMAIN plan.steps = StepNumbers
  BY <1>1 DEF GoodSteps, StepNumbers
<1>3. Left \in SUBSET Nat /\ Left \subseteq StepNumbers
  BY <1>2 DEF Left, StepNumbers
<1>4. Min(Left) \in Left /\ \A y \in Left : Min(Left) <= y
  BY <1>3, MinIsLeast
<1>5. Current = plan.steps[Min(Left)]
  BY DEF Current
<1>6. ~Remembered(plan.steps[Min(Left)])
  BY <1>4 DEF Left
<1>7. GoodStep(Current, plans)
  BY <1>1, <1>3, <1>4, <1>5 DEF GoodSteps, StepNumbers
<1>8. ASSUME NEW j \in StepNumbers, j < Min(Left)
      PROVE  Remembered(plan.steps[j])
  <2> SUFFICES ASSUME ~Remembered(plan.steps[j]) PROVE FALSE
    OBVIOUS
  <2>1. j \in Left
    BY <1>2 DEF Left
  <2>2. Min(Left) <= j /\ j \in Nat /\ Min(Left) \in Nat
    BY <1>3, <1>4, <2>1
  <2>3. QED
    BY <1>8, <2>2
<1>9. QED
  BY <1>3, <1>4, <1>5, <1>6, <1>7, <1>8

(* What a step of the plan opens is not mistaken for another's.            *)
LEMMA WitnessIsIt ==
  ASSUME PlanInv, MemoryInv, Left # {}, Current.opens, Exists(Current.account)
  PROVE  Current.account \in opened
<1>1. PICK held : GoodSteps(plan.steps, held, plans)
  BY DEF PlanInv, GoodPlan
<1>2. PICK p \in opened : p.address = Current.account.address
  BY DEF Exists
<1>3. GoodStep(Current, plans) /\ Min(Left) \in StepNumbers /\ Current = plan.steps[Min(Left)]
  BY CurrentIs
<1>4. p.address[1] = plans
  BY <1>2, <1>3 DEF GoodStep
<1>5. PICK i \in StepNumbers : plan.steps[i].opens /\ p = plan.steps[i].account
  BY <1>4 DEF MemoryInv, OpenedBy
<1>6. i = Min(Left)
  BY <1>1, <1>2, <1>3, <1>5 DEF GoodSteps, StepNumbers
<1>7. QED
  BY <1>3, <1>5, <1>6

(* A remembered opening step of the plan has opened its account.           *)
LEMMA RememberedHasOpened ==
  ASSUME PlanInv, MemoryInv, NEW j \in StepNumbers, plan.steps[j].opens,
         Remembered(plan.steps[j])
  PROVE  plan.steps[j].account \in opened
<1>1. PICK held : GoodSteps(plan.steps, held, plans)
  BY DEF PlanInv, GoodPlan
<1>2. PICK d \in done : d.id = plan.steps[j].id
  BY DEF Remembered
<1>3. GoodStep(plan.steps[j], plans)
  BY <1>1 DEF GoodSteps, StepNumbers
<1>4. d.account.address[1] = plans
  BY <1>2, <1>3 DEF MemoryInv, GoodStep
<1>5. PICK i \in StepNumbers : d = plan.steps[i]
  BY <1>4 DEF MemoryInv, InPlan
<1>6. i = j
  BY <1>1, <1>2, <1>5 DEF GoodSteps, StepNumbers
<1>7. QED
  BY <1>5, <1>6 DEF MemoryInv

LEMMA LeastOfTable ==
  ASSUME NEW S \in SUBSET Bins, NEW a \in S
  PROVE  /\ Min(S) \in S /\ Max(S) \in S /\ Min(S) <= a /\ a <= Max(S)
         /\ Min(S) \in Nat /\ Max(S) \in Nat
<1>1. S \in SUBSET Nat /\ S \in SUBSET (0 .. MaxBin) /\ MaxBin \in Nat /\ S # {}
  BY BinsBounded
<1>2. Min(S) \in S /\ Min(S) <= a
  BY <1>1, MinIsLeast
<1>3. Max(S) \in S /\ Max(S) >= a
  BY <1>1, MaxIsGreatest
<1>4. Min(S) \in Nat /\ Max(S) \in Nat /\ a \in Nat
  BY <1>1, <1>2, <1>3
<1>5. QED
  BY <1>2, <1>3, <1>4

(* A legal step is accepted.                                               *)
LEMMA RunnerIsAccepted ==
  ASSUME RunnerInv
  PROVE  LegalIsAccepted
<1> SUFFICES ASSUME ReadyToSend PROVE Accepted(Current)
  BY DEF LegalIsAccepted
<1>1. PICK held : held \subseteq opened /\ GoodSteps(plan.steps, held, plans)
  BY DEF RunnerInv, PlanInv, GoodPlan
<1>2. Left # {} /\ ~Witnessed /\ StepIsLegal(Current, active) /\ active \in Nat
  BY BinsBounded DEF ReadyToSend, AtStep, RunnerInv, PlanInv
<1>3. /\ Min(Left) \in StepNumbers /\ Current = plan.steps[Min(Left)] /\ GoodStep(Current, plans)
      /\ \A j \in StepNumbers : j < Min(Left) => Remembered(plan.steps[j])
  BY <1>2, CurrentIs DEF RunnerInv
<1> DEFINE s == Current
           dist == s.dist
<1> HIDE DEF s
<1>4. IF s.opens THEN ~Exists(s.account) ELSE s.account \in opened
  <2>1. CASE s.opens
    BY <1>2, <1>3, <2>1 DEF GoodStep, Witnessed, s
  <2>2. CASE ~s.opens
    <3>1. \/ s.account \in held
          \/ \E j \in StepNumbers : j < Min(Left) /\ plan.steps[j].opens
                                    /\ plan.steps[j].account = s.account
      BY <1>1, <1>3, <2>2 DEF GoodSteps, StepNumbers, s
    <3>2. QED
      BY <1>1, <1>3, <2>2, <3>1, RememberedHasOpened DEF RunnerInv
  <2>3. QED
    BY <2>1, <2>2
<1>5. /\ DOMAIN dist \subseteq Bins /\ DOMAIN dist \subseteq BinsOf(s.account)
      /\ s.valid = ActiveBinBounds(dist) /\ s.account \in Accounts(plans)
      /\ s.fills => DOMAIN dist # {}
  BY <1>3 DEF GoodStep, s
<1>6. s.fills => Table(s) \subseteq BinsOf(s.account)
  <2> SUFFICES ASSUME s.fills PROVE Table(s) \subseteq BinsOf(s.account)
    OBVIOUS
  <2> DEFINE D == DOMAIN dist
  <2>1. Min(D) \in D /\ Max(D) \in D /\ Min(D) \in Nat /\ Max(D) \in Nat
    BY <1>5, LeastOfTable
  <2>2. Min(D) \in BinsOf(s.account) /\ Max(D) \in BinsOf(s.account)
    BY <1>5, <2>1
  <2>3. s.account.lower \in Nat /\ s.account.upper \in Nat
    BY <1>5, BinsBounded DEF Accounts
  <2>4. \A l, u, a, b \in Nat : a \in l .. u /\ b \in l .. u => (a .. b) \subseteq (l .. u)
    OBVIOUS
  <2>5. (Min(D) .. Max(D)) \subseteq (s.account.lower .. s.account.upper)
    BY <2>1, <2>2, <2>3, <2>4 DEF BinsOf
  <2>6. QED
    BY <2>5, Zenon DEF Table, BinsOf
<1>7. ASSUME NEW b \in DOMAIN dist
      PROVE  (dist[b].x > 0 => b >= active) /\ (dist[b].y > 0 => b <= active)
  <2> DEFINE xs == {c \in DOMAIN dist : dist[c].x > 0}
             ys == {c \in DOMAIN dist : dist[c].y > 0}
  <2>1. /\ s.valid.min = IF ys = {} THEN MinBin ELSE Max(ys)
        /\ s.valid.max = IF xs = {} THEN MaxBin ELSE Min(xs)
    BY <1>5 DEF ActiveBinBounds
  <2>2. s.valid.min <= active /\ active <= s.valid.max
    BY <1>2 DEF StepIsLegal, s
  <2>3. xs \in SUBSET Bins /\ ys \in SUBSET Bins /\ b \in Nat
    BY <1>5, BinsBounded
  <2>4. b \in xs => b >= active
    <3> HIDE DEF xs, ys
    <3>1. QED
      BY <1>2, <2>1, <2>2, <2>3, LeastOfTable
  <2>5. b \in ys => b <= active
    <3> HIDE DEF xs, ys
    <3>1. QED
      BY <1>2, <2>1, <2>2, <2>3, LeastOfTable
  <2>6. QED
    BY <2>4, <2>5
<1>8. Accepted(s)
  BY <1>4, <1>6, <1>7 DEF Accepted
<1>9. QED
  BY <1>8 DEF s

LEMMA RunnerStarts == Init => RunnerInv
<1> SUFFICES ASSUME Init PROVE RunnerInv
  OBVIOUS
<1>1. /\ active \in Bins /\ request \in Requests /\ plans = 1 /\ done = {} /\ late = {} /\ sent = "none"
      /\ plan = PlanDeposit(request, active, opened, 1)
  BY DEF Init
<1>2. PICK H \in Holdings : opened = Held(H)
  BY DEF Init
<1>3. H \subseteq [lower : Bins, upper : Bins]
  BY DepositAssumption
<1>4. opened \subseteq Accounts(0)
  <2> SUFFICES ASSUME NEW b \in H PROVE Account(<<0, b.lower>>, b) \in Accounts(0)
    BY <1>2 DEF Held
  <2>1. b.lower \in Bins /\ b.upper \in Bins
    BY <1>3
  <2>2. <<0, b.lower>> \in (0 .. 0) \X Bins
    BY <2>1
  <2>3. QED
    BY <2>1, <2>2 DEF Account, Accounts
<1>5. GoodPlan(plan, opened, 1)
  <2>1. 1 - 1 = 0 /\ 1 \in Nat \ {0}
    OBVIOUS
  <2>2. opened \in SUBSET Accounts(1 - 1)
    BY <1>4, <2>1
  <2>3. QED
    BY <1>1, <2>1, <2>2, PlanIsGood
<1>6. \A p \in opened : p \in Accounts(1) /\ p.address[1] # 1
  <2> SUFFICES ASSUME NEW p \in opened PROVE p \in Accounts(1) /\ p.address[1] # 1
    OBVIOUS
  <2>1. p \in Accounts(0)
    BY <1>4
  <2>2. p.address[1] \in 0 .. 0 /\ (0 .. 0) \subseteq (0 .. 1)
    BY <2>1 DEF Accounts
  <2>3. p \in Accounts(1)
    BY <2>1, <2>2 DEF Accounts
  <2>4. QED
    BY <2>2, <2>3
<1>7. PlanInv
  <2>1. plans - 1 = 0 /\ plans \in Nat \ {0}
    BY <1>1
  <2>2. opened \in SUBSET Accounts(plans - 1)
    BY <1>4, <2>1
  <2>3. opened \subseteq Accounts(plans)
    BY <1>1, <1>6
  <2>4. GoodPlan(plan, opened, plans)
    BY <1>1, <1>5
  <2>5. QED
    BY <1>1, <2>1, <2>2, <2>3, <2>4 DEF PlanInv
<1>8. MemoryInv
  BY <1>1, <1>6 DEF MemoryInv
<1>9. LandedInv
  BY <1>1 DEF LandedInv
<1>10. QED
  BY <1>7, <1>8, <1>9 DEF RunnerInv

(* As long as it is the same plan, the invariant is kept by a step that    *)
(* opens only what one of the plan's opening steps opens, remembers only   *)
(* steps of the plan, and remembers an opening only once it has opened.    *)
LEMMA SamePlan ==
  ASSUME RunnerInv, plan' = plan, plans' = plans, request' = request, active' \in Bins,
         opened \subseteq opened',
         \A p \in opened' : p \in opened \/ (p \in Accounts(plans) /\ (p.address[1] = plans => OpenedBy(p))),
         \A d \in done' \cup late' : d \in done \cup late \/ InPlan(d),
         \A d \in done' : d.opens => d.account \in opened',
         LandedInv'
  PROVE  RunnerInv'
<1>1. PICK held \in SUBSET Accounts(plans - 1) : held \subseteq opened /\ GoodPlan(plan, held, plans)
  BY DEF RunnerInv, PlanInv
<1>2. held \subseteq opened' /\ GoodPlan(plan', held, plans') /\ held \in SUBSET Accounts(plans' - 1)
  BY <1>1
<1>3. opened' \subseteq Accounts(plans')
  BY DEF RunnerInv, PlanInv
<1>4. PlanInv'
  <2>1. plans' \in Nat \ {0} /\ request' \in Requests
    BY DEF RunnerInv, PlanInv
  <2>2. QED
    BY <1>2, <1>3, <2>1 DEF PlanInv
<1>5. \A d : InPlan(d) => InPlan(d)'
  BY DEF InPlan, StepNumbers
<1>6. \A p : OpenedBy(p) => OpenedBy(p)'
  BY DEF OpenedBy, StepNumbers
<1>7. ASSUME NEW d \in done' \cup late'
      PROVE  /\ d.account \in Accounts(plans') /\ d.id[1] = d.account.address
             /\ d.account.address[1] = plans' => InPlan(d)'
  <2>1. CASE d \in done \cup late
    BY <1>5, <2>1 DEF RunnerInv, MemoryInv
  <2>2. CASE InPlan(d)
    <3>1. PICK i \in StepNumbers : d = plan.steps[i]
      BY <2>2 DEF InPlan
    <3>2. GoodStep(d, plans)
      BY <1>1, <3>1 DEF GoodPlan, GoodSteps, StepNumbers
    <3>3. QED
      BY <1>5, <2>2, <3>2 DEF GoodStep
  <2>3. QED
    BY <2>1, <2>2
<1>8. \A p \in opened' : p.address[1] = plans' => OpenedBy(p)'
  BY <1>6 DEF RunnerInv, MemoryInv
<1>9. MemoryInv'
  BY <1>7, <1>8 DEF MemoryInv
<1>10. QED
  BY <1>4, <1>9 DEF RunnerInv

LEMMA SameCurrent ==
  ASSUME done' = done, plan' = plan
  PROVE  Left' = Left /\ Current' = Current
BY DEF Left, Current, Remembered

LEMMA CurrentInPlan ==
  ASSUME RunnerInv, Left # {}
  PROVE  InPlan(Current) /\ Current.account \in Accounts(plans) /\ (Current.opens => OpenedBy(Current.account))
<1>1. Min(Left) \in StepNumbers /\ Current = plan.steps[Min(Left)] /\ GoodStep(Current, plans)
  BY CurrentIs DEF RunnerInv
<1>2. QED
  BY <1>1 DEF InPlan, OpenedBy, GoodStep

LEMMA RunnerStep ==
  ASSUME RunnerInv, [Next]_vars
  PROVE  RunnerInv'
<1>0. /\ active \in Bins /\ \A d \in done : d.opens => d.account \in opened
      /\ \A d \in done \cup late : /\ d.account \in Accounts(plans)
                                   /\ d.account.address[1] = plans => InPlan(d)
  BY DEF RunnerInv, PlanInv, MemoryInv
<1>1. CASE Skip
  <2>1. /\ UNCHANGED <<plan, plans, request, active, opened, late>>
        /\ done' = done \cup {Current} /\ sent' = "none"
    BY <1>1 DEF Skip, chain, AtStep
  <2>2. Left # {} /\ Current.creates /\ Exists(Current.account)
    BY <1>1 DEF Skip, AtStep, Witnessed
  <2>3. Current.opens => Current.account \in opened
    BY <2>2, WitnessIsIt DEF RunnerInv
  <2>4. LandedInv'
    BY <2>1 DEF LandedInv
  <2>5. InPlan(Current)
    BY <2>2, CurrentInPlan
  <2> HIDE DEF Current
  <2>6. QED
    BY <1>0, <2>1, <2>3, <2>4, <2>5, SamePlan
<1>2. CASE Send
  <2>1. /\ UNCHANGED <<plan, plans, request, active, opened, late, done>> /\ sent' = "flying"
    BY <1>2 DEF Send, chain
  <2>2. LandedInv'
    BY <2>1 DEF LandedInv
  <2>3. QED
    BY <1>0, <2>1, <2>2, SamePlan
<1>3. CASE Land
  <2>1. /\ UNCHANGED <<plan, plans, request, active, late, done>>
        /\ opened' = IF Current.opens THEN opened \cup {Current.account} ELSE opened
        /\ Left # {}
    BY <1>3 DEF Land, Execute, AtStep
  <2>2. Current' = Current
    BY <2>1, SameCurrent
  <2>3. LandedInv'
    BY <2>1, <2>2 DEF LandedInv
  <2>4. Current.account \in Accounts(plans) /\ (Current.opens => OpenedBy(Current.account))
    BY <2>1, CurrentInPlan
  <2>5. opened \subseteq opened' /\ \A p \in opened' : p \in opened \/ (p = Current.account /\ Current.opens)
    BY <2>1
  <2>6. \A p \in opened' : p \in opened \/ (p \in Accounts(plans) /\ (p.address[1] = plans => OpenedBy(p)))
    BY <2>4, <2>5
  <2>7. \A d \in done' : d.opens => d.account \in opened'
    BY <1>0, <2>1, <2>5
  <2>8. QED
    BY <1>0, <2>1, <2>3, <2>5, <2>6, <2>7, SamePlan
<1>4. CASE Refuse
  <2>1. /\ UNCHANGED <<plan, plans, request, active, opened, late, done>> /\ sent' = "none"
    BY <1>4 DEF Refuse, chain
  <2>2. LandedInv'
    BY <2>1 DEF LandedInv
  <2>3. QED
    BY <1>0, <2>1, <2>2, SamePlan
<1>5. CASE Confirm
  <2>1. /\ UNCHANGED <<plan, plans, request, active, opened, late>>
        /\ done' = done \cup {Current} /\ sent' = "none" /\ sent = "landed" /\ Left # {}
    BY <1>5 DEF Confirm, chain, AtStep
  <2>2. Current.opens => Current.account \in opened
    BY <2>1 DEF RunnerInv, LandedInv
  <2>3. LandedInv'
    BY <2>1 DEF LandedInv
  <2>4. InPlan(Current)
    BY <2>1, CurrentInPlan
  <2> HIDE DEF Current
  <2>5. QED
    BY <1>0, <2>1, <2>2, <2>3, <2>4, SamePlan
<1>6. CASE Timeout
  <2>1. /\ UNCHANGED <<plan, plans, request, active, opened, done>> /\ sent' = "none"
        /\ late' = late \/ late' = late \cup {Current}
        /\ Left # {}
    BY <1>6 DEF Timeout, chain, AtStep
  <2>2. LandedInv'
    BY <2>1 DEF LandedInv
  <2>3. InPlan(Current)
    BY <2>1, CurrentInPlan
  <2> HIDE DEF Current
  <2>4. QED
    BY <1>0, <2>1, <2>2, <2>3, SamePlan
<1>7. CASE \E step \in late : LandLate(step)
  <2>1. PICK step \in late : LandLate(step)
    BY <1>7
  <2>2. /\ UNCHANGED <<plan, plans, request, active, done, sent>> /\ late' = late \ {step}
        /\ opened' = opened \/ (step.opens /\ opened' = opened \cup {step.account})
    BY <2>1 DEF LandLate, Execute, chain
  <2>3. Left' = Left /\ Current' = Current
    BY <2>2, SameCurrent
  <2>4. LandedInv'
    BY <2>2, <2>3 DEF RunnerInv, LandedInv
  <2>5. step.account \in Accounts(plans)
    BY <1>0
  <2>6. step.opens /\ step.account.address[1] = plans => OpenedBy(step.account)
    BY <1>0 DEF InPlan, OpenedBy
  <2>7. opened \subseteq opened' /\ \A p \in opened' : p \in opened \/ (p = step.account /\ step.opens)
    BY <2>2
  <2>8. \A p \in opened' : p \in opened \/ (p \in Accounts(plans) /\ (p.address[1] = plans => OpenedBy(p)))
    BY <2>5, <2>6, <2>7
  <2>9. \A d \in done' : d.opens => d.account \in opened'
    BY <1>0, <2>2, <2>7
  <2>10. \A d \in done' \cup late' : d \in done \cup late
    BY <2>2
  <2>11. active' \in Bins
    BY <1>0, <2>2
  <2>12. QED
    BY <2>2, <2>4, <2>7, <2>8, <2>9, <2>10, <2>11, SamePlan
<1>8. CASE Finish
  <2>1. /\ UNCHANGED <<plan, plans, request, active, opened, late, done, sent>>
    BY <1>8 DEF Finish, chain
  <2>2. Left' = Left /\ Current' = Current
    BY <2>1, SameCurrent
  <2>3. LandedInv'
    BY <2>1, <2>2 DEF RunnerInv, LandedInv
  <2>4. QED
    BY <1>0, <2>1, <2>3, SamePlan
<1>9. CASE Replan
  <2>1. /\ UNCHANGED <<request, active, opened, late, done, sent>> /\ sent = "none"
        /\ plan' = PlanDeposit(request, active, opened, plans + 1) /\ plans' = plans + 1
    BY <1>9 DEF Replan, chain
  <2>2. plans \in Nat \ {0} /\ opened \in SUBSET Accounts(plans) /\ request \in Requests
    BY DEF RunnerInv, PlanInv
  <2>3. plans + 1 \in Nat \ {0} /\ (plans + 1) - 1 = plans
    BY <2>2
  <2>4. GoodPlan(plan', opened', plans')
    BY <1>0, <2>1, <2>2, <2>3, PlanIsGood
  <2>5. ASSUME NEW a \in Accounts(plans) PROVE a \in Accounts(plans') /\ a.address[1] # plans'
    <3>1. a.address[1] \in 0 .. plans /\ (0 .. plans) \subseteq (0 .. plans + 1)
      BY <2>2 DEF Accounts
    <3>2. a \in Accounts(plans + 1)
      BY <3>1 DEF Accounts
    <3>3. a.address[1] # plans + 1
      BY <2>2, <3>1
    <3>4. QED
      BY <2>1, <3>2, <3>3
  <2>6. PlanInv'
    <3>1. opened' \in SUBSET Accounts(plans' - 1)
      BY <2>1, <2>2, <2>3
    <3>2. opened' \subseteq Accounts(plans')
      BY <2>1, <2>2, <2>5
    <3>3. plans' \in Nat \ {0} /\ request' \in Requests /\ active' \in Bins
      BY <1>0, <2>1, <2>2, <2>3
    <3>4. QED
      BY <2>4, <3>1, <3>2, <3>3 DEF PlanInv
  <2>7. MemoryInv'
    <3>1. \A d \in done \cup late : d.account \in Accounts(plans) /\ d.id[1] = d.account.address
      BY DEF RunnerInv, MemoryInv
    <3>2. \A d \in done' \cup late' : /\ d.account \in Accounts(plans') /\ d.id[1] = d.account.address
                                      /\ d.account.address[1] # plans'
      BY <2>1, <2>5, <3>1
    <3>3. \A p \in opened' : p.address[1] # plans'
      BY <2>1, <2>2, <2>5
    <3>4. \A d \in done' : d.opens => d.account \in opened'
      BY <1>0, <2>1
    <3>5. QED
      BY <3>2, <3>3, <3>4 DEF MemoryInv
  <2>8. LandedInv'
    BY <2>1 DEF LandedInv
  <2>9. QED
    BY <2>6, <2>7, <2>8 DEF RunnerInv
<1>10. CASE \E b \in Bins : Trade(b)
  <2>1. /\ UNCHANGED <<plan, plans, request, opened, late, done, sent>> /\ active' \in Bins
    BY <1>10 DEF Trade
  <2>2. Left' = Left /\ Current' = Current
    BY <2>1, SameCurrent
  <2>3. LandedInv'
    BY <2>1, <2>2 DEF RunnerInv, LandedInv
  <2>4. QED
    BY <1>0, <2>1, <2>3, SamePlan
<1>11. CASE UNCHANGED vars
  <2>1. UNCHANGED <<plan, plans, request, opened, late, done, sent, active>>
    BY <1>11 DEF vars, chain
  <2>2. Left' = Left /\ Current' = Current
    BY <2>1, SameCurrent
  <2>3. LandedInv'
    BY <2>1, <2>2 DEF RunnerInv, LandedInv
  <2>4. QED
    BY <1>0, <2>1, <2>3, SamePlan
<1>12. QED
  BY <1>1, <1>2, <1>3, <1>4, <1>5, <1>6, <1>7, <1>8, <1>9, <1>10, <1>11 DEF Next, Progress

(* A step that stepIsLegal lets through is one the program accepts as the  *)
(* pool stands, after any replans, lost confirmations and late landings.   *)
THEOREM LegalStepsAreAccepted == Spec => []LegalIsAccepted
<1>1. Init => RunnerInv
  BY RunnerStarts
<1>2. RunnerInv /\ [Next]_vars => RunnerInv'
  BY RunnerStep
<1>3. RunnerInv => LegalIsAccepted
  BY RunnerIsAccepted
<1>4. QED
  BY <1>1, <1>2, <1>3, PTL DEF Spec

-----------------------------------------------------------------------------
(***************************************************************************)
(* What a first plan has placed: of each bin nothing or what the plan has  *)
(* for it, and which of the two the chain and the runner's memory tell.    *)
(***************************************************************************)
Planned(b) == OneCall(plan.positions, b)

(* A bin of a step that opens has its part exactly when the account is     *)
(* there.                                                                  *)
Opening(i, b) == placed[b] = IF plan.steps[i].account \in opened THEN Planned(b) ELSE Zero

(* A bin of a fill has its part once the fill is remembered, nothing until *)
(* it is the runner's turn, and in between what its transaction says.      *)
Filling(i, b) ==
  /\ i \notin Left => placed[b] = Planned(b)
  /\ i \in Left /\ i # Min(Left) => placed[b] = Zero
  /\ i \in Left /\ i = Min(Left) =>
       /\ status = "running" => placed[b] = IF sent = "landed" THEN Planned(b) ELSE Zero
       /\ placed[b] = Zero \/ placed[b] = Planned(b)
       /\ plan.steps[i] \in late => placed[b] = Zero

OpeningsInv ==
  \A i \in StepNumbers : plan.steps[i].opens =>
    \A b \in DOMAIN plan.steps[i].dist : Opening(i, b)

FillsInv ==
  \A i \in StepNumbers : ~plan.steps[i].opens =>
    \A b \in DOMAIN plan.steps[i].dist : Filling(i, b)

RestInv ==
  \A b \in Bins : (\A i \in StepNumbers : b \notin DOMAIN plan.steps[i].dist) => placed[b] = Zero

(* A fill that was given up on stopped the run.                            *)
LateInv ==
  /\ \A d \in done \cup late : InPlan(d)
  /\ \A d \in late : d.opens \/ (status = "stopped" /\ Left # {} /\ d = Current)

PlacedInv == OpeningsInv /\ FillsInv /\ RestInv /\ LateInv /\ (status = "done" => Left = {})

FirstInv == RunnerInv /\ (plans = 1 => PlacedInv)

LEMMA PlanIs ==
  ASSUME RunnerInv
  PROVE  /\ \A i \in StepNumbers : GoodStep(plan.steps[i], plans)
         /\ \A i, j \in StepNumbers : plan.steps[i].id = plan.steps[j].id => i = j
         /\ \A i, j \in StepNumbers :
              plan.steps[i].opens /\ plan.steps[j].opens
                /\ plan.steps[i].account.address = plan.steps[j].account.address => i = j
         /\ \A i, j \in StepNumbers :
              i # j => DOMAIN plan.steps[i].dist \cap DOMAIN plan.steps[j].dist = {}
         /\ \A i \in StepNumbers : \A b \in DOMAIN plan.steps[i].dist :
              Row(plan.steps[i], b) = Planned(b)
         /\ \A b : (\A i \in StepNumbers : b \notin DOMAIN plan.steps[i].dist) => Planned(b) = Zero
         /\ \A b : Planned(b) \in [x : Nat, y : Nat]
         /\ DOMAIN plan.steps = StepNumbers /\ StepNumbers \subseteq Nat
<1>1. PICK held : GoodPlan(plan, held, plans)
  BY DEF RunnerInv, PlanInv
<1>2. GoodSteps(plan.steps, held, plans) /\ GoodRows(plan.steps, plan.positions)
  BY <1>1 DEF GoodPlan
<1>3. StepNumbers \subseteq Nat
  BY DEF StepNumbers
<1>4. QED
  BY <1>2, <1>3 DEF GoodSteps, GoodRows, StepNumbers, Planned

LEMMA Remembers ==
  ASSUME RunnerInv, Left # {}, plan' = plan, done' = done \cup {Current}
  PROVE  Left' = Left \ {Min(Left)}
<1>1. Min(Left) \in StepNumbers /\ Current = plan.steps[Min(Left)]
  BY CurrentIs DEF RunnerInv
<1>2. \A i, j \in StepNumbers : plan.steps[i].id = plan.steps[j].id => i = j
  BY PlanIs
<1>3. Left = {i \in StepNumbers : ~Remembered(plan.steps[i])}
  BY PlanIs DEF Left
<1>4. Left' = {i \in StepNumbers : ~Remembered(plan.steps[i])'}
  <2>1. Left' = {i \in DOMAIN plan'.steps : ~Remembered(plan.steps[i])'}
    BY DEF Left
  <2>2. DOMAIN plan'.steps = StepNumbers
    BY PlanIs
  <2>3. QED
    BY <2>1, <2>2
<1> DEFINE m == Min(Left)
<1> HIDE DEF m
<1>5. ASSUME NEW i \in StepNumbers
      PROVE  Remembered(plan.steps[i])' <=> Remembered(plan.steps[i]) \/ i = m
  <2>1. Remembered(plan.steps[i])' <=> \E d \in done \cup {Current} : d.id = plan.steps[i].id
    BY DEF Remembered
  <2>2. Current.id = plan.steps[i].id <=> i = m
    BY <1>1, <1>2 DEF m
  <2> HIDE DEF Current
  <2>3. QED
    BY <2>1, <2>2 DEF Remembered
<1>6. QED
  BY <1>3, <1>4, <1>5 DEF m

(* A step of the plan executes: its bins get their part, no other bin      *)
(* changes, and no other opening's account appears.                        *)
LEMMA Executes ==
  ASSUME RunnerInv, plan' = plan, NEW j \in StepNumbers, Accepted(plan.steps[j]),
         Execute(plan.steps[j]), OpeningsInv
  PROVE  /\ OpeningsInv' /\ (RestInv => RestInv')
         /\ \A b \in DOMAIN plan.steps[j].dist : placed[b] = Zero => placed'[b] = Planned(b)
         /\ \A i \in StepNumbers : i # j => \A b \in DOMAIN plan.steps[i].dist : placed'[b] = placed[b]
<1> DEFINE s == plan.steps[j]
<1>1. DOMAIN s.dist \subseteq Bins /\ \A i \in StepNumbers : DOMAIN plan.steps[i].dist \subseteq Bins
  BY PlanIs DEF GoodStep
<1>2. ASSUME NEW b \in Bins
      PROVE  /\ b \notin DOMAIN s.dist => placed'[b] = placed[b]
             /\ b \in DOMAIN s.dist =>
                  placed'[b] = [x |-> placed[b].x + Row(s, b).x, y |-> placed[b].y + Row(s, b).y]
  <2> DEFINE adds == Preview(s.dist, s.x, s.y)
  <2>1. DOMAIN adds = DOMAIN s.dist /\ (b \in DOMAIN s.dist => adds[b] = Row(s, b))
    BY PreviewIs DEF Preview
  <2>2. placed'[b] = IF b \notin DOMAIN adds THEN placed[b]
                     ELSE [x |-> placed[b].x + adds[b].x, y |-> placed[b].y + adds[b].y]
    BY DEF Execute
  <2> HIDE DEF adds, s
  <2>3. QED
    BY <2>1, <2>2
<1>3. ASSUME NEW b \in DOMAIN s.dist, placed[b] = Zero
      PROVE  placed'[b] = Planned(b)
  <2>1. Row(s, b) = Planned(b) /\ Planned(b) \in [x : Nat, y : Nat]
    BY PlanIs
  <2>2. placed'[b] = [x |-> 0 + Planned(b).x, y |-> 0 + Planned(b).y]
    BY <1>1, <1>2, <1>3, <2>1 DEF Zero
  <2>3. Planned(b).x \in Nat /\ Planned(b).y \in Nat /\ Planned(b) = [x |-> Planned(b).x, y |-> Planned(b).y]
    BY <2>1
  <2>4. 0 + Planned(b).x = Planned(b).x /\ 0 + Planned(b).y = Planned(b).y
    BY <2>3
  <2>5. QED
    BY <2>2, <2>3, <2>4
<1>4. ASSUME NEW i \in StepNumbers, i # j, NEW b \in DOMAIN plan.steps[i].dist
      PROVE  placed'[b] = placed[b]
  <2>1. b \notin DOMAIN s.dist
    BY <1>4, PlanIs
  <2>2. QED
    BY <1>1, <1>2, <2>1
<1>5. opened' = (IF s.opens THEN opened \cup {s.account} ELSE opened)
  BY DEF Execute
<1>6. ASSUME NEW i \in StepNumbers, plan.steps[i].opens, NEW b \in DOMAIN plan.steps[i].dist
      PROVE  Opening(i, b)'
  <2>1. Opening(i, b)
    BY <1>6 DEF OpeningsInv
  <2>2. Planned(b)' = Planned(b) /\ plan'.steps[i] = plan.steps[i]
    BY DEF Planned
  <2>3. CASE i = j
    <3>1. s.opens /\ ~Exists(s.account)
      BY <1>6, <2>3 DEF Accepted
    <3>2. s.account \notin opened /\ s.account \in opened'
      BY <1>5, <3>1 DEF Exists
    <3>3. placed[b] = Zero
      BY <2>1, <2>3, <3>2 DEF Opening
    <3>4. placed'[b] = Planned(b)
      BY <1>3, <2>3, <3>3
    <3>5. QED
      BY <2>2, <2>3, <3>2, <3>4 DEF Opening
  <2>4. CASE i # j
    <3>1. placed'[b] = placed[b]
      BY <1>4, <2>4
    <3>2. s.opens => plan.steps[i].account # s.account
      BY <1>6, <2>4, PlanIs
    <3>3. plan.steps[i].account \in opened' <=> plan.steps[i].account \in opened
      BY <1>5, <3>2
    <3>4. QED
      BY <2>1, <2>2, <3>1, <3>3 DEF Opening
  <2>5. QED
    BY <2>3, <2>4
<1>7. OpeningsInv'
  BY <1>6 DEF OpeningsInv, StepNumbers
<1>8. ASSUME RestInv PROVE RestInv'
  <2>1. ASSUME NEW b \in Bins, \A i \in StepNumbers : b \notin DOMAIN plan.steps[i].dist
        PROVE  placed'[b] = Zero
    <3>1. placed[b] = Zero
      BY <1>8, <2>1 DEF RestInv
    <3>2. QED
      BY <1>2, <2>1, <3>1
  <2>2. QED
    BY <2>1 DEF RestInv, StepNumbers
<1>9. QED
  BY <1>3, <1>4, <1>7, <1>8

LEMMA FirstStarts == Init => FirstInv
<1> SUFFICES ASSUME Init PROVE FirstInv
  OBVIOUS
<1>1. RunnerInv
  BY RunnerStarts
<1>2. /\ placed = [b \in Bins |-> Zero] /\ late = {} /\ done = {} /\ sent = "none"
      /\ status = "running" /\ plans = 1
  BY DEF Init, Zero
<1>3. \A i \in StepNumbers : \A b \in DOMAIN plan.steps[i].dist : placed[b] = Zero
  BY <1>1, <1>2, PlanIs DEF GoodStep
<1>4. Left = StepNumbers
  BY <1>1, <1>2, PlanIs DEF Left, Remembered
<1>5. OpeningsInv
  <2> SUFFICES ASSUME NEW i \in StepNumbers, plan.steps[i].opens,
                      NEW b \in DOMAIN plan.steps[i].dist
               PROVE  Opening(i, b)
    BY DEF OpeningsInv
  <2>1. plan.steps[i].account.address[1] = 1
    BY <1>1, <1>2, PlanIs DEF GoodStep
  <2>2. PICK H \in Holdings : opened = Held(H)
    BY DEF Init
  <2>3. \A p \in opened : p.address[1] = 0
    BY <2>2 DEF Held, Account
  <2>4. plan.steps[i].account \notin opened
    BY <2>1, <2>3
  <2>5. QED
    BY <1>3, <2>4 DEF Opening
<1>6. FillsInv
  BY <1>2, <1>3, <1>4 DEF FillsInv, Filling
<1>7. RestInv
  BY <1>2 DEF RestInv
<1>8. LateInv
  BY <1>2 DEF LateInv
<1>9. QED
  BY <1>1, <1>2, <1>5, <1>6, <1>7, <1>8 DEF FirstInv, PlacedInv

(* Where nothing executes, the placed bins need looking at only for fills. *)
LEMMA NothingRuns ==
  ASSUME plan' = plan, placed' = placed, opened' = opened, OpeningsInv, RestInv
  PROVE  OpeningsInv' /\ RestInv'
<1>1. OpeningsInv'
  BY DEF OpeningsInv, Opening, StepNumbers, Planned
<1>2. RestInv'
  BY DEF RestInv, StepNumbers
<1>3. QED
  BY <1>1, <1>2

(* Remembering the current step, when its bins have their part or it has   *)
(* opened.                                                                 *)
LEMMA RemembersCurrent ==
  ASSUME RunnerInv, PlacedInv, Left # {}, plan' = plan, done' = done \cup {Current},
         UNCHANGED <<placed, opened, late, status>>, status = "running", sent' = "none",
         sent = "landed" \/ Current.opens
  PROVE  PlacedInv'
<1>1. Left' = Left \ {Min(Left)}
  BY Remembers
<1>2. Min(Left) \in Left /\ Min(Left) \in StepNumbers /\ Current = plan.steps[Min(Left)]
  BY CurrentIs DEF RunnerInv
<1>3. OpeningsInv' /\ RestInv'
  BY NothingRuns DEF PlacedInv
<1>4. ASSUME NEW i \in StepNumbers, ~plan.steps[i].opens, NEW b \in DOMAIN plan.steps[i].dist
      PROVE  Filling(i, b)'
  <2>1. Filling(i, b) /\ Planned(b)' = Planned(b)
    BY <1>4 DEF PlacedInv, FillsInv, Planned
  <2>2. CASE i \notin Left
    <3>1. placed'[b] = Planned(b) /\ i \notin Left'
      BY <1>1, <2>1, <2>2 DEF Filling
    <3>2. QED
      BY <2>1, <3>1 DEF Filling
  <2>3. CASE i \in Left /\ i # Min(Left)
    <3>1. placed'[b] = Zero /\ i \in Left' /\ sent' # "landed"
      BY <1>1, <2>1, <2>3 DEF Filling
    <3>2. QED
      BY <3>1 DEF Filling
  <2>4. CASE i = Min(Left)
    <3>1. sent = "landed"
      BY <1>2, <1>4, <2>4
    <3>2. placed'[b] = Planned(b) /\ i \notin Left'
      BY <1>1, <1>2, <2>1, <2>4, <3>1 DEF Filling
    <3>3. QED
      BY <2>1, <3>2 DEF Filling
  <2>5. QED
    BY <2>2, <2>3, <2>4
<1>5. FillsInv'
  BY <1>4 DEF FillsInv, StepNumbers
<1>6. LateInv'
  <2>1. InPlan(Current)
    BY CurrentInPlan
  <2>2. \A d \in done \cup late : InPlan(d)
    BY DEF PlacedInv, LateInv
  <2>3. \A d \in late : d.opens
    BY DEF PlacedInv, LateInv
  <2>4. \A d \in done' \cup late' : InPlan(d)
    <3> HIDE DEF Current
    <3>1. QED
      BY <2>1, <2>2
  <2>5. \A d : InPlan(d) => InPlan(d)'
    BY DEF InPlan, StepNumbers
  <2>6. QED
    BY <2>3, <2>4, <2>5 DEF LateInv
<1>7. status' # "done"
  OBVIOUS
<1>8. QED
  BY <1>3, <1>5, <1>6, <1>7 DEF PlacedInv

(* The runner's other steps, which place nothing and remember nothing.     *)
LEMMA NothingRemembered ==
  ASSUME RunnerInv, PlacedInv, plan' = plan, done' = done, placed' = placed, opened' = opened,
         \A d \in late' : d \in late \/ (Left # {} /\ d = Current /\ sent = "flying" /\ status = "running"),
         \A d \in late' : d.opens \/ (status' = "stopped" /\ Left # {} /\ d = Current),
         status' = "running" => status = "running",
         status' = "done" => Left = {},
         (sent' = "landed" <=> sent = "landed") \/ status' # "running"
           \/ (Left # {} /\ Current.opens)
  PROVE  PlacedInv'
<1>1. Left' = Left /\ Current' = Current
  BY SameCurrent
<1>2. OpeningsInv' /\ RestInv'
  BY NothingRuns DEF PlacedInv
<1>3. ASSUME NEW i \in StepNumbers, ~plan.steps[i].opens, NEW b \in DOMAIN plan.steps[i].dist
      PROVE  Filling(i, b)'
  <2>1. Filling(i, b) /\ Planned(b)' = Planned(b) /\ plan'.steps[i] = plan.steps[i]
    BY <1>3 DEF PlacedInv, FillsInv, Planned
  <2>2. CASE ~(i \in Left /\ i = Min(Left))
    BY <1>1, <2>1, <2>2 DEF Filling
  <2>3. CASE i \in Left /\ i = Min(Left)
    <3>1. Current = plan.steps[i]
      BY <2>3 DEF Current
    <3>2. status' = "running" => (sent' = "landed" <=> sent = "landed")
      BY <1>3, <2>3, <3>1
    <3>3. status' = "running" => placed'[b] = IF sent' = "landed" THEN Planned(b) ELSE Zero
      BY <2>1, <2>3, <3>2 DEF Filling
    <3>4. plan.steps[i] \in late' => placed[b] = Zero
      BY <2>1, <2>3 DEF Filling
    <3>5. placed[b] = Zero \/ placed[b] = Planned(b)
      BY <2>1, <2>3 DEF Filling
    <3>6. QED
      BY <1>1, <2>1, <2>3, <3>3, <3>4, <3>5 DEF Filling
  <2>4. QED
    BY <2>2, <2>3
<1>4. FillsInv'
  BY <1>3 DEF FillsInv, StepNumbers
<1>5. LateInv'
  <2>1. \A d \in done' \cup late' : InPlan(d)
    <3>1. \A d \in done \cup late : InPlan(d)
      BY DEF PlacedInv, LateInv
    <3>2. Left # {} => InPlan(Current)
      BY CurrentInPlan
    <3> HIDE DEF Current
    <3>3. QED
      BY <3>1, <3>2
  <2>2. \A d : InPlan(d) => InPlan(d)'
    BY DEF InPlan, StepNumbers
  <2>3. QED
    BY <1>1, <2>1, <2>2 DEF LateInv
<1>6. QED
  BY <1>1, <1>2, <1>4, <1>5 DEF PlacedInv

LEMMA LandPlaces ==
  ASSUME RunnerInv, PlacedInv, Land
  PROVE  PlacedInv'
<1>1. /\ UNCHANGED <<late, plan, done, status>> /\ sent' = "landed" /\ sent = "flying"
      /\ status = "running" /\ Left # {} /\ Accepted(Current) /\ Execute(Current)
  BY DEF Land, AtStep
<1>2. Min(Left) \in Left /\ Min(Left) \in StepNumbers /\ Current = plan.steps[Min(Left)]
  BY <1>1, CurrentIs DEF RunnerInv
<1> DEFINE m == Min(Left)
<1> HIDE DEF m
<1>3. /\ OpeningsInv' /\ RestInv'
      /\ \A b \in DOMAIN plan.steps[m].dist : placed[b] = Zero => placed'[b] = Planned(b)
      /\ \A i \in StepNumbers : i # m => \A b \in DOMAIN plan.steps[i].dist : placed'[b] = placed[b]
  <2>1. m \in StepNumbers /\ Accepted(plan.steps[m]) /\ Execute(plan.steps[m]) /\ plan' = plan
    BY <1>1, <1>2 DEF m
  <2>2. OpeningsInv /\ RestInv
    BY DEF PlacedInv
  <2>3. QED
    BY <2>1, <2>2, Executes
<1>4. Left' = Left /\ Current' = Current
  BY <1>1, SameCurrent
<1>5. \A d \in late : d.opens
  BY <1>1 DEF PlacedInv, LateInv
<1>6. ASSUME NEW i \in StepNumbers, ~plan.steps[i].opens, NEW b \in DOMAIN plan.steps[i].dist
      PROVE  Filling(i, b)'
  <2>1. Filling(i, b) /\ Planned(b)' = Planned(b) /\ plan'.steps[i] = plan.steps[i]
    BY <1>1, <1>6 DEF PlacedInv, FillsInv, Planned
  <2>2. CASE i = m
    <3>1. placed[b] = Zero
      BY <1>1, <1>2, <2>1, <2>2 DEF Filling, m
    <3>2. placed'[b] = Planned(b)
      BY <1>3, <2>2, <3>1
    <3>3. plan'.steps[i] \notin late'
      BY <1>1, <1>5, <1>6
    <3>4. i \in Left'
      BY <1>2, <1>4, <2>2 DEF m
    <3>5. QED
      BY <1>1, <1>2, <1>4, <2>1, <2>2, <3>2, <3>3, <3>4 DEF Filling, m
  <2>3. CASE i # m
    <3>1. placed'[b] = placed[b]
      BY <1>3, <2>3
    <3>2. QED
      BY <1>4, <2>1, <2>3, <3>1 DEF Filling, m
  <2>4. QED
    BY <2>2, <2>3
<1>7. FillsInv'
  BY <1>1, <1>6 DEF FillsInv, StepNumbers
<1>8. LateInv'
  <2>1. \A d : InPlan(d) => InPlan(d)'
    BY <1>1 DEF InPlan, StepNumbers
  <2>2. QED
    BY <1>1, <1>5, <2>1 DEF PlacedInv, LateInv
<1>9. QED
  BY <1>1, <1>3, <1>7, <1>8 DEF PlacedInv

LEMMA LateLandPlaces ==
  ASSUME RunnerInv, PlacedInv, NEW step \in late, LandLate(step)
  PROVE  PlacedInv'
<1>1. /\ UNCHANGED <<plan, done, sent, status>> /\ late' = late \ {step}
  BY DEF LandLate
<1>2. PICK j \in StepNumbers : step = plan.steps[j]
  BY DEF PlacedInv, LateInv, InPlan
<1>3. Left' = Left /\ Current' = Current
  BY <1>1, SameCurrent
<1>4. \A d \in late : d.opens \/ (status = "stopped" /\ Left # {} /\ d = Current)
  BY DEF PlacedInv, LateInv
<1>5. CASE ~Accepted(step)
  <2>1. placed' = placed /\ opened' = opened
    BY <1>5 DEF LandLate, chain
  <2>2. status' = "done" => Left = {}
    BY <1>1 DEF PlacedInv
  <2>3. \A d \in late' : d \in late
    BY <1>1
  <2>4. \A d \in late' : d.opens \/ (status' = "stopped" /\ Left # {} /\ d = Current)
    BY <1>1, <1>4
  <2>5. QED
    BY <1>1, <2>1, <2>2, <2>3, <2>4, NothingRemembered
<1>6. CASE Accepted(step)
  <2>1. Execute(step)
    BY <1>6 DEF LandLate
  <2>2. /\ OpeningsInv' /\ RestInv'
        /\ \A b \in DOMAIN plan.steps[j].dist : placed[b] = Zero => placed'[b] = Planned(b)
        /\ \A i \in StepNumbers : i # j => \A b \in DOMAIN plan.steps[i].dist : placed'[b] = placed[b]
    <3>1. OpeningsInv /\ RestInv
      BY DEF PlacedInv
    <3>2. QED
      BY <1>1, <1>2, <1>6, <2>1, <3>1, Executes
  <2>3. ASSUME NEW i \in StepNumbers, ~plan.steps[i].opens, NEW b \in DOMAIN plan.steps[i].dist
        PROVE  Filling(i, b)'
    <3>1. Filling(i, b) /\ Planned(b)' = Planned(b) /\ plan'.steps[i] = plan.steps[i]
      BY <1>1, <2>3 DEF PlacedInv, FillsInv, Planned
    <3>2. CASE i = j
      <4>1. step = plan.steps[i] /\ status = "stopped" /\ Left # {} /\ step = Current
        BY <1>2, <1>4, <2>3, <3>2
      <4>2. Min(Left) \in Left /\ Min(Left) \in StepNumbers /\ Current = plan.steps[Min(Left)]
        BY <4>1, CurrentIs DEF RunnerInv
      <4>3. i = Min(Left)
        BY <4>1, <4>2, PlanIs
      <4>4. placed[b] = Zero
        BY <3>1, <4>1, <4>2, <4>3 DEF Filling
      <4>5. placed'[b] = Planned(b)
        BY <2>2, <3>2, <4>4
      <4>6. plan'.steps[i] \notin late' /\ status' # "running"
        BY <1>1, <4>1
      <4>7. i \in Left' /\ i = Min(Left')
        BY <1>3, <4>2, <4>3
      <4>8. QED
        BY <3>1, <4>5, <4>6, <4>7 DEF Filling
    <3>3. CASE i # j
      <4>1. placed'[b] = placed[b]
        BY <2>2, <3>3
      <4>2. plan.steps[i] \in late' => plan.steps[i] \in late
        BY <1>1
      <4>3. QED
        BY <1>1, <1>3, <3>1, <4>1, <4>2 DEF Filling
    <3>4. QED
      BY <3>2, <3>3
  <2>4. FillsInv'
    BY <1>1, <2>3 DEF FillsInv, StepNumbers
  <2>5. LateInv'
    <3>1. \A d : InPlan(d) => InPlan(d)'
      BY <1>1 DEF InPlan, StepNumbers
    <3>2. QED
      BY <1>1, <1>3, <1>4, <3>1 DEF PlacedInv, LateInv
  <2>6. status' = "done" => Left' = {}
    BY <1>1, <1>3 DEF PlacedInv
  <2>7. QED
    BY <2>2, <2>4, <2>5, <2>6 DEF PlacedInv
<1>7. QED
  BY <1>5, <1>6

LEMMA FirstStep ==
  ASSUME FirstInv, [Next]_vars
  PROVE  FirstInv'
<1>0. RunnerInv /\ RunnerInv'
  BY RunnerStep DEF FirstInv
<1> SUFFICES ASSUME plans' = 1 PROVE PlacedInv'
  BY <1>0 DEF FirstInv
<1>1. CASE Replan
  <2>1. plans' = plans + 1 /\ plans \in Nat \ {0}
    BY <1>0, <1>1 DEF Replan, RunnerInv, PlanInv
  <2>2. plans' # 1
    BY <2>1
  <2>3. QED
    BY <2>2
<1>2. ASSUME plans = 1 \/ plans' = plans PROVE PlacedInv
  BY <1>2 DEF FirstInv
<1>3. CASE Skip
  <2>1. /\ PlacedInv /\ Left # {} /\ plan' = plan /\ done' = done \cup {Current}
        /\ UNCHANGED <<placed, opened, late, status>> /\ status = "running"
        /\ sent' = "none" /\ Current.creates
    BY <1>2, <1>3 DEF Skip, AtStep, Witnessed, chain
  <2>2. Current.opens
    BY <1>0, <2>1, CurrentIs DEF RunnerInv, GoodStep
  <2>3. QED
    BY <1>0, <2>1, <2>2, RemembersCurrent
<1>4. CASE Confirm
  <2>1. /\ PlacedInv /\ Left # {} /\ plan' = plan /\ done' = done \cup {Current}
        /\ UNCHANGED <<placed, opened, late, status>> /\ status = "running"
        /\ sent' = "none" /\ sent = "landed"
    BY <1>2, <1>4 DEF Confirm, AtStep, chain
  <2>2. QED
    BY <1>0, <2>1, RemembersCurrent
<1>5. CASE Land
  BY <1>0, <1>2, <1>5, LandPlaces DEF Land
<1>6. CASE \E step \in late : LandLate(step)
  <2>1. PICK step \in late : LandLate(step)
    BY <1>6
  <2>2. PlacedInv
    BY <1>2, <2>1 DEF LandLate
  <2>3. QED
    BY <1>0, <2>1, <2>2, LateLandPlaces
<1>7. CASE Timeout
  <2>1. /\ PlacedInv /\ plan' = plan /\ done' = done /\ placed' = placed /\ opened' = opened
        /\ status = "running" /\ Left # {} /\ sent' = "none"
        /\ status' = (IF Current.creates THEN "running" ELSE "stopped")
        /\ late' = late \/ (sent = "flying" /\ late' = late \cup {Current})
    BY <1>2, <1>7 DEF Timeout, AtStep, chain
  <2>2. GoodStep(Current, plans)
    BY <1>0, <2>1, CurrentIs DEF RunnerInv
  <2>3. Current.creates = Current.opens /\ Current.opens \in BOOLEAN
    BY <2>2 DEF GoodStep
  <2>4. \A d \in late : d.opens
    BY <2>1 DEF PlacedInv, LateInv
  <2>5. \A d \in late' : d \in late \/ (Left # {} /\ d = Current /\ sent = "flying" /\ status = "running")
    <3> HIDE DEF Current
    <3>1. QED
      BY <2>1
  <2>6. \A d \in late' : d.opens \/ (status' = "stopped" /\ Left # {} /\ d = Current)
    <3> HIDE DEF Current
    <3>1. QED
      BY <2>1, <2>3, <2>4
  <2>7. status' # "running" \/ (Left # {} /\ Current.opens)
    <3> HIDE DEF Current
    <3>1. QED
      BY <2>1, <2>3
  <2>8. status' # "done"
    BY <2>1
  <2>9. QED
    BY <1>0, <2>1, <2>5, <2>6, <2>7, <2>8, NothingRemembered
<1>8. CASE Send \/ Refuse
  <2>1. /\ PlacedInv /\ plan' = plan /\ done' = done /\ placed' = placed /\ opened' = opened
        /\ late' = late /\ status = "running" /\ status' = "running"
        /\ sent # "landed" /\ sent' # "landed"
    BY <1>2, <1>8 DEF Send, Refuse, ReadyToSend, AtStep, chain
  <2>2. \A d \in late' : d.opens
    BY <2>1 DEF PlacedInv, LateInv
  <2>3. QED
    BY <1>0, <2>1, <2>2, NothingRemembered
<1>9. CASE Finish
  <2>1. /\ PlacedInv /\ plan' = plan /\ done' = done /\ placed' = placed /\ opened' = opened
        /\ late' = late /\ status = "running" /\ status' = "done" /\ Left = {} /\ sent' = sent
    BY <1>2, <1>9 DEF Finish, chain
  <2>2. \A d \in late' : d.opens
    BY <2>1 DEF PlacedInv, LateInv
  <2>3. QED
    BY <1>0, <2>1, <2>2, NothingRemembered
<1>10. CASE (\E b \in Bins : Trade(b)) \/ UNCHANGED vars
  <2>1. /\ plans' = plans /\ plan' = plan /\ done' = done /\ placed' = placed /\ opened' = opened
        /\ late' = late /\ status' = status /\ sent' = sent
    BY <1>10 DEF Trade, vars, chain
  <2>2. PlacedInv
    BY <1>2, <2>1
  <2>3. \A d \in late' : d.opens \/ (status' = "stopped" /\ Left # {} /\ d = Current)
    BY <2>1, <2>2 DEF PlacedInv, LateInv
  <2>4. status' = "done" => Left = {}
    BY <2>1, <2>2 DEF PlacedInv
  <2>5. QED
    BY <1>0, <2>1, <2>2, <2>3, <2>4, NothingRemembered
<1>11. QED
  BY <1>1, <1>3, <1>4, <1>5, <1>6, <1>7, <1>8, <1>9, <1>10 DEF Next, Progress

LEMMA OneCallIsPlanned ==
  ASSUME NEW b
  PROVE  InOneCall(b) = Planned(b)
BY Zenon DEF InOneCall, Planned, OneCall, Here

LEMMA FirstPlaces ==
  ASSUME FirstInv, plans = 1, NEW b \in Bins
  PROVE  /\ placed[b] = Zero \/ placed[b] = Planned(b)
         /\ status = "done" => placed[b] = Planned(b)
<1>1. RunnerInv /\ PlacedInv
  BY DEF FirstInv
<1>2. CASE \A i \in StepNumbers : b \notin DOMAIN plan.steps[i].dist
  <2>1. placed[b] = Zero /\ Planned(b) = Zero
    BY <1>1, <1>2, PlanIs DEF PlacedInv, RestInv
  <2>2. QED
    BY <2>1
<1>3. ASSUME NEW i \in StepNumbers, b \in DOMAIN plan.steps[i].dist
      PROVE  /\ placed[b] = Zero \/ placed[b] = Planned(b)
             /\ status = "done" => placed[b] = Planned(b)
  <2>1. CASE plan.steps[i].opens
    <3>1. Opening(i, b)
      BY <1>1, <1>3, <2>1 DEF PlacedInv, OpeningsInv
    <3>2. ASSUME status = "done" PROVE plan.steps[i].account \in opened
      <4>1. Remembered(plan.steps[i])
        BY <1>1, <3>2, PlanIs DEF PlacedInv, Left
      <4>2. QED
        BY <1>1, <2>1, <4>1, RememberedHasOpened DEF RunnerInv
    <3>3. QED
      BY <3>1, <3>2 DEF Opening
  <2>2. CASE ~plan.steps[i].opens
    <3>1. Filling(i, b)
      BY <1>1, <1>3, <2>2 DEF PlacedInv, FillsInv
    <3>2. status = "done" => i \notin Left
      BY <1>1 DEF PlacedInv
    <3>3. QED
      BY <3>1, <3>2 DEF Filling
  <2>3. QED
    BY <2>1, <2>2
<1>4. QED
  BY <1>2, <1>3

LEMMA FirstIsSafe ==
  ASSUME FirstInv
  PROVE  NothingTwice /\ PlacesThePlan
<1>1. ASSUME plans = 1, NEW b \in Bins
      PROVE  placed[b].x <= InOneCall(b).x /\ placed[b].y <= InOneCall(b).y
  <2>1. placed[b] = Zero \/ placed[b] = Planned(b)
    BY <1>1, FirstPlaces
  <2>2. Planned(b) \in [x : Nat, y : Nat]
    BY PlanIs DEF FirstInv
  <2>3. Planned(b).x \in Nat /\ Planned(b).y \in Nat
    BY <2>2
  <2>4. Zero.x = 0 /\ Zero.y = 0
    BY DEF Zero
  <2>5. QED
    BY <2>1, <2>3, <2>4, OneCallIsPlanned
<1>2. ASSUME plans = 1, status = "done", NEW b \in Bins
      PROVE  placed[b] = InOneCall(b)
  BY <1>2, FirstPlaces, OneCallIsPlanned
<1>3. QED
  BY <1>1, <1>2 DEF NothingTwice, PlacesThePlan

LEMMA FirstAlways == Spec => []FirstInv
<1>1. FirstInv /\ [Next]_vars => FirstInv'
  BY FirstStep
<1>2. QED
  BY <1>1, FirstStarts, PTL DEF Spec

(* No bin ever receives more than the plan has for it, whatever            *)
(* confirmations are lost and whichever of their transactions land late.   *)
THEOREM NothingIsDepositedTwice == Spec => []NothingTwice
<1>1. FirstInv => NothingTwice
  BY FirstIsSafe
<1>2. QED
  BY <1>1, FirstAlways, PTL

(* A run that ends as done has placed the plan, bin by bin.                *)
THEOREM DoneHasPlacedThePlan == Spec => []PlacesThePlan
<1>1. FirstInv => PlacesThePlan
  BY FirstIsSafe
<1>2. QED
  BY <1>1, FirstAlways, PTL

-----------------------------------------------------------------------------
(***************************************************************************)
(* What a finished run leaves in the wallet.  First, more about sums: of   *)
(* parts of a set, of parts that make up the whole, of marks.              *)
(***************************************************************************)
LEMMA SumIsNat ==
  ASSUME NEW w, NEW s, Sums(s, w), NEW T \in SUBSET DOMAIN w
  PROVE  s[T] \in Nat
BY DEF Sums

LEMMA SumOfPart ==
  ASSUME NEW w, Amounts(w), NEW s, Sums(s, w), NEW T \in SUBSET DOMAIN w,
         NEW v, DOMAIN v = T, \A x \in T : v[x] = w[x]
  PROVE  Amounts(v) /\ Total(v) = s[T]
<1>1. IsFiniteSet(T) /\ Amounts(v)
  <2>1. IsFiniteSet(T)
    BY FS_Subset DEF Amounts
  <2>2. QED
    BY <2>1 DEF Amounts
<1>2. PICK r : Sums(r, v) /\ Total(v) = r[T]
  BY <1>1, TotalIsASum
<1> DEFINE A == {U \in SUBSET T : r[U] = s[U]}
<1>3. ASSUME NEW U \in SUBSET T, \A x \in U : U \ {x} \in A
      PROVE  U \in A
  <2>1. CASE U = {}
    BY <1>2, <2>1 DEF Sums
  <2>2. CASE U # {}
    <3>1. PICK x \in U : TRUE
      BY <2>2
    <3>2. r[U] = v[x] + r[U \ {x}]
      BY <1>2 DEF Sums
    <3>3. s[U] = w[x] + s[U \ {x}]
      BY DEF Sums
    <3>4. r[U \ {x}] = s[U \ {x}]
      BY <1>3
    <3>5. QED
      BY <3>2, <3>3, <3>4
  <2>3. QED
    BY <2>1, <2>2
<1>4. A \in SUBSET SUBSET T
  OBVIOUS
<1> HIDE DEF A
<1>5. A = SUBSET T
  BY <1>1, <1>3, <1>4, SubsetInduction
<1>6. QED
  BY <1>1, <1>2, <1>5 DEF A

LEMMA SumOfTwo ==
  ASSUME NEW w, Amounts(w), NEW s, Sums(s, w), NEW S \in SUBSET DOMAIN w,
         NEW T \in SUBSET DOMAIN w, S \cap T = {}
  PROVE  s[S \cup T] = s[S] + s[T]
<1> DEFINE A == {U \in SUBSET T : s[S \cup U] = s[S] + s[U]}
<1>1. ASSUME NEW U \in SUBSET T, \A x \in U : U \ {x} \in A
      PROVE  U \in A
  <2>0. s[S] \in Nat
    BY SumIsNat
  <2>1. CASE U = {}
    <3>1. s[U] = 0 /\ S \cup U = S
      BY <2>1 DEF Sums
    <3>2. QED
      BY <2>0, <3>1
  <2>2. CASE U # {}
    <3>1. PICK x \in U : TRUE
      BY <2>2
    <3>2. s[U] = w[x] + s[U \ {x}]
      BY DEF Sums
    <3>3. s[S \cup U] = w[x] + s[(S \cup U) \ {x}]
      <4>1. S \cup U \in SUBSET DOMAIN w /\ x \in S \cup U
        OBVIOUS
      <4>2. QED
        BY <4>1 DEF Sums
    <3>4. (S \cup U) \ {x} = S \cup (U \ {x})
      OBVIOUS
    <3>5. s[S \cup (U \ {x})] = s[S] + s[U \ {x}]
      BY <1>1
    <3>6. w[x] \in Nat /\ s[U \ {x}] \in Nat
      BY SumIsNat DEF Amounts
    <3>7. s[S \cup U] = w[x] + (s[S] + s[U \ {x}])
      BY <3>3, <3>4, <3>5
    <3>8. w[x] + (s[S] + s[U \ {x}]) = s[S] + (w[x] + s[U \ {x}])
      BY <2>0, <3>6
    <3>9. s[S \cup U] = s[S] + s[U]
      BY ONLY <3>2, <3>7, <3>8, Zenon
    <3>10. QED
      BY <3>9
  <2>3. QED
    BY <2>1, <2>2
<1>2. A \in SUBSET SUBSET T
  OBVIOUS
<1> HIDE DEF A
<1>3. IsFiniteSet(T)
  BY FS_Subset DEF Amounts
<1>4. A = SUBSET T
  BY <1>1, <1>2, <1>3, SubsetInduction
<1>5. QED
  BY <1>4 DEF A

(* What is zero outside a part sums up inside it.                          *)
LEMMA SumOutside ==
  ASSUME NEW w, Amounts(w), NEW s, Sums(s, w), NEW T \in SUBSET DOMAIN w,
         \A x \in DOMAIN w \ T : w[x] = 0
  PROVE  s[DOMAIN w] = s[T]
<1> DEFINE R == DOMAIN w \ T
           A == {U \in SUBSET R : s[U] = 0}
<1>1. ASSUME NEW U \in SUBSET R, \A x \in U : U \ {x} \in A
      PROVE  U \in A
  <2>1. CASE U = {}
    BY <2>1 DEF Sums
  <2>2. CASE U # {}
    <3>1. PICK x \in U : TRUE
      BY <2>2
    <3>2. s[U] = w[x] + s[U \ {x}]
      BY DEF Sums
    <3>3. w[x] = 0 /\ s[U \ {x}] = 0
      BY <1>1
    <3>4. QED
      BY <3>2, <3>3
  <2>3. QED
    BY <2>1, <2>2
<1>2. A \in SUBSET SUBSET R
  OBVIOUS
<1>3. IsFiniteSet(R)
  BY FS_Subset DEF Amounts
<1> HIDE DEF A
<1>4. A = SUBSET R
  BY <1>1, <1>2, <1>3, SubsetInduction
<1>5. s[R] = 0
  BY <1>4 DEF A
<1>6. s[T \cup R] = s[T] + s[R] /\ T \cup R = DOMAIN w
  <2>1. R \in SUBSET DOMAIN w /\ T \cap R = {} /\ T \cup R = DOMAIN w
    OBVIOUS
  <2> HIDE DEF R
  <2>2. QED
    BY <2>1, SumOfTwo
<1>7. s[T] \in Nat
  BY SumIsNat
<1>8. QED
  BY <1>5, <1>6, <1>7

LEMMA Quotients ==
  ASSUME NEW u \in Nat, NEW v \in Nat \ {0}
  PROVE  u \div v \in Nat /\ (u = 0 => u \div v = 0)
OBVIOUS

(* What the first m parts make up.                                         *)
Joined(S, m) == UNION {S[i] : i \in 1 .. m}

(* Parts that share nothing sum to the sum of what they make up.           *)
LEMMA SumOfParts ==
  ASSUME NEW w, Amounts(w), NEW s, Sums(s, w), NEW M \in Nat,
         NEW S \in [1 .. M -> SUBSET DOMAIN w],
         \A i, j \in 1 .. M : i # j => S[i] \cap S[j] = {},
         NEW p, DOMAIN p = 1 .. M, \A i \in 1 .. M : p[i] = s[S[i]]
  PROVE  Amounts(p) /\ Total(p) = s[Joined(S, M)]
<1>1. Amounts(p)
  <2>1. IsFiniteSet(1 .. M)
    BY FS_Interval
  <2>2. \A i \in 1 .. M : S[i] \in SUBSET DOMAIN w
    OBVIOUS
  <2>3. \A i \in 1 .. M : p[i] \in Nat
    BY <2>2, SumIsNat
  <2>4. QED
    BY <2>1, <2>3 DEF Amounts
<1>2. PICK r : Sums(r, p) /\ Total(p) = r[1 .. M]
  BY <1>1, TotalIsASum
<1> DEFINE A == {m \in Nat : m <= M => r[1 .. m] = s[Joined(S, m)]}
<1>3. 0 \in A
  <2>1. 1 .. 0 = {} /\ Joined(S, 0) = {}
    BY DEF Joined
  <2>2. r[{}] = 0 /\ s[{}] = 0
    BY <1>2 DEF Sums
  <2>3. QED
    BY <2>1, <2>2
<1>4. ASSUME NEW m \in A PROVE m + 1 \in A
  <2>0. m \in Nat /\ m + 1 \in Nat /\ (m <= M => r[1 .. m] = s[Joined(S, m)])
    OBVIOUS
  <2> SUFFICES ASSUME m + 1 <= M PROVE r[1 .. m + 1] = s[Joined(S, m + 1)]
    BY <2>0
  <2>1. m \in Nat /\ r[1 .. m] = s[Joined(S, m)] /\ m + 1 \in 1 .. M
    BY <2>0
  <2>2. /\ (1 .. m + 1) \in SUBSET (1 .. M) /\ m + 1 \in 1 .. m + 1
        /\ (1 .. m + 1) \ {m + 1} = 1 .. m /\ 1 .. m + 1 = (1 .. m) \cup {m + 1}
    BY <2>1
  <2>3. r[1 .. m + 1] = p[m + 1] + r[1 .. m]
    <3>1. \A T \in SUBSET (1 .. M) : \A x \in T : r[T] = p[x] + r[T \ {x}]
      BY <1>2 DEF Sums
    <3>2. r[1 .. m + 1] = p[m + 1] + r[(1 .. m + 1) \ {m + 1}]
      BY <2>2, <3>1, Zenon
    <3>3. QED
      BY <2>2, <3>2
  <2>4. Joined(S, m + 1) = Joined(S, m) \cup S[m + 1]
    BY <2>2 DEF Joined
  <2>5. Joined(S, m) \in SUBSET DOMAIN w /\ S[m + 1] \in SUBSET DOMAIN w
    <3>1. \A i \in 1 .. M : S[i] \in SUBSET DOMAIN w
      OBVIOUS
    <3>2. \A i \in 1 .. m : i \in 1 .. M
      BY <2>1
    <3>3. QED
      BY <2>1, <3>1, <3>2 DEF Joined
  <2>6. Joined(S, m) \cap S[m + 1] = {}
    <3>1. \A i \in 1 .. m : i \in 1 .. M /\ i # m + 1
      BY <2>1
    <3>2. \A i \in 1 .. m : S[i] \cap S[m + 1] = {}
      BY <2>1, <3>1
    <3>3. QED
      BY <3>2 DEF Joined
  <2>7. s[Joined(S, m) \cup S[m + 1]] = s[Joined(S, m)] + s[S[m + 1]]
    BY <2>5, <2>6, SumOfTwo
  <2>8. s[Joined(S, m)] \in Nat /\ s[S[m + 1]] \in Nat
    BY <2>5, SumIsNat
  <2>9. p[m + 1] = s[S[m + 1]]
    BY <2>1
  <2>10. s[Joined(S, m + 1)] = s[Joined(S, m)] + s[S[m + 1]]
    BY <2>4, <2>7
  <2>11. r[1 .. m + 1] = s[S[m + 1]] + s[Joined(S, m)]
    BY <2>1, <2>3, <2>9
  <2>12. QED
    BY <2>8, <2>10, <2>11
<1>5. A \in SUBSET Nat
  OBVIOUS
<1> HIDE DEF A
<1>6. A = Nat
  BY <1>3, <1>4, <1>5, Induction
<1>7. r[1 .. M] = s[Joined(S, M)]
  BY <1>6 DEF A
<1>8. QED
  BY <1>1, <1>2, <1>7

LEMMA TotalOfBoth ==
  ASSUME NEW f, NEW g, NEW h, Amounts(f), Amounts(g), DOMAIN g = DOMAIN f, DOMAIN h = DOMAIN f,
         \A x \in DOMAIN f : h[x] = f[x] + g[x]
  PROVE  Amounts(h) /\ Total(h) = Total(f) + Total(g)
<1> DEFINE S == DOMAIN f
<1>1. Amounts(h)
  BY DEF Amounts
<1>2. PICK s : Sums(s, f) /\ Total(f) = s[S]
  BY TotalIsASum
<1>3. PICK r : Sums(r, g) /\ Total(g) = r[S]
  BY TotalIsASum
<1>4. PICK t : Sums(t, h) /\ Total(h) = t[S]
  BY <1>1, TotalIsASum
<1> DEFINE A == {T \in SUBSET S : t[T] = s[T] + r[T]}
<1>5. ASSUME NEW T \in SUBSET S, \A x \in T : T \ {x} \in A
      PROVE  T \in A
  <2>1. CASE T = {}
    BY <1>2, <1>3, <1>4, <2>1 DEF Sums
  <2>2. CASE T # {}
    <3>1. PICK x \in T : TRUE
      BY <2>2
    <3>2. s[T] = f[x] + s[T \ {x}] /\ r[T] = g[x] + r[T \ {x}] /\ t[T] = h[x] + t[T \ {x}]
      BY <1>2, <1>3, <1>4 DEF Sums
    <3>3. s[T \ {x}] \in Nat /\ r[T \ {x}] \in Nat /\ f[x] \in Nat /\ g[x] \in Nat
      BY <1>2, <1>3, SumIsNat DEF Amounts
    <3>4. t[T \ {x}] = s[T \ {x}] + r[T \ {x}] /\ h[x] = f[x] + g[x]
      BY <1>5
    <3>5. t[T] = s[T] + r[T]
      BY <3>2, <3>3, <3>4
    <3>6. QED
      BY <3>5
  <2>3. QED
    BY <2>1, <2>2
<1>6. A \in SUBSET SUBSET S /\ IsFiniteSet(S)
  BY DEF Amounts
<1> HIDE DEF A, S
<1>7. A = SUBSET S
  BY <1>5, <1>6, SubsetInduction
<1>8. QED
  BY <1>1, <1>2, <1>3, <1>4, <1>7 DEF A

LEMMA TotalTimes ==
  ASSUME NEW f, NEW h, Amounts(f), NEW c \in Nat, DOMAIN h = DOMAIN f,
         \A x \in DOMAIN f : h[x] = c * f[x]
  PROVE  Amounts(h) /\ Total(h) = c * Total(f)
<1>1. \A x \in DOMAIN f : f[x] \in Nat
  BY DEF Amounts
<1>2. \A x \in DOMAIN f : h[x] \in Nat /\ h[x] = 1 * h[x]
  BY <1>1
<1>3. Amounts(h)
  BY <1>2 DEF Amounts
<1>4. /\ \A x \in DOMAIN f : c * f[x] <= 1 * h[x]
      /\ \A x \in DOMAIN h : 1 * h[x] <= c * f[x]
  BY <1>1, <1>2
<1>5. c * Total(f) <= 1 * Total(h)
  BY <1>3, <1>4, TotalsCompare
<1>6. 1 * Total(h) <= c * Total(f)
  BY <1>3, <1>4, TotalsCompare
<1>7. Total(f) \in Nat /\ Total(h) \in Nat
  BY <1>3, TotalIsNat
<1>8. c * Total(f) \in Nat /\ 1 * Total(h) = Total(h)
  BY <1>7
<1>9. QED
  BY <1>3, <1>5, <1>6, <1>7, <1>8

(* Marks count what is marked.                                             *)
Marks(D, X) == [x \in D |-> IF x \in X THEN 1 ELSE 0]

LEMMA TotalOfMarks ==
  ASSUME NEW D, IsFiniteSet(D), NEW X \in SUBSET D
  PROVE  /\ Amounts(Marks(D, X)) /\ DOMAIN Marks(D, X) = D
         /\ Total(Marks(D, X)) = Cardinality(X) /\ Cardinality(X) \in Nat
<1> DEFINE w == Marks(D, X)
<1>1. DOMAIN w = D /\ \A x \in D : w[x] = IF x \in X THEN 1 ELSE 0
  BY DEF Marks
<1> HIDE DEF w
<1>2. Amounts(w)
  BY <1>1 DEF Amounts
<1>3. PICK s : Sums(s, w) /\ Total(w) = s[D]
  BY <1>1, <1>2, TotalIsASum
<1> DEFINE A == {T \in SUBSET D : s[T] = Cardinality(T \cap X)}
<1>4. ASSUME NEW T \in SUBSET D, \A x \in T : T \ {x} \in A
      PROVE  T \in A
  <2>1. CASE T = {}
    <3>1. T \cap X = {} /\ Cardinality({}) = 0
      BY <2>1, FS_EmptySet
    <3>2. QED
      BY <1>3, <2>1, <3>1 DEF Sums
  <2>2. CASE T # {}
    <3>1. PICK x \in T : TRUE
      BY <2>2
    <3>2. s[T] = w[x] + s[T \ {x}]
      BY <1>1, <1>3 DEF Sums
    <3>3. s[T \ {x}] = Cardinality((T \ {x}) \cap X)
      BY <1>4
    <3>4. IsFiniteSet(T \cap X)
      BY FS_Subset
    <3>5. CASE x \in X
      <4>1. (T \ {x}) \cap X = (T \cap X) \ {x} /\ x \in T \cap X
        BY <3>5
      <4>2. Cardinality((T \cap X) \ {x}) = Cardinality(T \cap X) - 1 /\ Cardinality(T \cap X) \in Nat
        BY <3>4, <4>1, FS_RemoveElement, FS_CardinalityType
      <4>3. s[T] = 1 + Cardinality((T \cap X) \ {x})
        BY <1>1, <3>2, <3>3, <3>5, <4>1
      <4>4. s[T] = Cardinality(T \cap X)
        BY <4>2, <4>3
      <4>5. QED
        BY <4>4
    <3>6. CASE x \notin X
      <4>1. (T \ {x}) \cap X = T \cap X
        BY <3>6
      <4>2. Cardinality(T \cap X) \in Nat
        BY <3>4, FS_CardinalityType
      <4>3. s[T] = 0 + Cardinality(T \cap X)
        BY <1>1, <3>2, <3>3, <3>6, <4>1
      <4>4. s[T] = Cardinality(T \cap X)
        BY <4>2, <4>3
      <4>5. QED
        BY <4>4
    <3>7. QED
      BY <3>5, <3>6
  <2>3. QED
    BY <2>1, <2>2
<1>5. A \in SUBSET SUBSET D
  OBVIOUS
<1> HIDE DEF A
<1>6. A = SUBSET D
  BY <1>4, <1>5, SubsetInduction
<1>7. s[D] = Cardinality(D \cap X) /\ D \cap X = X
  BY <1>6 DEF A
<1>8. Cardinality(X) \in Nat
  BY FS_Subset, FS_CardinalityType
<1>9. QED
  BY <1>1, <1>2, <1>3, <1>7, <1>8 DEF w

LEMMA TotalOfPoint ==
  ASSUME NEW D, IsFiniteSet(D), NEW a \in D, NEW r \in Nat,
         NEW w, DOMAIN w = D, \A x \in D : w[x] = IF x = a THEN r ELSE 0
  PROVE  Amounts(w) /\ Total(w) = r
<1> DEFINE m == Marks(D, {a})
<1>1. Amounts(m) /\ DOMAIN m = D /\ Total(m) = 1
  <2>1. {a} \in SUBSET D /\ Cardinality({a}) = 1
    BY FS_Singleton
  <2>2. Amounts(m) /\ DOMAIN m = D /\ Total(m) = Cardinality({a})
    BY <2>1, TotalOfMarks
  <2>3. QED
    BY <2>1, <2>2
<1>2. \A x \in D : w[x] = r * m[x]
  BY DEF Marks
<1> HIDE DEF m
<1>3. Amounts(w) /\ Total(w) = r * Total(m)
  BY <1>1, <1>2, TotalTimes
<1>4. QED
  BY <1>1, <1>3

LEMMA TotalIsZero ==
  ASSUME NEW w, Amounts(w), \A x \in DOMAIN w : w[x] = 0
  PROVE  Total(w) = 0
<1>1. PICK s : Sums(s, w) /\ Total(w) = s[DOMAIN w]
  BY TotalIsASum
<1>2. s[DOMAIN w] = s[{}]
  BY <1>1, SumOutside
<1>3. s[{}] = 0
  BY <1>1 DEF Sums
<1>4. QED
  BY <1>1, <1>2, <1>3

(* A count of a subset is no greater.                                      *)
LEMMA FewerIn ==
  ASSUME NEW D, IsFiniteSet(D), NEW X \in SUBSET D
  PROVE  Cardinality(X) <= Cardinality(D) /\ IsFiniteSet(X)
         /\ Cardinality(X) \in Nat /\ Cardinality(D) \in Nat
BY FS_Subset, FS_CardinalityType

-----------------------------------------------------------------------------
(***************************************************************************)
(* A table of basis points is whole: the largest remainders are as many as *)
(* the basis points flooring leaves over.                                  *)
(***************************************************************************)
(* In the order of remainders, bins that tie in the order of their ids.    *)
Ahead(T, fr, b) == {c \in T : fr[c] > fr[b] \/ (fr[c] = fr[b] /\ c < b)}
Leading(T, fr, n) == {b \in T : Cardinality(Ahead(T, fr, b)) < n}

LEMMA LastOfAll ==
  ASSUME NEW N \in Nat, NEW T \in SUBSET (0 .. N), T # {}, NEW K \in Nat, NEW fr,
         \A b \in T : fr[b] \in 0 .. K
  PROVE  \E m \in T : \A c \in T \ {m} : c \in Ahead(T, fr, m) /\ m \notin Ahead(T, fr, c)
<1> DEFINE V == {fr[b] : b \in T}
           low == Min(V)
           L == {b \in T : fr[b] = low}
           m == Max(L)
<1>0. \A b \in T : b \in Nat /\ fr[b] \in Nat
  <2>1. \A b \in T : b \in 0 .. N
    OBVIOUS
  <2>2. QED
    BY <2>1
<1>1. V \in SUBSET Nat /\ V # {}
  BY <1>0
<1>2. low \in V /\ \A v \in V : low <= v
  BY <1>1, MinIsLeast
<1>3. low \in Nat /\ \A b \in T : low <= fr[b]
  BY <1>0, <1>2
<1>4. L # {} /\ L \in SUBSET (0 .. N)
  BY <1>2
<1> HIDE DEF low
<1>5. m \in L /\ \A b \in L : m >= b
  BY <1>4, MaxIsGreatest
<1>6. m \in T /\ fr[m] = low /\ m \in Nat
  BY <1>0, <1>5
<1>7. ASSUME NEW c \in T \ {m} PROVE c \in Ahead(T, fr, m) /\ m \notin Ahead(T, fr, c)
  <2>1. c \in T /\ c # m /\ c \in Nat /\ fr[c] \in Nat /\ low <= fr[c]
    BY <1>0, <1>3
  <2>2. fr[c] = low => m >= c
    BY <1>5, <2>1
  <2> HIDE DEF m, L, V
  <2>3. fr[c] = low => c < m
    BY <1>6, <2>1, <2>2
  <2>4. fr[c] > low \/ (fr[c] = low /\ c < m)
    BY <1>3, <2>1, <2>3
  <2>5. ~(low > fr[c] \/ (low = fr[c] /\ m < c))
    BY <1>3, <1>6, <2>1, <2>3
  <2>6. QED
    BY <1>6, <2>1, <2>4, <2>5 DEF Ahead
<1>8. QED
  BY <1>6, <1>7

LEMMA LeadersCount ==
  ASSUME NEW N \in Nat, NEW W \in SUBSET (0 .. N), NEW K \in Nat, NEW fr,
         \A b \in W : fr[b] \in 0 .. K
  PROVE  \A n \in 0 .. Cardinality(W) : Cardinality(Leading(W, fr, n)) = n
<1> DEFINE A == {T \in SUBSET W : \A n \in 0 .. Cardinality(T) : Cardinality(Leading(T, fr, n)) = n}
<1>0. IsFiniteSet(W)
  <2>1. IsFiniteSet(0 .. N)
    BY FS_Interval
  <2>2. QED
    BY <2>1, FS_Subset
<1>1. ASSUME NEW T \in SUBSET W, \A x \in T : T \ {x} \in A
      PROVE  T \in A
  <2>0. IsFiniteSet(T) /\ Cardinality(T) \in Nat
    BY <1>0, FS_Subset, FS_CardinalityType
  <2>1. CASE T = {}
    <3>1. Cardinality(T) = 0
      BY <2>1, FS_EmptySet
    <3>2. \A n : Leading(T, fr, n) = {}
      BY <2>1 DEF Leading
    <3>3. \A n \in 0 .. 0 : n = 0
      OBVIOUS
    <3>4. QED
      BY <2>1, <3>1, <3>2, <3>3
  <2>2. CASE T # {}
    <3>1. PICK m \in T : \A c \in T \ {m} : c \in Ahead(T, fr, m) /\ m \notin Ahead(T, fr, c)
      <4>1. T \in SUBSET (0 .. N) /\ \A b \in T : fr[b] \in 0 .. K
        OBVIOUS
      <4>2. QED
        BY <2>2, <4>1, LastOfAll
    <3> DEFINE R == T \ {m}
    <3>2. IsFiniteSet(R) /\ Cardinality(R) = Cardinality(T) - 1 /\ Cardinality(R) \in Nat
      BY <2>0, FS_RemoveElement, FS_CardinalityType
    <3>3. \A b \in R : Ahead(T, fr, b) = Ahead(R, fr, b)
      BY <3>1 DEF Ahead
    <3>4. Ahead(T, fr, m) = R
      <4>1. m \notin Ahead(T, fr, m)
        <5>1. m \in Nat /\ fr[m] \in Nat
          <6>1. m \in 0 .. N /\ fr[m] \in 0 .. K
            OBVIOUS
          <6>2. QED
            BY <6>1
        <5>2. QED
          BY <5>1 DEF Ahead
      <4>2. Ahead(T, fr, m) \subseteq T
        BY DEF Ahead
      <4>3. QED
        BY <3>1, <4>1, <4>2
    <3>5. R \in A
      BY <1>1
    <3>6. \A b \in R : Cardinality(Ahead(R, fr, b)) \in Nat
                       /\ Cardinality(Ahead(R, fr, b)) <= Cardinality(R)
      <4>1. \A b \in R : Ahead(R, fr, b) \in SUBSET R
        BY DEF Ahead
      <4> HIDE DEF R
      <4>2. QED
        BY <3>2, <4>1, FewerIn
    <3>7. ASSUME NEW n \in 0 .. Cardinality(T)
          PROVE  Cardinality(Leading(T, fr, n)) = n
      <4>1. CASE n <= Cardinality(R)
        <5>1. m \notin Leading(T, fr, n)
          BY <3>2, <3>4, <4>1 DEF Leading
        <5>2. Leading(T, fr, n) = Leading(R, fr, n)
          BY <3>3, <5>1 DEF Leading
        <5>3. n \in 0 .. Cardinality(R)
          BY <3>2, <4>1
        <5>4. Cardinality(Leading(R, fr, n)) = n
          BY <3>5, <5>3
        <5>5. QED
          BY <5>2, <5>4
      <4>2. CASE ~(n <= Cardinality(R))
        <5>1. n = Cardinality(T) /\ Cardinality(R) < n
          BY <2>0, <3>2, <4>2
        <5>2. ASSUME NEW b \in R PROVE Cardinality(Ahead(T, fr, b)) < n
          <6>1. Ahead(T, fr, b) = Ahead(R, fr, b)
            BY <3>3
          <6>2. /\ Cardinality(Ahead(R, fr, b)) \in Nat
                /\ Cardinality(Ahead(R, fr, b)) <= Cardinality(R)
            BY <3>6
          <6>3. n \in Nat
            BY <2>0, <5>1
          <6> HIDE DEF R
          <6>4. Cardinality(Ahead(R, fr, b)) < n
            BY <3>2, <5>1, <6>2, <6>3
          <6>5. QED
            BY <6>1, <6>4
        <5>3. Cardinality(Ahead(T, fr, m)) < n
          BY <3>4, <5>1
        <5>4. Leading(T, fr, n) = T
          BY <5>2, <5>3 DEF Leading
        <5>5. QED
          BY <5>1, <5>4
      <4>3. QED
        BY <4>1, <4>2
    <3>8. QED
      BY <3>7
  <2>3. QED
    BY <2>1, <2>2
<1>2. A \in SUBSET SUBSET W
  OBVIOUS
<1> HIDE DEF A
<1>3. A = SUBSET W
  BY <1>0, <1>1, <1>2, SubsetInduction
<1>4. QED
  BY <1>3 DEF A

Fraction(w) == [b \in DOMAIN w |-> (w[b] * One) % Total(w)]
Weighted(w) == {b \in DOMAIN w : w[b] > 0}
Favoured(w) == Leading(Weighted(w), Fraction(w), One - Total([b \in DOMAIN w |-> (w[b] * One) \div Total(w)]))

LEMMA ToBpsIs ==
  ASSUME NEW w
  PROVE  /\ DOMAIN ToBps(w) = DOMAIN w
         /\ \A b \in DOMAIN w :
              ToBps(w)[b] = IF Total(w) = 0 THEN 0
                            ELSE (w[b] * One) \div Total(w) + (IF b \in Favoured(w) THEN 1 ELSE 0)
<1> DEFINE total == Total(w)
           floor == [b \in DOMAIN w |-> (w[b] * One) \div total]
           frac(b) == (w[b] * One) % total
           weighted == {b \in DOMAIN w : w[b] > 0}
           left == One - Total(floor)
           ahead(b) == {c \in weighted : frac(c) > frac(b) \/ (frac(c) = frac(b) /\ c < b)}
           extra(b) == b \in weighted /\ Cardinality(ahead(b)) < left
<1>1. ToBps(w) = [b \in DOMAIN w |->
                    IF total = 0 THEN 0 ELSE floor[b] + (IF extra(b) THEN 1 ELSE 0)]
  BY Zenon DEF ToBps
<1>2. ASSUME NEW b \in DOMAIN w PROVE extra(b) <=> b \in Favoured(w)
  <2>1. Weighted(w) = weighted /\ \A c \in DOMAIN w : Fraction(w)[c] = frac(c)
    BY DEF Weighted, Fraction
  <2>2. ASSUME NEW c \in weighted PROVE Ahead(weighted, Fraction(w), c) = ahead(c)
    BY <2>1 DEF Ahead
  <2>3. Favoured(w) = Leading(weighted, Fraction(w), left)
    BY <2>1, Zenon DEF Favoured
  <2> HIDE DEF ahead, left, weighted
  <2>4. Favoured(w) = {c \in weighted : Cardinality(Ahead(weighted, Fraction(w), c)) < left}
    BY <2>3 DEF Leading
  <2>5. QED
    BY <2>2, <2>4
<1>3. ASSUME NEW b \in DOMAIN w PROVE floor[b] = (w[b] * One) \div total
  OBVIOUS
<1> HIDE DEF extra, floor
<1>4. QED
  BY <1>1, <1>2, <1>3

(* A bin of no weight gets no basis points, though they be left over.      *)
LEMMA ToBpsOfNone ==
  ASSUME NEW w, Amounts(w), NEW b \in DOMAIN w, w[b] = 0
  PROVE  ToBps(w)[b] = 0
<1>1. One \in Nat /\ Total(w) \in Nat
  BY ShapeAssumption, TotalIsNat
<1>2. b \notin Favoured(w)
  BY DEF Favoured, Leading, Weighted
<1>3. \A t \in Nat \ {0}, k \in Nat : (0 * k) \div t = 0
  OBVIOUS
<1>4. Total(w) # 0 => (w[b] * One) \div Total(w) = 0
  BY <1>1, <1>3
<1>5. QED
  BY <1>2, <1>4, ToBpsIs

LEMMA ToBpsIsWhole ==
  ASSUME NEW w, Amounts(w), NEW N \in Nat, DOMAIN w \subseteq 0 .. N, Total(w) # 0
  PROVE  Amounts(ToBps(w)) /\ DOMAIN ToBps(w) = DOMAIN w /\ Total(ToBps(w)) = One
<1> DEFINE D == DOMAIN w
           total == Total(w)
           floor == [b \in D |-> (w[b] * One) \div total]
           fr == Fraction(w)
           E == Favoured(w)
           X == Weighted(w)
<1>1. One \in Nat \ {0} /\ total \in Nat \ {0} /\ IsFiniteSet(D) /\ \A b \in D : w[b] \in Nat
  BY ShapeAssumption, TotalIsNat DEF Amounts
<1>2. DOMAIN floor = D /\ DOMAIN fr = D /\ X \in SUBSET D
      /\ \A b \in D : floor[b] = (w[b] * One) \div total /\ fr[b] = (w[b] * One) % total
  BY DEF Fraction, Weighted
<1>3. E = Leading(X, fr, One - Total(floor))
  BY Zenon DEF Favoured
<1> HIDE DEF floor, fr, total, E
<1>4. ASSUME NEW b \in D
      PROVE  /\ floor[b] \in Nat /\ fr[b] \in 0 .. total - 1 /\ fr[b] \in Nat
             /\ One * w[b] = total * floor[b] + fr[b]
  <2>1. w[b] * One \in Nat /\ One * w[b] = w[b] * One
    BY <1>1
  <2>2. ASSUME NEW a \in Nat, NEW t \in Nat \ {0}, NEW q, NEW m, q = a \div t, m = a % t
        PROVE  q \in Nat /\ m \in 0 .. t - 1 /\ m \in Nat /\ a = t * q + m
    <3>1. q \in Nat /\ m \in 0 .. t - 1 /\ a = q * t + m
      BY <2>2, Division
    <3>2. m \in Nat /\ q * t = t * q
      BY <3>1
    <3>3. QED
      BY <3>1, <3>2
  <2>3. floor[b] \in Nat /\ fr[b] \in 0 .. total - 1 /\ fr[b] \in Nat
        /\ w[b] * One = total * floor[b] + fr[b]
    BY <1>1, <1>2, <2>1, <2>2
  <2>4. QED
    BY <2>1, <2>3
<1>5. Amounts(floor) /\ Amounts(fr)
  BY <1>1, <1>2, <1>4 DEF Amounts
<1> DEFINE whole == [b \in D |-> One * w[b]]
           share == [b \in D |-> total * floor[b]]
<1>6. Amounts(whole) /\ Total(whole) = One * total
  <2>1. DOMAIN whole = D /\ \A b \in D : whole[b] = One * w[b]
    OBVIOUS
  <2> HIDE DEF whole
  <2>2. QED
    BY <1>1, <2>1, TotalTimes DEF total
<1>7. Amounts(share) /\ Total(share) = total * Total(floor)
  <2>1. DOMAIN share = DOMAIN floor /\ \A b \in DOMAIN floor : share[b] = total * floor[b]
    BY <1>2
  <2> HIDE DEF share
  <2>2. QED
    BY <1>1, <1>5, <2>1, TotalTimes
<1>8. Total(whole) = Total(share) + Total(fr)
  <2>1. DOMAIN share = D /\ DOMAIN whole = D /\ \A b \in D : whole[b] = share[b] + fr[b]
    BY <1>4
  <2> HIDE DEF share, whole, D
  <2>2. QED
    BY <1>2, <1>5, <1>7, <2>1, TotalOfBoth
<1> HIDE DEF whole, share
<1> DEFINE F == Total(floor)
           R == Total(fr)
           n == Cardinality(X)
<1>9. F \in Nat /\ R \in Nat /\ One * total = total * F + R
  BY <1>5, <1>6, <1>7, <1>8, TotalIsNat
<1>10. n \in Nat /\ R <= total * n
  <2> DEFINE m == Marks(D, X)
  <2>1. Amounts(m) /\ DOMAIN m = D /\ Total(m) = n /\ n \in Nat
    BY <1>1, <1>2, TotalOfMarks
  <2>2. ASSUME NEW b \in D PROVE 1 * fr[b] <= total * m[b]
    <3>1. m[b] = IF b \in X THEN 1 ELSE 0
      BY DEF Marks
    <3> HIDE DEF m, X
    <3>2. CASE b \in X
      BY <1>1, <1>4, <3>1, <3>2
    <3>3. CASE b \notin X
      <4>1. w[b] = 0
        BY <1>1, <3>3 DEF X, Weighted
      <4>2. \A k, t \in Nat : t # 0 => (0 * k) % t = 0
        OBVIOUS
      <4>3. fr[b] = 0
        BY <1>1, <1>2, <4>1, <4>2
      <4>4. QED
        BY <1>1, <3>1, <3>3, <4>3
    <3>4. QED
      BY <3>2, <3>3
  <2> HIDE DEF m, n, X
  <2>3. 1 * Total(fr) <= total * Total(m)
    BY <1>1, <1>2, <1>5, <2>1, <2>2, TotalsCompare
  <2>4. 1 * R = R
    BY <1>9
  <2>5. QED
    BY <2>1, <2>3, <2>4
<1> HIDE DEF F, R, n
<1>11. One - F \in 0 .. n
  <2>1. \A o, t, f, r, k \in Nat : t # 0 /\ o * t = t * f + r /\ r <= t * k => f <= o /\ o <= f + k
    <3> SUFFICES ASSUME NEW o \in Nat, NEW t \in Nat, NEW f \in Nat, NEW r \in Nat, NEW k \in Nat,
                        t # 0, o * t = t * f + r, r <= t * k
                 PROVE  f <= o /\ o <= f + k
      OBVIOUS
    <3>1. \A a, c \in Nat : t * a <= t * c => a <= c
      <4> SUFFICES ASSUME NEW a \in Nat, NEW c \in Nat, c + 1 <= a PROVE t * c < t * a
        OBVIOUS
      <4>1. t * (c + 1) = t * c + t /\ t * c \in Nat
        OBVIOUS
      <4>2. t * (c + 1) <= t * a
        <5>1. a - (c + 1) \in Nat
          OBVIOUS
        <5>2. t * (a - (c + 1)) \in Nat
          BY <5>1
        <5>3. t * a = t * (c + 1) + t * (a - (c + 1))
          OBVIOUS
        <5>4. t * (c + 1) \in Nat /\ t * a \in Nat
          OBVIOUS
        <5>5. QED
          BY <5>2, <5>3, <5>4
      <4>3. t * a \in Nat
        OBVIOUS
      <4>4. QED
        BY <4>1, <4>2, <4>3
    <3>2. t * f \in Nat /\ t * k \in Nat /\ o * t = t * o /\ t * o \in Nat /\ t * (f + k) = t * f + t * k
      OBVIOUS
    <3>3. t * f <= t * o /\ t * o <= t * (f + k)
      BY <3>2
    <3>4. f + k \in Nat
      OBVIOUS
    <3>5. QED
      BY <3>1, <3>3, <3>4
  <2>2. F <= One /\ One <= F + n
    BY <1>1, <1>9, <1>10, <2>1
  <2>3. QED
    BY <1>1, <1>9, <1>10, <2>2
<1>12. Cardinality(E) = One - F /\ E \in SUBSET D
  <2>1. X \in SUBSET (0 .. N) /\ total \in Nat /\ \A b \in X : fr[b] \in 0 .. total
    <3>1. \A b \in X : fr[b] \in 0 .. total - 1
      BY <1>2, <1>4
    <3>2. \A v \in 0 .. total - 1 : v \in 0 .. total
      BY <1>1
    <3>3. QED
      BY <1>1, <1>2, <3>1, <3>2
  <2> HIDE DEF X
  <2>2. \A v \in 0 .. n : Cardinality(Leading(X, fr, v)) = v
    BY <2>1, LeadersCount DEF n
  <2>3. Leading(X, fr, One - F) \subseteq X
    BY DEF Leading
  <2>4. QED
    BY <1>2, <1>3, <1>11, <2>2, <2>3 DEF F
<1> DEFINE m == Marks(D, E)
<1>13. Amounts(m) /\ DOMAIN m = D /\ Total(m) = One - F
  BY <1>1, <1>12, TotalOfMarks
<1>14. DOMAIN ToBps(w) = D /\ \A b \in D : ToBps(w)[b] = floor[b] + m[b]
  <2>1. \A b \in D : m[b] = IF b \in E THEN 1 ELSE 0
    BY DEF Marks
  <2> HIDE DEF m
  <2>2. QED
    BY <1>1, <1>2, <2>1, ToBpsIs DEF total, E
<1> HIDE DEF m
<1>15. Amounts(ToBps(w)) /\ Total(ToBps(w)) = F + (One - F)
  <2> HIDE DEF D
  <2>1. Amounts(ToBps(w)) /\ Total(ToBps(w)) = Total(floor) + Total(m)
    BY <1>2, <1>5, <1>13, <1>14, TotalOfBoth
  <2>2. QED
    BY <1>13, <2>1 DEF F
<1>16. QED
  BY <1>1, <1>9, <1>14, <1>15

(* The scale of a split, the shares of it, and the entry that takes what   *)
(* rounding leaves.                                                        *)
Scaled(weights) ==
  [k \in DOMAIN weights |-> (2 * weights[k] * Scale + Total(weights)) \div (2 * Total(weights))]
Shares(total, weights) ==
  [k \in DOMAIN weights |-> (total * Scaled(weights)[k]) \div Total(Scaled(weights))]
Heaviest(weights) ==
  {k \in DOMAIN weights : \A j \in DOMAIN weights : Scaled(weights)[j] <= Scaled(weights)[k]}

LEMMA AllocateIs ==
  ASSUME NEW total, NEW weights
  PROVE  /\ DOMAIN Allocate(total, weights) = DOMAIN weights
         /\ \A k \in DOMAIN weights :
              Allocate(total, weights)[k] =
                IF Total(weights) = 0 \/ Total(Scaled(weights)) = 0 THEN 0
                ELSE Shares(total, weights)[k]
                       + (IF k = Min(Heaviest(weights)) THEN total - Total(Shares(total, weights)) ELSE 0)
<1> DEFINE D == DOMAIN weights
           sum == Total(weights)
           scaled == [k \in D |-> (2 * weights[k] * Scale + sum) \div (2 * sum)]
           all == Total(scaled)
           out == [k \in D |-> (total * scaled[k]) \div all]
           heaviest == Min({k \in D : \A j \in D : scaled[j] <= scaled[k]})
<1>1. Allocate(total, weights) =
        [k \in D |-> IF sum = 0 \/ all = 0 THEN 0
                     ELSE out[k] + (IF k = heaviest THEN total - Total(out) ELSE 0)]
  BY Zenon DEF Allocate
<1>2. Scaled(weights) = scaled
  BY Zenon DEF Scaled
<1>3. Shares(total, weights) = out
  BY <1>2, Zenon DEF Shares, Scaled
<1>4. Min(Heaviest(weights)) = heaviest
  BY <1>2, Zenon DEF Heaviest, Scaled
<1> HIDE DEF heaviest, out, scaled, sum
<1>5. QED
  BY <1>1, <1>2, <1>3, <1>4 DEF sum

LEMMA ScaledIs ==
  ASSUME NEW weights, Amounts(weights), NEW k \in DOMAIN weights, Total(weights) # 0
  PROVE  /\ Scaled(weights)[k] \in Nat
         /\ weights[k] = 0 => Scaled(weights)[k] = 0
         /\ weights[k] * Scale >= Total(weights) => Scaled(weights)[k] >= 1
<1>1. weights[k] \in Nat /\ Total(weights) \in Nat \ {0} /\ Scale \in Nat
  BY DepositAssumption, TotalIsNat DEF Amounts
<1>2. Scaled(weights)[k] = (2 * weights[k] * Scale + Total(weights)) \div (2 * Total(weights))
  BY DEF Scaled
<1>3. ASSUME NEW u \in Nat, NEW v \in Nat, NEW s \in Nat \ {0}, NEW q, q = (2 * u * v + s) \div (2 * s)
      PROVE  q \in Nat /\ (u = 0 => q = 0) /\ (u * v >= s => q >= 1)
  <2> DEFINE a == 2 * u * v + s
             n == 2 * s
  <2>1. a \in Nat /\ n \in Nat \ {0}
    BY <1>3
  <2>2. u * v \in Nat /\ a = 2 * (u * v) + s
    OBVIOUS
  <2>3. q = a \div n
    BY <1>3
  <2>4. (u = 0 => a < n) /\ (u * v >= s => a >= n)
    <3>1. u = 0 => u * v = 0
      OBVIOUS
    <3> DEFINE c == u * v
    <3> HIDE DEF a
    <3>2. c \in Nat /\ a = 2 * c + s /\ (u = 0 => c = 0)
      BY <2>2, <3>1
    <3> HIDE DEF c
    <3>3. QED
      BY <3>2, <1>3 DEF c
  <2> HIDE DEF a, n
  <2>5. \A o \in Nat, t \in Nat \ {0} : o \div t \in Nat /\ (o < t => o \div t = 0) /\ (o >= t => o \div t >= 1)
    OBVIOUS
  <2>6. QED
    BY <2>1, <2>3, <2>4, <2>5
<1> DEFINE u == weights[k]
           s == Total(weights)
           q == Scaled(weights)[k]
<1>4. u \in Nat /\ s \in Nat \ {0} /\ q = (2 * u * Scale + s) \div (2 * s)
  BY <1>1, <1>2
<1> HIDE DEF u, s, q
<1>5. q \in Nat /\ (u = 0 => q = 0) /\ (u * Scale >= s => q >= 1)
  BY <1>1, <1>3, <1>4
<1>6. QED
  BY <1>5 DEF u, s, q

LEMMA TimesReflects ==
  ASSUME NEW a \in Nat \ {0}, NEW u \in Nat, NEW v \in Nat, a * u <= v * a
  PROVE  u <= v
<1> SUFFICES ASSUME u > v PROVE a * u > v * a
  OBVIOUS
<1>1. u - v - 1 \in Nat /\ u = v + 1 + (u - v - 1)
  OBVIOUS
<1>2. PICK e \in Nat : u = v + 1 + e
  BY <1>1
<1>3. a * u = v * a + a + a * e /\ a * e \in Nat /\ v * a \in Nat
  BY <1>2
<1>4. QED
  BY <1>3

(* With entries enough for the scale, one of them is sure of a unit of it. *)
LEMMA SomeShare ==
  ASSUME NEW weights, Amounts(weights), NEW M \in Nat, DOMAIN weights = 1 .. M, M <= Scale,
         Total(weights) # 0
  PROVE  \E k \in 1 .. M : weights[k] * Scale >= Total(weights)
<1> DEFINE sum == Total(weights)
           D == 1 .. M
           ones == Marks(D, D)
<1>1. sum \in Nat \ {0} /\ Scale \in Nat /\ \A k \in D : weights[k] \in Nat
  BY DepositAssumption, TotalIsNat DEF Amounts
<1>2. IsFiniteSet(D) /\ Cardinality(D) = M
  BY FS_Interval
<1>3. Amounts(ones) /\ DOMAIN ones = D /\ Total(ones) = M
  BY <1>2, TotalOfMarks
<1>4. \A k \in D : ones[k] = 1
  BY DEF Marks
<1> HIDE DEF ones, sum, D
<1>5. M # 0
  <2>1. M = 0 => D = {}
    BY DEF D
  <2>2. QED
    BY <1>1, <2>1, TotalOfNone DEF sum, D
<1>6. SUFFICES ASSUME \A k \in D : ~(weights[k] * Scale >= sum) PROVE FALSE
  BY DEF sum, D
<1>7. ASSUME NEW k \in D PROVE M * weights[k] <= (sum - 1) * ones[k]
  <2> DEFINE u == weights[k]
  <2>1. u \in Nat /\ ~(u * Scale >= sum) /\ ones[k] = 1
    BY <1>1, <1>4, <1>6
  <2> HIDE DEF u
  <2>2. \A m, e, v \in Nat : m <= e => m * v <= v * e
    <3> SUFFICES ASSUME NEW m \in Nat, NEW e \in Nat, NEW v \in Nat, m <= e
                 PROVE  m * v <= v * e
      OBVIOUS
    <3>1. e - m \in Nat /\ e = m + (e - m)
      OBVIOUS
    <3>2. PICK r \in Nat : e = m + r
      BY <3>1
    <3>3. v * e = m * v + v * r /\ v * r \in Nat /\ m * v \in Nat
      BY <3>2
    <3>4. QED
      BY <3>3
  <2>3. M * u <= u * Scale
    BY <1>1, <2>1, <2>2
  <2>4. M * u \in Nat /\ u * Scale \in Nat
    BY <1>1, <2>1
  <2>5. M * u <= sum - 1
    BY <1>1, <2>1, <2>3, <2>4
  <2>6. (sum - 1) * ones[k] = sum - 1
    BY <1>1, <2>1
  <2>7. QED
    BY <2>5, <2>6 DEF u
<1>8. M * Total(weights) <= (sum - 1) * Total(ones)
  <2>1. sum - 1 \in Nat /\ DOMAIN weights = DOMAIN ones
    BY <1>1, <1>3 DEF D
  <2>2. \A k \in DOMAIN weights : M * weights[k] <= (sum - 1) * ones[k]
    BY <1>7 DEF D
  <2>3. QED
    BY <1>3, <2>1, <2>2, TotalsCompare
<1>9. M * sum <= (sum - 1) * M
  BY <1>3, <1>8 DEF sum
<1>10. (sum - 1) * M = M * sum - M /\ M * sum \in Nat
  BY <1>1
<1>11. QED
  BY <1>5, <1>9, <1>10

(* A split hands out all there is, and nothing to an entry of no weight.   *)
LEMMA AllocateIsWhole ==
  ASSUME NEW total \in Nat, NEW weights, Amounts(weights), NEW M \in Nat,
         DOMAIN weights = 1 .. M, M <= Scale, Total(weights) # 0
  PROVE  /\ Amounts(Allocate(total, weights)) /\ DOMAIN Allocate(total, weights) = 1 .. M
         /\ Total(Allocate(total, weights)) = total
         /\ \A k \in 1 .. M : weights[k] = 0 => Allocate(total, weights)[k] = 0
<1> DEFINE D == 1 .. M
           scaled == Scaled(weights)
           all == Total(scaled)
           out == Shares(total, weights)
           top == Heaviest(weights)
           h == Min(top)
           A == Allocate(total, weights)
<1>1. IsFiniteSet(D) /\ D \subseteq 0 .. M /\ D \subseteq Nat
  BY FS_Interval
<1>2. DOMAIN scaled = D /\ DOMAIN out = D /\ DOMAIN A = D
  BY AllocateIs DEF Scaled, Shares
<1>3. /\ \A k \in D : scaled[k] \in Nat /\ (weights[k] = 0 => scaled[k] = 0)
      /\ \E k \in D : scaled[k] >= 1
  <2>1. PICK k \in D : weights[k] * Scale >= Total(weights)
    BY SomeShare
  <2> HIDE DEF scaled
  <2>2. QED
    BY <2>1, ScaledIs DEF scaled
<1>4. \A k \in D : out[k] = (total * scaled[k]) \div all
  BY DEF Shares
<1>5. top = {k \in D : \A j \in D : scaled[j] <= scaled[k]}
  BY DEF Heaviest
<1>6. all = 0 \/ \A k \in D : A[k] = out[k] + (IF k = h THEN total - Total(out) ELSE 0)
  BY AllocateIs
<1> HIDE DEF D, scaled, out, h, top, A
<1>7. Amounts(scaled)
  BY <1>1, <1>2, <1>3 DEF Amounts
<1>8. all \in Nat \ {0}
  <2>1. PICK k \in D : scaled[k] >= 1
    BY <1>3
  <2>2. scaled[k] <= all /\ all \in Nat /\ scaled[k] \in Nat
    BY <1>2, <1>3, <1>7, TotalAtLeast, TotalIsNat
  <2> HIDE DEF all
  <2>3. QED
    BY <2>1, <2>2
<1>9. ASSUME NEW k \in D
      PROVE  out[k] \in Nat /\ all * out[k] <= total * scaled[k] /\ (scaled[k] = 0 => out[k] = 0)
  <2>1. scaled[k] \in Nat /\ total * scaled[k] \in Nat
    BY <1>3
  <2>2. scaled[k] = 0 => total * scaled[k] = 0
    OBVIOUS
  <2>3. \A u \in Nat, v \in Nat \ {0} : u \div v \in Nat /\ v * (u \div v) <= u /\ (u = 0 => u \div v = 0)
    OBVIOUS
  <2> HIDE DEF all
  <2>4. QED
    BY <1>4, <1>8, <2>1, <2>2, <2>3
<1>10. Amounts(out) /\ Total(out) \in Nat
  BY <1>1, <1>2, <1>9, TotalIsNat DEF Amounts
<1>11. all * Total(out) <= total * all
  BY <1>2, <1>7, <1>8, <1>9, <1>10, TotalsCompare
<1> HIDE DEF all
<1>12. Total(out) <= total
  BY <1>8, <1>10, <1>11, TimesReflects
<1>13. h \in top /\ top \subseteq D
  <2>1. top # {}
    <3> DEFINE V == {scaled[k] : k \in D}
    <3>1. V \subseteq 0 .. all
      BY <1>2, <1>3, <1>7, <1>8, TotalAtLeast DEF all
    <3>2. V # {}
      BY <1>3
    <3>3. Max(V) \in V /\ \A v \in V : Max(V) >= v
      BY <1>8, <3>1, <3>2, MaxIsGreatest
    <3>4. PICK k \in D : scaled[k] = Max(V)
      BY <3>3
    <3>5. \A j \in D : scaled[j] <= scaled[k]
      BY <1>3, <3>3, <3>4
    <3>6. QED
      BY <1>5, <3>5
  <2>2. top \subseteq D
    BY <1>5
  <2>3. top \in SUBSET Nat
    BY <1>1, <2>2
  <2>4. QED
    BY <2>1, <2>2, <2>3, MinIsLeast DEF h
<1>14. scaled[h] >= 1
  BY <1>3, <1>5, <1>13
<1> DEFINE rest == total - Total(out)
           point == [k \in D |-> IF k = h THEN rest ELSE 0]
<1>15. rest \in Nat
  BY <1>10, <1>12
<1>16. Amounts(point) /\ Total(point) = rest /\ DOMAIN point = D
       /\ \A k \in D : point[k] = IF k = h THEN rest ELSE 0
  <2>1. DOMAIN point = D /\ \A k \in D : point[k] = IF k = h THEN rest ELSE 0
    OBVIOUS
  <2> HIDE DEF point, rest
  <2>2. h \in D
    BY <1>13
  <2>3. IsFiniteSet(D)
    BY <1>1
  <2>4. Amounts(point) /\ Total(point) = rest
    <3>1. ASSUME NEW w, DOMAIN w = D, \A x \in D : w[x] = IF x = h THEN rest ELSE 0
          PROVE  Amounts(w) /\ Total(w) = rest
      BY <1>15, <2>2, <2>3, <3>1, TotalOfPoint
    <3>2. QED
      BY <2>1, <3>1
  <2>5. QED
    BY <2>1, <2>4
<1>17. \A k \in D : A[k] = out[k] + point[k]
  BY <1>6, <1>8, <1>16
<1> HIDE DEF point
<1>18. Amounts(A) /\ Total(A) = Total(out) + rest
  BY <1>2, <1>10, <1>16, <1>17, TotalOfBoth
<1>19. \A k \in D : weights[k] = 0 => A[k] = 0
  <2> SUFFICES ASSUME NEW k \in D, weights[k] = 0 PROVE A[k] = 0
    OBVIOUS
  <2>1. scaled[k] = 0 /\ out[k] = 0
    BY <1>3, <1>9
  <2>2. k # h
    BY <1>14, <2>1
  <2>3. QED
    BY <1>16, <1>17, <2>1, <2>2
<1>20. QED
  BY <1>2, <1>10, <1>18, <1>19 DEF A, D

(* A side with a bin has weight in one of them, whatever its shape, its    *)
(* blend and the part its active bin keeps.                                *)
LEMMA RampHasWeight ==
  ASSUME NEW shape, NEW S \in SUBSET Bins, S # {}, NEW at \in Bins
  PROVE  \E b \in S : Ramp(shape, S, at)[b] > 0
<1> DEFINE d(b) == Distance(b, at)
           ds == {d(b) : b \in S}
           near == Min(ds)
           far == Max(ds)
           w == Ramp(shape, S, at)
<1>1. \A b \in S : d(b) \in 0 .. MaxBin
  <2>1. \A a, b, m \in Nat : a <= m /\ b <= m => Distance(a, b) \in 0 .. m
    BY DEF Distance
  <2>2. at \in Nat /\ at <= MaxBin /\ MaxBin \in Nat /\ \A b \in S : b \in Nat /\ b <= MaxBin
    BY BinsBounded
  <2>3. QED
    BY <2>1, <2>2
<1>2. \A b \in S : w[b] = IF far - near = 0 \/ shape = "spot" THEN 1
                          ELSE IF shape = "curve" THEN far - near - (d(b) - near) ELSE d(b) - near
  BY Zenon DEF Ramp
<1> HIDE DEF w, d
<1>3. ds \in SUBSET (0 .. MaxBin) /\ ds # {} /\ MaxBin \in Nat /\ ds \in SUBSET Nat
  <2>1. ds # {} /\ ds \in SUBSET (0 .. MaxBin)
    BY <1>1
  <2>2. MaxBin \in Nat
    BY BinsBounded
  <2> HIDE DEF ds
  <2>3. QED
    BY <2>1, <2>2
<1> HIDE DEF ds
<1>4. near \in ds /\ far \in ds /\ near \in Nat /\ far \in Nat /\ near <= far
  BY <1>3, MinIsLeast, MaxIsGreatest
<1> HIDE DEF near, far
<1>5. PICK p \in S : d(p) = near
  BY <1>4 DEF ds
<1>6. PICK q \in S : d(q) = far
  BY <1>4 DEF ds
<1>7. w[p] > 0 \/ w[q] > 0
  <2>1. CASE far - near = 0 \/ shape = "spot"
    BY <1>2, <2>1
  <2>2. CASE ~(far - near = 0 \/ shape = "spot")
    <3>1. far - near > 0 /\ far - near - (near - near) = far - near
      BY <1>4, <2>2
    <3>2. CASE shape = "curve"
      BY <1>2, <1>5, <2>2, <3>1, <3>2
    <3>3. CASE shape # "curve"
      BY <1>2, <1>6, <2>2, <3>1, <3>3
    <3>4. QED
      BY <3>2, <3>3
  <2>3. QED
    BY <2>1, <2>2
<1>8. QED
  BY <1>7 DEF w

LEMMA BlendHasWeight ==
  ASSUME NEW w, Amounts(w), NEW blend \in 0 .. One, NEW b \in DOMAIN w, w[b] > 0
  PROVE  Blend(w, blend)[b] > 0
<1>1. One \in Nat \ {0} /\ blend \in Nat /\ One - blend \in Nat
  BY ShapeAssumption
<1>2. w[b] \in Nat \ {0} /\ Total(w) \in Nat /\ Total(w) >= w[b]
  BY TotalIsNat, TotalAtLeast DEF Amounts
<1>3. Cardinality(DOMAIN w) \in Nat \ {0}
  <2>1. IsFiniteSet(DOMAIN w)
    BY DEF Amounts
  <2>2. Cardinality(DOMAIN w) \in Nat /\ Cardinality(DOMAIN w) # 0
    BY <2>1, FS_CardinalityType, FS_EmptySet
  <2>3. QED
    BY <2>2
<1>4. Blend(w, blend)[b] = (One - blend) * w[b] * Cardinality(DOMAIN w) + blend * Total(w)
  BY Zenon DEF Blend
<1>5. \A a, c \in Nat \ {0} : a * c \in Nat \ {0}
  <2> SUFFICES ASSUME NEW a \in Nat \ {0}, NEW c \in Nat \ {0} PROVE a * c \in Nat \ {0}
    OBVIOUS
  <2>1. a - 1 \in Nat /\ a = 1 + (a - 1)
    OBVIOUS
  <2>2. PICK e \in Nat : a = 1 + e
    BY <2>1
  <2>3. a * c = c + e * c /\ e * c \in Nat
    BY <2>2
  <2>4. QED
    BY <2>3
<1> DEFINE n == Cardinality(DOMAIN w)
           u == w[b]
           t == Total(w)
           o == One - blend
<1>6. n \in Nat \ {0} /\ u \in Nat \ {0} /\ t \in Nat \ {0} /\ o \in Nat
  BY <1>1, <1>2, <1>3
<1>7. Blend(w, blend)[b] = o * u * n + blend * t /\ (o # 0 \/ blend # 0)
  BY <1>1, <1>4
<1> HIDE DEF n, u, t, o
<1>8. CASE o # 0
  <2>1. o * u \in Nat \ {0}
    BY <1>5, <1>6, <1>8
  <2>2. o * u * n \in Nat \ {0}
    BY <1>5, <1>6, <2>1
  <2>3. blend * t \in Nat
    BY <1>1, <1>6
  <2>4. QED
    BY <1>7, <2>2, <2>3
<1>9. CASE blend # 0
  <2>1. blend * t \in Nat \ {0}
    BY <1>1, <1>5, <1>6, <1>9
  <2>2. o * u \in Nat
    BY <1>6
  <2>3. o * u * n \in Nat
    BY <1>6, <2>2
  <2>4. QED
    BY <1>7, <2>1, <2>3
<1>10. QED
  BY <1>7, <1>8, <1>9

LEMMA SplitActiveHasWeight ==
  ASSUME NEW w, Amounts(w), NEW at, NEW keep \in Nat, Total(w) > 0
  PROVE  Total(SplitActive(w, at, keep)) > 0
<1> DEFINE scaled == [b \in DOMAIN w |-> w[b] * (IF b = at THEN keep ELSE ShareUnit)]
<1>1. SplitActive(w, at, keep) = IF Total(scaled) > 0 THEN scaled ELSE w
  BY Zenon DEF SplitActive
<1> HIDE DEF scaled
<1>2. QED
  BY <1>1

LEMMA SideHasWeight ==
  ASSUME NEW req \in Requests, NEW at \in Bins, NEW S \in SUBSET Bins, S # {}, NEW keep \in Nat
  PROVE  Total(Side(req, at, S, keep)) \in Nat \ {0}
<1> DEFINE r == Ramp(req.shape, S, at)
           w == Blend(r, req.blend)
<1>1. req.blend \in 0 .. One
  BY DepositAssumption DEF Request
<1>2. Amounts(r) /\ DOMAIN r = S
  BY RampIsNat
<1>3. PICK b \in S : r[b] > 0
  BY RampHasWeight
<1>4. Amounts(w) /\ DOMAIN w = S /\ w[b] > 0
  BY <1>1, <1>2, <1>3, BlendIsNat, BlendHasWeight
<1>5. Side(req, at, S, keep) = SplitActive(w, at, keep)
  BY DEF Side
<1> HIDE DEF r, w
<1>6. Total(w) > 0
  <2>1. w[b] <= Total(w) /\ Total(w) \in Nat /\ w[b] \in Nat
    BY <1>4, TotalAtLeast, TotalIsNat DEF Amounts
  <2>2. QED
    BY <1>4, <2>1
<1>7. Total(Side(req, at, S, keep)) \in Nat
  BY SideIsNat, TotalIsNat
<1>8. Total(Side(req, at, S, keep)) > 0
  BY <1>4, <1>5, <1>6, SplitActiveHasWeight
<1>9. QED
  BY <1>7, <1>8

-----------------------------------------------------------------------------
(***************************************************************************)
(* What rounding leaves of an amount that is split over parts, and within  *)
(* each part over bins.                                                    *)
(***************************************************************************)
(* Of one part: less than a unit for each bin that takes some.             *)
LEMMA PartDust ==
  ASSUME NEW amount \in Nat, NEW d, Amounts(d), Total(d) = One,
         NEW q, DOMAIN q = DOMAIN d, \A b \in DOMAIN d : q[b] = (amount * d[b]) \div One,
         NEW m, m = Marks(DOMAIN d, {b \in DOMAIN d : d[b] > 0})
  PROVE  /\ Amounts(q) /\ Total(q) <= amount
         /\ amount + 1 <= Total(q) + Total(m)
<1> DEFINE D == DOMAIN d
           r == [b \in D |-> (amount * d[b]) % One]
           whole == [b \in D |-> amount * d[b]]
           share == [b \in D |-> One * q[b]]
<1>1. One \in Nat \ {0} /\ IsFiniteSet(D) /\ \A b \in D : d[b] \in Nat
  BY ShapeAssumption DEF Amounts
<1>2. DOMAIN r = D /\ DOMAIN whole = D /\ DOMAIN share = D /\ DOMAIN q = D
      /\ \A b \in D : /\ r[b] = (amount * d[b]) % One /\ whole[b] = amount * d[b]
                      /\ share[b] = One * q[b] /\ q[b] = (amount * d[b]) \div One
  OBVIOUS
<1>3. Amounts(m) /\ DOMAIN m = D /\ \A b \in D : m[b] = IF d[b] > 0 THEN 1 ELSE 0
  <2>1. {b \in D : d[b] > 0} \in SUBSET D
    OBVIOUS
  <2>2. Amounts(m) /\ DOMAIN m = D
    BY <1>1, <2>1, TotalOfMarks
  <2>3. QED
    BY <2>2 DEF Marks
<1> HIDE DEF r, whole, share
<1>4. ASSUME NEW b \in D
      PROVE  /\ q[b] \in Nat /\ r[b] \in Nat /\ r[b] <= One - 1 /\ (d[b] = 0 => r[b] = 0)
             /\ amount * d[b] = One * q[b] + r[b]
  <2>1. amount * d[b] \in Nat /\ (d[b] = 0 => amount * d[b] = 0)
    BY <1>1
  <2> DEFINE a == amount * d[b]
             u == q[b]
             v == r[b]
  <2>2. a \in Nat /\ u = a \div One /\ v = a % One /\ (d[b] = 0 => a = 0)
    BY <1>2, <2>1
  <2> HIDE DEF a, u, v
  <2>3. u \in Nat /\ v \in 0 .. One - 1 /\ a = u * One + v
    BY <1>1, <2>2, Division
  <2>4. u * One = One * u /\ One * u \in Nat /\ v \in Nat /\ v <= One - 1
    BY <1>1, <2>3
  <2>5. a = One * u + v
    BY <2>3, <2>4
  <2>6. d[b] = 0 => v = 0
    BY <2>2, <2>4, <2>5
  <2>7. QED
    BY <2>3, <2>4, <2>5, <2>6 DEF a, u, v
<1>5. Amounts(q) /\ Amounts(r) /\ Total(q) \in Nat /\ Total(r) \in Nat /\ Total(m) \in Nat
  BY <1>1, <1>2, <1>3, <1>4, TotalIsNat DEF Amounts
<1>6. Total(whole) = amount * One
  BY <1>2, TotalTimes
<1>7. Amounts(share) /\ Total(share) = One * Total(q)
  BY <1>1, <1>2, <1>5, TotalTimes
<1>8. Total(whole) = Total(share) + Total(r)
  <2>1. \A b \in D : whole[b] = share[b] + r[b]
    BY <1>2, <1>4
  <2> HIDE DEF D
  <2>2. QED
    BY <1>2, <1>5, <1>7, <2>1, TotalOfBoth
<1>9. Total(r) <= (One - 1) * Total(m)
  <2>1. ASSUME NEW b \in D PROVE 1 * r[b] <= (One - 1) * m[b]
    <3>1. d[b] = 0 \/ m[b] = 1
      BY <1>1, <1>3
    <3>2. m[b] \in Nat
      BY <1>3 DEF Amounts
    <3>3. CASE d[b] = 0
      <4>1. r[b] = 0 /\ 1 * r[b] = 0
        BY <1>4, <3>3
      <4>2. One - 1 \in Nat
        BY <1>1
      <4>3. \A s, t \in Nat : s * t \in Nat
        OBVIOUS
      <4>4. (One - 1) * m[b] \in Nat
        BY <3>2, <4>2, <4>3
      <4>5. QED
        BY <4>1, <4>4
    <3>4. CASE m[b] = 1
      BY <1>1, <1>4, <3>4
    <3>5. QED
      BY <3>1, <3>3, <3>4
  <2>2. One - 1 \in Nat
    BY <1>1
  <2>3. 1 * Total(r) <= (One - 1) * Total(m)
    BY <1>2, <1>3, <1>5, <2>1, <2>2, TotalsCompare
  <2>4. QED
    BY <1>5, <2>3
<1>10. Total(m) >= 1
  <2>1. PICK b \in D : d[b] # 0
    BY <1>1, TotalIsZero
  <2>2. m[b] = 1
    BY <1>1, <1>3, <2>1
  <2>3. QED
    BY <1>3, <2>2, TotalAtLeast
<1>11. ASSUME NEW o \in Nat \ {0}, NEW a \in Nat, NEW Q \in Nat, NEW R \in Nat, NEW M \in Nat \ {0},
              a * o = o * Q + R, R <= (o - 1) * M
       PROVE  Q <= a /\ a + 1 <= Q + M
  <2>1. Q <= a
    <3>1. o * Q <= a * o
      <4>1. o * Q \in Nat
        OBVIOUS
      <4>2. QED
        BY <1>11, <4>1
    <3>2. QED
      BY <3>1, TimesReflects
  <2>2. SUFFICES ASSUME Q + M <= a PROVE FALSE
    BY <2>1
  <2>3. PICK e \in Nat : a = Q + M + e
    <3>1. a - (Q + M) \in Nat /\ a = Q + M + (a - (Q + M))
      BY <2>2
    <3>2. QED
      BY <3>1
  <2>4. a * o = o * Q + o * M + e * o /\ e * o \in Nat /\ o * Q \in Nat /\ o * M \in Nat
    BY <2>3
  <2>5. (o - 1) * M = o * M - M
    OBVIOUS
  <2>6. QED
    BY <1>11, <2>4, <2>5
<1>12. amount * One = One * Total(q) + Total(r)
  BY <1>6, <1>7, <1>8
<1>13. Total(m) \in Nat \ {0}
  BY <1>5, <1>10
<1> DEFINE Q == Total(q)
           R == Total(r)
           M == Total(m)
<1>14. Q \in Nat /\ R \in Nat /\ M \in Nat \ {0} /\ amount * One = One * Q + R /\ R <= (One - 1) * M
  BY <1>5, <1>9, <1>12, <1>13
<1> HIDE DEF Q, R, M
<1>15. Q <= amount /\ amount + 1 <= Q + M
  BY <1>1, <1>11, <1>14
<1>16. QED
  BY <1>5, <1>15 DEF Q, M

(* An amount is spread by the weights w, which are on the bins of X alone: *)
(* first over M parts, by the total g of each, then over a part's bins.    *)
Spread(total, w, X, S, M, g, part, q) ==
  /\ \A b \in DOMAIN w \ X : w[b] = 0
  /\ S \in [1 .. M -> SUBSET DOMAIN w]
  /\ \A i, j \in 1 .. M : i # j => S[i] \cap S[j] = {}
  /\ \A b \in DOMAIN w : \E i \in 1 .. M : b \in S[i]
  /\ DOMAIN g = 1 .. M
  /\ \A i \in 1 .. M : /\ DOMAIN part[i] = S[i] /\ \A b \in S[i] : part[i][b] = w[b]
                       /\ g[i] = Total(part[i])
  /\ DOMAIN q = X
  /\ \A i \in 1 .. M : \A b \in S[i] \cap X :
       q[b] = (Allocate(total, g)[i] * ToBps(part[i])[b]) \div One

Given(g, M) == {i \in 1 .. M : g[i] # 0}

(* Of the whole: less than a unit for each bin that may take some, and for *)
(* each part that has weight one unit less.                                *)
LEMMA SpreadDust ==
  ASSUME NEW total \in Nat, NEW N \in Nat, NEW w, Amounts(w), DOMAIN w \subseteq 0 .. N, Total(w) # 0,
         NEW X \in SUBSET DOMAIN w, NEW M \in Nat, M <= Scale,
         NEW S, NEW g, NEW part, NEW q, Spread(total, w, X, S, M, g, part, q)
  PROVE  /\ Cardinality(X) \in Nat /\ Cardinality(Given(g, M)) \in Nat
         /\ total - Total(q) \in 0 .. Cardinality(X) - Cardinality(Given(g, M))
<1> DEFINE R == DOMAIN w
<1> HIDE DEF R
<1> SUFFICES ASSUME R \in SUBSET (0 .. N), X \in SUBSET R, DOMAIN w = R, \A b \in R \ X : w[b] = 0,
                    S \in [1 .. M -> SUBSET R],
                    \A i, j \in 1 .. M : i # j => S[i] \cap S[j] = {},
                    \A b \in R : \E i \in 1 .. M : b \in S[i],
                    DOMAIN g = 1 .. M,
                    \A i \in 1 .. M : /\ DOMAIN part[i] = S[i] /\ \A b \in S[i] : part[i][b] = w[b]
                                      /\ g[i] = Total(part[i]),
                    DOMAIN q = X,
                    \A i \in 1 .. M : \A b \in S[i] \cap X :
                      q[b] = (Allocate(total, g)[i] * ToBps(part[i])[b]) \div One
             PROVE  /\ Cardinality(X) \in Nat /\ Cardinality(Given(g, M)) \in Nat
                    /\ total - Total(q) \in 0 .. Cardinality(X) - Cardinality(Given(g, M))
  BY DEF Spread, R
<1> DEFINE I == 1 .. M
           A == Allocate(total, g)
           own(b) == CHOOSE i \in I : b \in S[i]
           d == [b \in R |-> ToBps(part[own(b)])[b]]
           full == [b \in R |-> (A[own(b)] * d[b]) \div One]
           Y == {b \in R : d[b] > 0}
           K == {i \in I : g[i] # 0}
           m == Marks(R, Y)
           e == Marks(I, K)
<1>1. /\ IsFiniteSet(I) /\ IsFiniteSet(R) /\ One \in Nat \ {0}
      /\ \A i \in I : S[i] \in SUBSET R
  <2>1. IsFiniteSet(0 .. N) /\ IsFiniteSet(I)
    BY FS_Interval
  <2>2. QED
    BY <2>1, FS_Subset, ShapeAssumption
<1>2. ASSUME NEW i \in I, NEW b \in S[i] PROVE b \in R /\ own(b) = i
  <2>1. b \in R /\ \E j \in I : b \in S[j]
    BY <1>1
  <2>2. own(b) \in I /\ b \in S[own(b)]
    BY <2>1
  <2> HIDE DEF own
  <2>3. QED
    BY <2>1, <2>2
<1> HIDE DEF own
<1>3. /\ DOMAIN d = R /\ DOMAIN full = R
      /\ \A i \in I : \A b \in S[i] : d[b] = ToBps(part[i])[b] /\ full[b] = (A[i] * d[b]) \div One
  <2>1. DOMAIN d = R /\ \A b \in R : d[b] = ToBps(part[own(b)])[b]
    OBVIOUS
  <2> HIDE DEF d
  <2>2. DOMAIN full = R /\ \A b \in R : full[b] = (A[own(b)] * d[b]) \div One
    OBVIOUS
  <2> HIDE DEF full, A
  <2>3. QED
    BY <1>2, <2>1, <2>2
<1> HIDE DEF d, full
<1>part. ASSUME NEW u, Amounts(u), DOMAIN u = R, NEW s, Sums(s, u),
                NEW T \in SUBSET R, NEW v, DOMAIN v = T, \A b \in T : v[b] = u[b]
         PROVE  Amounts(v) /\ Total(v) = s[T]
  <2>1. T \in SUBSET DOMAIN u
    BY <1>part
  <2>2. QED
    BY ONLY <1>part, <2>1, SumOfPart
<1>parts. ASSUME NEW u, Amounts(u), DOMAIN u = R, NEW s, Sums(s, u),
                 NEW p, DOMAIN p = 1 .. M, \A i \in 1 .. M : p[i] = s[S[i]]
          PROVE  Amounts(p) /\ Total(p) = s[Joined(S, M)]
  <2>1. S \in [1 .. M -> SUBSET DOMAIN u]
    BY <1>parts
  <2>2. QED
    <3>1. \A i, j \in 1 .. M : i # j => S[i] \cap S[j] = {}
      OBVIOUS
    <3>2. Amounts(u) /\ Sums(s, u) /\ DOMAIN p = 1 .. M /\ \A i \in 1 .. M : p[i] = s[S[i]]
      BY <1>parts
    <3>3. M \in Nat
      OBVIOUS
    <3>4. QED
      BY ONLY <2>1, <3>1, <3>2, <3>3, SumOfParts
<1>4. PICK sw : Sums(sw, w) /\ Total(w) = sw[R]
  BY TotalIsASum
<1>wpart. ASSUME NEW T \in SUBSET R, NEW v, DOMAIN v = T, \A b \in T : v[b] = w[b]
          PROVE  Amounts(v) /\ Total(v) = sw[T]
  <2>1. T \in SUBSET DOMAIN w
    BY <1>wpart
  <2>2. QED
    BY ONLY Amounts(w), <1>4, <1>wpart, <2>1, SumOfPart
<1>wparts. ASSUME NEW p, DOMAIN p = 1 .. M, \A i \in 1 .. M : p[i] = sw[S[i]]
           PROVE  Amounts(p) /\ Total(p) = sw[Joined(S, M)]
  BY <1>4, <1>parts, <1>wparts
<1>5. \A i \in I : Amounts(part[i]) /\ g[i] = sw[S[i]]
  <2> SUFFICES ASSUME NEW i \in I PROVE Amounts(part[i]) /\ g[i] = sw[S[i]]
    OBVIOUS
  <2>1. DOMAIN part[i] = S[i] /\ (\A b \in S[i] : part[i][b] = w[b]) /\ g[i] = Total(part[i])
    OBVIOUS
  <2>2. S[i] \in SUBSET R
    BY <1>1
  <2>3. QED
    BY <2>1, <2>2, <1>wpart
<1>6. Joined(S, M) = R
  <2>1. \A b : b \in Joined(S, M) <=> \E i \in I : b \in S[i]
    BY DEF Joined
  <2>2. \A b : b \in R <=> \E i \in I : b \in S[i]
    BY <1>1
  <2>3. QED
    BY <2>1, <2>2
<1>7. Amounts(g) /\ Total(g) = Total(w)
  <2>2. Amounts(g) /\ Total(g) = sw[Joined(S, M)]
    BY <1>5, <1>wparts
  <2>3. QED
    BY <1>4, <1>6, <2>2
<1>8. Amounts(A) /\ DOMAIN A = I /\ Total(A) = total /\ \A i \in I : g[i] = 0 => A[i] = 0
  <2>1. Total(g) # 0
    BY <1>7
  <2>2. QED
    BY <1>7, <2>1, AllocateIsWhole
<1> HIDE DEF A
<1>9. ASSUME NEW i \in I, NEW b \in S[i]
      PROVE  /\ d[b] \in Nat /\ (w[b] = 0 => d[b] = 0)
             /\ full[b] \in Nat /\ (d[b] = 0 \/ A[i] = 0 => full[b] = 0)
  <2>1. b \in DOMAIN part[i] /\ part[i][b] = w[b] /\ Amounts(part[i])
    BY <1>5
  <2>2. ToBps(part[i])[b] \in Nat /\ (part[i][b] = 0 => ToBps(part[i])[b] = 0)
    BY <2>1, ToBpsIsNat, ToBpsOfNone
  <2>3. d[b] \in Nat /\ A[i] \in Nat
    BY <1>3, <1>8, <2>2 DEF Amounts
  <2>4. A[i] * d[b] \in Nat /\ (d[b] = 0 \/ A[i] = 0 => A[i] * d[b] = 0)
    BY <2>3
  <2>5. \A u \in Nat, v \in Nat \ {0} : u \div v \in Nat /\ (u = 0 => u \div v = 0)
    BY ONLY Quotients
  <2>6. full[b] = (A[i] * d[b]) \div One
    BY <1>3
  <2>7. full[b] \in Nat /\ (d[b] = 0 \/ A[i] = 0 => full[b] = 0)
    <3> DEFINE a == A[i] * d[b]
    <3>1. a \in Nat /\ One \in Nat \ {0} /\ full[b] = a \div One
      BY <1>1, <2>4, <2>6
    <3>2. d[b] = 0 \/ A[i] = 0 => a = 0
      BY <2>4
    <3> HIDE DEF a
    <3>3. full[b] \in Nat /\ (a = 0 => full[b] = 0)
      <4>1. a \div One \in Nat /\ (a = 0 => a \div One = 0)
        BY ONLY <2>5, <3>1
      <4>2. full[b] = a \div One
        BY <3>1
      <4>3. QED
        BY ONLY <4>1, <4>2, Zenon
    <3>4. QED
      BY <3>2, <3>3
  <2>8. QED
    BY <1>3, <2>1, <2>2, <2>3, <2>7
<1>10. Y \in SUBSET X
  <2> SUFFICES ASSUME NEW b \in R, b \notin X PROVE ~(d[b] > 0)
    OBVIOUS
  <2>1. PICK i \in I : b \in S[i]
    OBVIOUS
  <2>2. w[b] = 0
    OBVIOUS
  <2>3. QED
    BY <1>9, <2>1, <2>2
<1>11. /\ Amounts(full)
       /\ Amounts(m) /\ DOMAIN m = R /\ Total(m) = Cardinality(Y)
       /\ \A b \in R : m[b] = IF d[b] > 0 THEN 1 ELSE 0
  <2>1. \A b \in R : full[b] \in Nat
    BY <1>9
  <2>2. Y \in SUBSET R
    OBVIOUS
  <2>3. Amounts(full)
    BY <1>1, <1>3, <2>1 DEF Amounts
  <2>4. Amounts(m) /\ DOMAIN m = R /\ Total(m) = Cardinality(Y)
    BY <1>1, <2>2, TotalOfMarks
  <2>5. \A b \in R : m[b] = IF d[b] > 0 THEN 1 ELSE 0
    BY DEF Marks
  <2>6. QED
    BY <2>3, <2>4, <2>5
<1>12. /\ Amounts(e) /\ DOMAIN e = I /\ Total(e) = Cardinality(K) /\ Cardinality(K) \in Nat
       /\ \A i \in I : e[i] = IF g[i] # 0 THEN 1 ELSE 0
  <2>1. K \in SUBSET I
    OBVIOUS
  <2>2. Amounts(e) /\ DOMAIN e = I /\ Total(e) = Cardinality(K) /\ Cardinality(K) \in Nat
    BY <1>1, <2>1, TotalOfMarks
  <2>3. \A i \in I : e[i] = IF g[i] # 0 THEN 1 ELSE 0
    BY DEF Marks
  <2>4. QED
    BY <2>2, <2>3
<1>13. PICK sq : Sums(sq, full) /\ Total(full) = sq[R]
  BY <1>3, <1>11, TotalIsASum
<1> HIDE DEF m, e, K, Y
<1>14. PICK sm : Sums(sm, m) /\ Total(m) = sm[R]
  BY <1>11, TotalIsASum
<1>mpart. ASSUME NEW T \in SUBSET R, NEW v, DOMAIN v = T, \A b \in T : v[b] = m[b]
          PROVE  Amounts(v) /\ Total(v) = sm[T]
  <2>1. Amounts(m) /\ DOMAIN m = R /\ Sums(sm, m)
    BY <1>11, <1>14
  <2>2. T \in SUBSET DOMAIN m
    BY <1>mpart, <2>1
  <2>3. QED
    BY ONLY <1>mpart, <2>1, <2>2, SumOfPart
<1>mparts. ASSUME NEW p, DOMAIN p = 1 .. M, \A i \in 1 .. M : p[i] = sm[S[i]]
           PROVE  Amounts(p) /\ Total(p) = sm[Joined(S, M)]
  BY <1>11, <1>14, <1>parts, <1>mparts
<1> DEFINE P == [i \in I |-> sq[S[i]]]
           C == [i \in I |-> sm[S[i]]]
<1>15. DOMAIN P = I /\ DOMAIN C = I /\ \A i \in I : P[i] = sq[S[i]] /\ C[i] = sm[S[i]]
  OBVIOUS
<1> HIDE DEF P, C
<1>16. Amounts(P) /\ Total(P) = Total(full)
  <2>2. Amounts(P) /\ Total(P) = sq[Joined(S, M)]
    BY <1>3, <1>11, <1>13, <1>15, <1>parts
  <2>3. QED
    BY <1>6, <1>13, <2>2
<1>17. Amounts(C) /\ Total(C) = Total(m)
  <2>2. Amounts(C) /\ Total(C) = sm[Joined(S, M)]
    BY <1>15, <1>mparts
  <2>3. QED
    BY <1>6, <1>14, <2>2
<1>18. ASSUME NEW i \in I PROVE P[i] <= A[i] /\ A[i] + e[i] <= P[i] + C[i]
  <2> DEFINE v == [b \in S[i] |-> full[b]]
             n == [b \in S[i] |-> m[b]]
             t == ToBps(part[i])
  <2>1. S[i] \in SUBSET R /\ P[i] \in Nat /\ C[i] \in Nat /\ A[i] \in Nat
    BY <1>1, <1>8, <1>15, <1>16, <1>17 DEF Amounts
  <2>2. DOMAIN v = S[i] /\ DOMAIN n = S[i] /\ \A b \in S[i] : v[b] = full[b] /\ n[b] = m[b]
    OBVIOUS
  <2> HIDE DEF v, n
  <2>3. Amounts(v) /\ Total(v) = P[i]
    <3>1. P[i] = sq[S[i]]
      BY <1>15
    <3>2. QED
      BY <1>3, <1>11, <1>13, <2>1, <2>2, <3>1, <1>part
  <2>4. Amounts(n) /\ Total(n) = C[i]
    <3>1. C[i] = sm[S[i]]
      BY <1>15
    <3>2. QED
      BY <2>1, <2>2, <3>1, <1>mpart
  <2>5. CASE g[i] = 0
    <3>1. A[i] = 0 /\ e[i] = 0
      BY <1>8, <1>12, <2>5
    <3>2. \A b \in S[i] : v[b] = 0
      BY <1>9, <2>2, <3>1
    <3>3. P[i] = 0
      BY <2>2, <2>3, <3>2, TotalIsZero
    <3>4. QED
      BY <2>1, <3>1, <3>3
  <2>6. CASE g[i] # 0
    <3>1. e[i] = 1
      BY <1>12, <2>6
    <3>2. DOMAIN part[i] = S[i] /\ g[i] = Total(part[i]) /\ S[i] \subseteq 0 .. N /\ Amounts(part[i])
      BY <1>5, <2>1
    <3>3. Amounts(t) /\ DOMAIN t = S[i] /\ Total(t) = One
      BY <2>6, <3>2, ToBpsIsWhole
    <3>4. \A b \in S[i] : t[b] = d[b] /\ v[b] = (A[i] * t[b]) \div One
      BY <1>3, <2>2
    <3> HIDE DEF t
    <3>5. n = Marks(DOMAIN t, {b \in DOMAIN t : t[b] > 0})
      <4>1. \A b \in S[i] : n[b] = IF t[b] > 0 THEN 1 ELSE 0
        BY <1>11, <2>1, <2>2, <3>4
      <4>2. n = [b \in S[i] |-> n[b]]
        BY DEF n
      <4>3. n = [b \in S[i] |-> IF b \in {c \in S[i] : t[c] > 0} THEN 1 ELSE 0]
        BY <4>1, <4>2
      <4>4. QED
        BY <3>3, <4>3, Zenon DEF Marks
    <3>6. Total(v) <= A[i] /\ A[i] + 1 <= Total(v) + Total(n)
      <4>1. DOMAIN v = DOMAIN t /\ \A b \in DOMAIN t : v[b] = (A[i] * t[b]) \div One
        BY <2>2, <3>3, <3>4
      <4>2. A[i] \in Nat /\ Amounts(t) /\ Total(t) = One
        BY <2>1, <3>3
      <4>3. QED
        BY ONLY <3>5, <4>1, <4>2, PartDust, Zenon
    <3>7. QED
      BY <2>3, <2>4, <3>1, <3>6
  <2>7. QED
    BY <2>5, <2>6
<1>19. Total(P) <= total
  <2>1. \A i \in I : 1 * P[i] <= 1 * A[i]
    <3> SUFFICES ASSUME NEW i \in I PROVE 1 * P[i] <= 1 * A[i]
      OBVIOUS
    <3>1. P[i] \in Nat /\ A[i] \in Nat
      BY <1>8, <1>15, <1>16 DEF Amounts
    <3>2. P[i] <= A[i]
      BY <1>18
    <3>3. QED
      BY ONLY <3>1, <3>2
  <2>2. 1 * Total(P) <= 1 * Total(A)
    BY <1>8, <1>15, <1>16, <2>1, TotalsCompare
  <2>3. QED
    BY <1>8, <1>16, <2>2, TotalIsNat
<1>20. total + Cardinality(K) <= Total(P) + Cardinality(Y)
  <2> DEFINE ae == [i \in I |-> A[i] + e[i]]
             pc == [i \in I |-> P[i] + C[i]]
  <2>1. DOMAIN ae = I /\ DOMAIN pc = I /\ \A i \in I : ae[i] = A[i] + e[i] /\ pc[i] = P[i] + C[i]
    OBVIOUS
  <2> HIDE DEF ae, pc
  <2>2. Amounts(ae) /\ Total(ae) = Total(A) + Total(e)
    BY <1>8, <1>12, <2>1, TotalOfBoth
  <2>3. Amounts(pc) /\ Total(pc) = Total(P) + Total(C)
    <3>1. /\ DOMAIN C = DOMAIN P /\ DOMAIN pc = DOMAIN P
          /\ \A i \in DOMAIN P : pc[i] = P[i] + C[i]
      BY <1>15, <2>1
    <3>2. QED
      BY ONLY <1>16, <1>17, <3>1, TotalOfBoth, Zenon
  <2>4. \A i \in I : 1 * ae[i] <= 1 * pc[i]
    <3> SUFFICES ASSUME NEW i \in I PROVE 1 * ae[i] <= 1 * pc[i]
      OBVIOUS
    <3>1. ae[i] \in Nat /\ pc[i] \in Nat /\ ae[i] <= pc[i]
      BY <1>18, <2>1, <2>2, <2>3 DEF Amounts
    <3>2. QED
      BY <3>1
  <2>5. 1 * Total(ae) <= 1 * Total(pc)
    BY <2>1, <2>2, <2>3, <2>4, TotalsCompare
  <2>6. Total(ae) \in Nat /\ Total(pc) \in Nat
    BY <2>2, <2>3, TotalIsNat
  <2>7. Total(ae) <= Total(pc)
    BY <2>5, <2>6
  <2>8. QED
    BY <1>8, <1>11, <1>12, <1>17, <2>2, <2>3, <2>7
<1>21. Total(q) = Total(full)
  <2>1. ASSUME NEW b \in R, b \notin X PROVE full[b] = 0
    <3>1. PICK i \in I : b \in S[i]
      OBVIOUS
    <3>2. w[b] = 0
      BY <2>1
    <3>3. QED
      BY <1>9, <3>1, <3>2
  <2>2. ASSUME NEW b \in X PROVE q[b] = full[b]
    <3>1. PICK i \in I : b \in S[i]
      OBVIOUS
    <3>2. q[b] = (A[i] * ToBps(part[i])[b]) \div One
      BY <3>1 DEF A
    <3>3. full[b] = (A[i] * d[b]) \div One /\ d[b] = ToBps(part[i])[b]
      <4>1. i \in I /\ b \in S[i]
        BY <3>1
      <4>2. QED
        BY ONLY <1>3, <4>1
    <3>4. QED
      BY ONLY <3>2, <3>3, Zenon
  <2>3. X \in SUBSET DOMAIN full /\ \A b \in DOMAIN full \ X : full[b] = 0
    BY <1>3, <2>1
  <2>4. sq[DOMAIN full] = sq[X]
    BY <1>11, <1>13, <2>3, SumOutside
  <2>5. Total(q) = sq[X]
    BY <1>11, <1>13, <2>2, <2>3, SumOfPart
  <2>6. QED
    BY <1>3, <1>13, <2>4, <2>5
<1>22. Cardinality(Y) <= Cardinality(X) /\ Cardinality(Y) \in Nat /\ Cardinality(X) \in Nat
  <2>1. IsFiniteSet(X)
    BY <1>1, FS_Subset
  <2>2. QED
    BY <1>10, <2>1, FewerIn
<1>23. Total(P) \in Nat
  BY <1>16, TotalIsNat
<1>24. total - Total(q) \in 0 .. Cardinality(X) - Cardinality(K)
  BY <1>12, <1>16, <1>19, <1>20, <1>21, <1>22, <1>23
<1>25. QED
  BY <1>12, <1>22, <1>24 DEF K, Given

-----------------------------------------------------------------------------
(***************************************************************************)
(* What one call per position would place, told by the parts of the split. *)
(***************************************************************************)
PartX(req, at, i) == [b \in BinsOf(SplitRange(req)[i]) |-> WeightsOf(req, at)[b].x]
PartY(req, at, i) == [b \in BinsOf(SplitRange(req)[i]) |-> WeightsOf(req, at)[b].y]

(* A part's share of the amount, and of that a bin's.                      *)
ShareX(req, at, i, b) ==
  (Allocate(req.x, WeightsX(req, at))[i] * ToBps(PartX(req, at, i))[b]) \div One
ShareY(req, at, i, b) ==
  (Allocate(req.y, WeightsY(req, at))[i] * ToBps(PartY(req, at, i))[b]) \div One

LEMMA PartsAre ==
  ASSUME NEW req \in Requests, NEW at \in Bins, NEW i \in 1 .. Len(SplitRange(req))
  PROVE  /\ Amounts(PartX(req, at, i)) /\ Amounts(PartY(req, at, i))
         /\ DOMAIN PartX(req, at, i) = BinsOf(SplitRange(req)[i])
         /\ DOMAIN PartY(req, at, i) = BinsOf(SplitRange(req)[i])
         /\ \A b \in BinsOf(SplitRange(req)[i]) :
              PartX(req, at, i)[b] = WeightsOf(req, at)[b].x /\ PartY(req, at, i)[b] = WeightsOf(req, at)[b].y
         /\ WeightsX(req, at)[i] = Total(PartX(req, at, i))
         /\ WeightsY(req, at)[i] = Total(PartY(req, at, i))
         /\ Amounts(WeightsX(req, at)) /\ DOMAIN WeightsX(req, at) = 1 .. Len(SplitRange(req))
         /\ Amounts(WeightsY(req, at)) /\ DOMAIN WeightsY(req, at) = 1 .. Len(SplitRange(req))
<1> DEFINE W == WeightsOf(req, at)
           L == 1 .. Len(SplitRange(req))
           B(j) == BinsOf(SplitRange(req)[j])
<1>1. \A b \in BinsOf(req) : W[b].x \in Nat /\ W[b].y \in Nat
  BY WeightsAre
<1>2. DOMAIN SplitRange(req) = L /\ IsFiniteSet(L)
      /\ \A j \in L : B(j) \subseteq BinsOf(req) /\ IsFiniteSet(B(j))
  BY SpecWithin
<1>3. \A j : /\ DOMAIN PartX(req, at, j) = B(j) /\ DOMAIN PartY(req, at, j) = B(j)
             /\ \A b \in B(j) : PartX(req, at, j)[b] = W[b].x /\ PartY(req, at, j)[b] = W[b].y
  BY DEF PartX, PartY
<1> HIDE DEF W, B
<1>4. \A j \in L : Amounts(PartX(req, at, j)) /\ Amounts(PartY(req, at, j))
  <2> SUFFICES ASSUME NEW j \in L PROVE Amounts(PartX(req, at, j)) /\ Amounts(PartY(req, at, j))
    OBVIOUS
  <2>1. \A b \in B(j) : PartX(req, at, j)[b] \in Nat /\ PartY(req, at, j)[b] \in Nat
    BY <1>1, <1>2, <1>3
  <2>2. QED
    BY <1>2, <1>3, <2>1 DEF Amounts
<1>5. /\ WeightsX(req, at) = [j \in L |-> Total(PartX(req, at, j))]
      /\ WeightsY(req, at) = [j \in L |-> Total(PartY(req, at, j))]
  BY <1>2, Zenon DEF WeightsX, WeightsY, PartX, PartY
<1> HIDE DEF L
<1>6. \A j \in L : Total(PartX(req, at, j)) \in Nat /\ Total(PartY(req, at, j)) \in Nat
  BY <1>4, TotalIsNat
<1>7. Amounts(WeightsX(req, at)) /\ Amounts(WeightsY(req, at))
  BY <1>2, <1>5, <1>6 DEF Amounts
<1>8. i \in L
  BY DEF L
<1>9. QED
  BY <1>3, <1>4, <1>5, <1>7, <1>8 DEF L, W, B

LEMMA DraftRows ==
  ASSUME NEW req \in Requests, NEW at \in Bins, NEW held, NEW n,
         NEW i \in 1 .. Len(SplitRange(req)), NEW b \in BinsOf(SplitRange(req)[i]),
         NEW p, p = Draft(req, at, held, n, i)
  PROVE  /\ b \in DOMAIN p.dist =>
              /\ Row(p, b) = [x |-> ShareX(req, at, i, b), y |-> ShareY(req, at, i, b)]
              /\ p.dist[b].x = ToBps(PartX(req, at, i))[b] /\ p.dist[b].y = ToBps(PartY(req, at, i))[b]
         /\ b \notin DOMAIN p.dist => ShareX(req, at, i, b) = 0 /\ ShareY(req, at, i, b) = 0
<1> DEFINE S == BinsOf(SplitRange(req)[i])
           W == WeightsOf(req, at)
           slice == Slice(W, S)
           px == PartX(req, at, i)
           py == PartY(req, at, i)
           X == ToBps(px)
           Y == ToBps(py)
<1>1. DOMAIN slice = S /\ \A c \in S : slice[c] = W[c]
  <2>1. S \subseteq BinsOf(req) /\ DOMAIN W = BinsOf(req)
    BY SpecWithin, WeightsAre
  <2>2. QED
    BY <2>1 DEF Slice
<1>2. /\ p.x = Allocate(req.x, WeightsX(req, at))[i] /\ p.y = Allocate(req.y, WeightsY(req, at))[i]
      /\ p.dist = Distribute(slice)
  BY DEF Draft
<1> HIDE DEF slice
<1>3. [c \in DOMAIN slice |-> slice[c].x] = px /\ [c \in DOMAIN slice |-> slice[c].y] = py
  <2>1. px = [c \in S |-> W[c].x] /\ py = [c \in S |-> W[c].y]
    BY DEF PartX, PartY
  <2> HIDE DEF px, py
  <2>2. QED
    BY <1>1, <2>1
<1> HIDE DEF px, py, S
<1>4. /\ DOMAIN p.dist = {c \in S : X[c] > 0 \/ Y[c] > 0}
      /\ \A c \in DOMAIN p.dist : p.dist[c] = [x |-> X[c], y |-> Y[c]]
  <2>1. Distribute(slice) = [c \in {e \in DOMAIN slice : X[e] > 0 \/ Y[e] > 0} |-> [x |-> X[c], y |-> Y[c]]]
    BY <1>3, Zenon DEF Distribute
  <2> HIDE DEF X, Y
  <2>2. QED
    BY <1>1, <1>2, <2>1
<1>5. X[b] \in Nat /\ Y[b] \in Nat
  <2>1. Amounts(px) /\ Amounts(py) /\ b \in DOMAIN px /\ b \in DOMAIN py
    BY PartsAre DEF px, py
  <2>2. QED
    BY <2>1, ToBpsIsNat
<1>6. /\ ShareX(req, at, i, b) = (p.x * X[b]) \div One
      /\ ShareY(req, at, i, b) = (p.y * Y[b]) \div One
  BY <1>2 DEF ShareX, ShareY, px, py
<1> HIDE DEF X, Y
<1>7. ASSUME b \in DOMAIN p.dist
      PROVE  /\ Row(p, b) = [x |-> ShareX(req, at, i, b), y |-> ShareY(req, at, i, b)]
             /\ p.dist[b].x = X[b] /\ p.dist[b].y = Y[b]
  <2>1. p.dist[b].x = X[b] /\ p.dist[b].y = Y[b]
    <3>1. \A c \in DOMAIN p.dist : p.dist[c] = [x |-> X[c], y |-> Y[c]]
      BY <1>4
    <3>2. p.dist[b] = [x |-> X[b], y |-> Y[b]]
      BY ONLY <1>7, <3>1, Zenon
    <3>3. QED
      BY ONLY <3>2
  <2>2. QED
    BY <1>6, <2>1 DEF Row
<1>8. ASSUME b \notin DOMAIN p.dist
      PROVE  ShareX(req, at, i, b) = 0 /\ ShareY(req, at, i, b) = 0
  <2>1. X[b] = 0 /\ Y[b] = 0
    BY <1>4, <1>5, <1>8 DEF S
  <2>2. p.x \in Nat /\ p.y \in Nat /\ One \in Nat \ {0}
    BY DraftIsCounted, ShapeAssumption DEF Counted
  <2>3. \A u \in Nat, v \in Nat \ {0} : (u * 0) \div v = 0
    OBVIOUS
  <2>4. QED
    BY <1>6, <2>1, <2>2, <2>3
<1>9. QED
  BY <1>7, <1>8 DEF X, Y, px, py

LEMMA SpecsApart ==
  ASSUME NEW req \in Requests, NEW i \in 1 .. Len(SplitRange(req)), NEW j \in 1 .. Len(SplitRange(req)),
         NEW b \in BinsOf(SplitRange(req)[i]), b \in BinsOf(SplitRange(req)[j])
  PROVE  i = j
<1> DEFINE specs == SplitRange(req)
           T == [lower : Bins, upper : Bins]
<1> HIDE DEF specs, T
<1>1. specs \in Seq(T) /\ \A a, c \in 1 .. Len(specs) : a < c => specs[a].upper < specs[c].lower
  BY SplitIs DEF Specs, specs, T
<1>2. i \in 1 .. Len(specs) /\ j \in 1 .. Len(specs) /\ Len(specs) \in Nat
  BY <1>1 DEF specs
<1>3. specs[i] \in T /\ specs[j] \in T
  BY <1>1, <1>2
<1>4. /\ specs[i].lower \in Nat /\ specs[i].upper \in Nat
      /\ specs[j].lower \in Nat /\ specs[j].upper \in Nat
  BY <1>3, BinsBounded DEF T
<1>5. specs[i].lower <= b /\ b <= specs[i].upper /\ specs[j].lower <= b /\ b <= specs[j].upper /\ b \in Nat
  BY <1>4 DEF BinsOf, specs
<1>6. ~(specs[i].upper < specs[j].lower) /\ ~(specs[j].upper < specs[i].lower)
  BY <1>4, <1>5
<1>7. ~(i < j) /\ ~(j < i)
  BY <1>1, <1>2, <1>6
<1>8. QED
  BY <1>2, <1>7

(* The table of a position is within its part of the split.                *)
LEMMA TableOfPart ==
  ASSUME NEW req \in Requests, NEW at, NEW held, NEW n, NEW ps, NEW k,
         Positions(ps, k, req, at, held, n), NEW a \in 1 .. Len(ps)
  PROVE  /\ k[a] \in 1 .. Len(SplitRange(req)) /\ ps[a] = Draft(req, at, held, n, k[a])
         /\ DOMAIN ps[a].dist \subseteq BinsOf(SplitRange(req)[k[a]])
<1>1. k[a] \in 1 .. Len(SplitRange(req)) /\ ps[a] = Draft(req, at, held, n, k[a])
  BY DEF Positions
<1>2. Position(ps[a], held, n) /\ ps[a].spec = SplitRange(req)[k[a]]
  BY <1>1, DraftIsPosition
<1>3. QED
  BY <1>1, <1>2 DEF Position

LEMMA PlannedIsShare ==
  ASSUME NEW req \in Requests, NEW at \in Bins, NEW held, NEW n, NEW ps, NEW k,
         Positions(ps, k, req, at, held, n),
         NEW i \in 1 .. Len(SplitRange(req)), NEW b \in BinsOf(SplitRange(req)[i])
  PROVE  OneCall(ps, b) = [x |-> ShareX(req, at, i, b), y |-> ShareY(req, at, i, b)]
<1> DEFINE p == Draft(req, at, held, n, i)
           share == [x |-> ShareX(req, at, i, b), y |-> ShareY(req, at, i, b)]
<1>1. DOMAIN ps = 1 .. Len(ps)
  BY PositionsApart
<1>2. /\ \A a \in DOMAIN ps : \A c \in DOMAIN ps[a].dist : OneCall(ps, c) = Row(ps[a], c)
      /\ \A c : Here(ps, c) = {} => OneCall(ps, c) = Zero
  BY <1>1, PositionsCount, OneCallIsRow
<1>3. /\ b \in DOMAIN p.dist => Row(p, b) = share
      /\ b \notin DOMAIN p.dist => share = Zero
  BY DraftRows DEF Zero
<1> HIDE DEF p, share
<1>4. \A a \in DOMAIN ps : b \in DOMAIN ps[a].dist => ps[a] = p
  <2> SUFFICES ASSUME NEW a \in DOMAIN ps, b \in DOMAIN ps[a].dist PROVE ps[a] = p
    OBVIOUS
  <2>1. /\ k[a] \in 1 .. Len(SplitRange(req)) /\ ps[a] = Draft(req, at, held, n, k[a])
        /\ b \in BinsOf(SplitRange(req)[k[a]])
    BY <1>1, TableOfPart
  <2>2. k[a] = i
    BY <2>1, SpecsApart
  <2>3. QED
    BY <2>1, <2>2 DEF p
<1>5. CASE Here(ps, b) # {}
  <2>1. PICK a \in DOMAIN ps : b \in DOMAIN ps[a].dist
    BY <1>5 DEF Here
  <2>2. QED
    BY <1>2, <1>3, <1>4, <2>1 DEF share
<1>6. CASE Here(ps, b) = {}
  <2>1. OneCall(ps, b) = Zero
    BY <1>2, <1>6
  <2>2. CASE b \in DOMAIN p.dist
    <3>1. Places(p.dist, p.x, p.y) = {}
      <4> SUFFICES ASSUME Places(p.dist, p.x, p.y) # {} PROVE FALSE
        OBVIOUS
      <4>1. PICK a \in 1 .. Len(ps) : k[a] = i
        BY DEF Positions, p
      <4>2. ps[a] = p
        BY <4>1, TableOfPart DEF p
      <4>3. QED
        BY <1>1, <1>6, <2>2, <4>2 DEF Here
    <3>2. Preview(p.dist, p.x, p.y)[b] = Zero
      BY <2>2, <3>1 DEF Places, Zero
    <3>3. QED
      BY <1>3, <2>1, <2>2, <3>2, PreviewIs DEF share
  <2>3. CASE b \notin DOMAIN p.dist
    BY <1>3, <2>1, <2>3 DEF share
  <2>4. QED
    BY <2>2, <2>3
<1>7. QED
  BY <1>5, <1>6

(* A split has at most a part for each bin.                                *)
LEMMA SplitIsShort ==
  ASSUME NEW req \in Requests
  PROVE  Len(SplitRange(req)) \in Nat /\ Len(SplitRange(req)) <= Scale
<1> DEFINE specs == SplitRange(req)
           T == [lower : Bins, upper : Bins]
           f == [i \in 1 .. Len(specs) |-> specs[i].lower]
<1> HIDE DEF specs, T
<1>1. /\ specs \in Seq(T)
      /\ \A i \in 1 .. Len(specs) : specs[i].lower <= specs[i].upper
      /\ \A i, j \in 1 .. Len(specs) : i < j => specs[i].upper < specs[j].lower
  BY SplitIs DEF Specs, specs, T
<1>2. Len(specs) \in Nat /\ \A i \in 1 .. Len(specs) : specs[i] \in T
  BY <1>1
<1>3. \A i \in 1 .. Len(specs) : specs[i].lower \in Bins /\ specs[i].lower \in Nat /\ specs[i].upper \in Nat
  BY <1>2, BinsBounded DEF T
<1>4. \A i, j \in 1 .. Len(specs) : i < j => specs[i].lower # specs[j].lower
  BY <1>1, <1>3
<1>5. \A i, j \in 1 .. Len(specs) : specs[i].lower = specs[j].lower => i = j
  <2> SUFFICES ASSUME NEW i \in 1 .. Len(specs), NEW j \in 1 .. Len(specs), specs[i].lower = specs[j].lower
               PROVE  i = j
    OBVIOUS
  <2>1. ~(i < j) /\ ~(j < i)
    BY <1>4
  <2>2. QED
    BY <1>2, <2>1
<1>6. f \in Injection(1 .. Len(specs), Bins)
  BY <1>3, <1>5 DEF Injection, IsInjective
<1>7. Cardinality(1 .. Len(specs)) <= Cardinality(Bins)
  BY <1>6, BinsBounded, FS_Injection
<1>8. Cardinality(1 .. Len(specs)) = Len(specs)
  <2>1. \A m \in Nat : Cardinality(1 .. m) = m
    BY FS_Interval
  <2>2. QED
    BY <1>2, <2>1
<1>9. Cardinality(Bins) = MaxBin - MinBin + 1
  BY DepositAssumption, FS_Interval DEF Bins
<1>10. MinBin \in Nat /\ MaxBin \in Nat /\ MaxBin - MinBin < Scale /\ Scale \in Nat
  BY DepositAssumption, SplitAssumption
<1>11. Len(specs) <= MaxBin - MinBin + 1
  BY <1>7, <1>8, <1>9
<1>12. QED
  BY <1>2, <1>10, <1>11 DEF specs

(* The two sides of a request's weights, and the parts they are cut into.  *)
SideX(req, at) == [b \in BinsOf(req) |-> WeightsOf(req, at)[b].x]
SideY(req, at) == [b \in BinsOf(req) |-> WeightsOf(req, at)[b].y]
Bands(req) == [i \in 1 .. Len(SplitRange(req)) |-> BinsOf(SplitRange(req)[i])]
PartsX(req, at) == [i \in 1 .. Len(SplitRange(req)) |-> PartX(req, at, i)]
PartsY(req, at) == [i \in 1 .. Len(SplitRange(req)) |-> PartY(req, at, i)]

LEMMA SidesAre ==
  ASSUME NEW req \in Requests, NEW at \in Bins
  PROVE  /\ Amounts(SideX(req, at)) /\ DOMAIN SideX(req, at) = BinsOf(req)
         /\ Amounts(SideY(req, at)) /\ DOMAIN SideY(req, at) = BinsOf(req)
         /\ \A b \in BinsOf(req) \ UpFrom(req, at) : SideX(req, at)[b] = 0
         /\ \A b \in BinsOf(req) \ DownFrom(req, at) : SideY(req, at)[b] = 0
         /\ UpFrom(req, at) # {} => Total(SideX(req, at)) # 0
         /\ DownFrom(req, at) # {} => Total(SideY(req, at)) # 0
<1> DEFINE W == WeightsOf(req, at)
           w == SideX(req, at)
           v == SideY(req, at)
           U == UpFrom(req, at)
           D == DownFrom(req, at)
           sx == Side(req, at, U, req.share)
           sy == Side(req, at, D, ShareUnit - req.share)
<1>1. DOMAIN w = BinsOf(req) /\ DOMAIN v = BinsOf(req)
      /\ \A b \in BinsOf(req) : w[b] = W[b].x /\ v[b] = W[b].y
  BY DEF SideX, SideY
<1>2. \A b \in BinsOf(req) : /\ W[b] = [x |-> IF b >= at THEN sx[b] ELSE 0, y |-> IF b <= at THEN sy[b] ELSE 0]
                             /\ W[b].x \in Nat /\ W[b].y \in Nat
  BY WeightsAre
<1> HIDE DEF W, w, v, sx, sy
<1>3. \A b \in BinsOf(req) : /\ w[b] = (IF b >= at THEN sx[b] ELSE 0) /\ w[b] \in Nat
                             /\ v[b] = (IF b <= at THEN sy[b] ELSE 0) /\ v[b] \in Nat
  <2> SUFFICES ASSUME NEW b \in BinsOf(req)
               PROVE  /\ w[b] = (IF b >= at THEN sx[b] ELSE 0) /\ w[b] \in Nat
                      /\ v[b] = (IF b <= at THEN sy[b] ELSE 0) /\ v[b] \in Nat
    OBVIOUS
  <2>1. W[b] = [x |-> IF b >= at THEN sx[b] ELSE 0, y |-> IF b <= at THEN sy[b] ELSE 0]
    BY <1>2
  <2>2. W[b].x = (IF b >= at THEN sx[b] ELSE 0) /\ W[b].y = (IF b <= at THEN sy[b] ELSE 0)
    BY ONLY <2>1
  <2>3. w[b] = W[b].x /\ v[b] = W[b].y /\ W[b].x \in Nat /\ W[b].y \in Nat
    BY <1>1, <1>2
  <2>4. QED
    BY ONLY <2>2, <2>3
<1>4. IsFiniteSet(BinsOf(req)) /\ U \in SUBSET Bins /\ D \in SUBSET Bins
  BY RequestIs, BinsBounded, FS_Subset DEF UpFrom, DownFrom
<1>5. Amounts(w) /\ Amounts(v)
  BY <1>1, <1>3, <1>4 DEF Amounts
<1>6. req.share \in Nat /\ ShareUnit - req.share \in Nat
  BY RequestIs
<1>7. ASSUME U # {} PROVE Total(w) # 0
  <2>1. Amounts(sx) /\ DOMAIN sx = U /\ Total(sx) # 0
    BY <1>4, <1>6, <1>7, SideIsNat, SideHasWeight DEF sx
  <2>2. PICK b \in U : sx[b] # 0
    BY <2>1, TotalIsZero
  <2>3. b \in BinsOf(req) /\ w[b] = sx[b]
    BY <1>3 DEF UpFrom
  <2>4. w[b] <= Total(w) /\ Total(w) \in Nat /\ w[b] \in Nat
    BY <1>1, <1>3, <1>5, <2>3, TotalAtLeast, TotalIsNat
  <2>5. QED
    BY <2>2, <2>3, <2>4
<1>8. ASSUME D # {} PROVE Total(v) # 0
  <2>1. Amounts(sy) /\ DOMAIN sy = D /\ Total(sy) # 0
    BY <1>4, <1>6, <1>8, SideIsNat, SideHasWeight DEF sy
  <2>2. PICK b \in D : sy[b] # 0
    BY <2>1, TotalIsZero
  <2>3. b \in BinsOf(req) /\ v[b] = sy[b]
    BY <1>3 DEF DownFrom
  <2>4. v[b] <= Total(v) /\ Total(v) \in Nat /\ v[b] \in Nat
    BY <1>1, <1>3, <1>5, <2>3, TotalAtLeast, TotalIsNat
  <2>5. QED
    BY <2>2, <2>3, <2>4
<1>9. /\ \A b \in BinsOf(req) \ U : w[b] = 0
      /\ \A b \in BinsOf(req) \ D : v[b] = 0
  BY <1>3 DEF UpFrom, DownFrom
<1>10. QED
  BY <1>1, <1>5, <1>7, <1>8, <1>9 DEF w, v

LEMMA SidesSpread ==
  ASSUME NEW req \in Requests, NEW at \in Bins, NEW held, NEW n, NEW ps, NEW k,
         Positions(ps, k, req, at, held, n),
         NEW f, DOMAIN f = UpFrom(req, at), \A b \in UpFrom(req, at) : f[b] = OneCall(ps, b).x,
         NEW g, DOMAIN g = DownFrom(req, at), \A b \in DownFrom(req, at) : g[b] = OneCall(ps, b).y
  PROVE  /\ Spread(req.x, SideX(req, at), UpFrom(req, at), Bands(req), Len(SplitRange(req)),
                   WeightsX(req, at), PartsX(req, at), f)
         /\ Spread(req.y, SideY(req, at), DownFrom(req, at), Bands(req), Len(SplitRange(req)),
                   WeightsY(req, at), PartsY(req, at), g)
<1> DEFINE specs == SplitRange(req)
           M == Len(specs)
           S == Bands(req)
           w == SideX(req, at)
           v == SideY(req, at)
           U == UpFrom(req, at)
           D == DownFrom(req, at)
           gx == WeightsX(req, at)
           gy == WeightsY(req, at)
           px == PartsX(req, at)
           py == PartsY(req, at)
<1>1. /\ \A i \in 1 .. M : S[i] = BinsOf(specs[i]) /\ px[i] = PartX(req, at, i) /\ py[i] = PartY(req, at, i)
      /\ S = [i \in 1 .. M |-> S[i]]
  BY DEF Bands, PartsX, PartsY
<1>2. DOMAIN w = BinsOf(req) /\ DOMAIN v = BinsOf(req)
      /\ \A b \in BinsOf(req) : w[b] = WeightsOf(req, at)[b].x /\ v[b] = WeightsOf(req, at)[b].y
  BY DEF SideX, SideY
<1>3. U \subseteq BinsOf(req) /\ D \subseteq BinsOf(req)
  BY DEF UpFrom, DownFrom
<1> HIDE DEF S, w, v, U, D, px, py
<1>4. /\ \A b \in BinsOf(req) \ U : w[b] = 0
      /\ \A b \in BinsOf(req) \ D : v[b] = 0
  BY SidesAre DEF w, v, U, D
<1>5. \A i \in 1 .. M : S[i] \in SUBSET BinsOf(req)
  BY <1>1, SpecWithin
<1>6. S \in [1 .. M -> SUBSET BinsOf(req)]
  BY <1>1, <1>5
<1>7. \A i, j \in 1 .. M : i # j => S[i] \cap S[j] = {}
  BY <1>1, SpecsApart
<1>8. \A b \in BinsOf(req) : \E i \in 1 .. M : b \in S[i]
  <2>1. \A b \in BinsOf(req) : \E i \in 1 .. M : b \in BinsOf(specs[i])
    BY SplitIs DEF Specs
  <2>2. QED
    BY <1>1, <2>1
<1>9. DOMAIN gx = 1 .. M /\ DOMAIN gy = 1 .. M
  BY SpecWithin DEF WeightsX, WeightsY
<1>10. ASSUME NEW i \in 1 .. M
       PROVE  /\ DOMAIN px[i] = S[i] /\ (\A b \in S[i] : px[i][b] = w[b]) /\ gx[i] = Total(px[i])
              /\ DOMAIN py[i] = S[i] /\ (\A b \in S[i] : py[i][b] = v[b]) /\ gy[i] = Total(py[i])
  <2>1. /\ DOMAIN PartX(req, at, i) = S[i] /\ DOMAIN PartY(req, at, i) = S[i]
        /\ \A b \in S[i] : PartX(req, at, i)[b] = WeightsOf(req, at)[b].x
                           /\ PartY(req, at, i)[b] = WeightsOf(req, at)[b].y
        /\ gx[i] = Total(PartX(req, at, i)) /\ gy[i] = Total(PartY(req, at, i))
    BY <1>1, PartsAre
  <2>2. \A b \in S[i] : b \in BinsOf(req)
    BY <1>5
  <2>3. px[i] = PartX(req, at, i) /\ py[i] = PartY(req, at, i)
    BY <1>1
  <2> HIDE DEF gx, gy
  <2>4. QED
    BY <1>2, <2>1, <2>2, <2>3
<1>11. ASSUME NEW i \in 1 .. M, NEW b \in S[i]
       PROVE  /\ b \in U => f[b] = (Allocate(req.x, gx)[i] * ToBps(px[i])[b]) \div One
              /\ b \in D => g[b] = (Allocate(req.y, gy)[i] * ToBps(py[i])[b]) \div One
  <2>1. OneCall(ps, b) = [x |-> ShareX(req, at, i, b), y |-> ShareY(req, at, i, b)]
    BY <1>1, PlannedIsShare
  <2>2. OneCall(ps, b).x = ShareX(req, at, i, b) /\ OneCall(ps, b).y = ShareY(req, at, i, b)
    BY <2>1
  <2>3. /\ ShareX(req, at, i, b) = (Allocate(req.x, gx)[i] * ToBps(px[i])[b]) \div One
        /\ ShareY(req, at, i, b) = (Allocate(req.y, gy)[i] * ToBps(py[i])[b]) \div One
    BY <1>1 DEF ShareX, ShareY
  <2> HIDE DEF gx, gy
  <2>4. /\ b \in U => f[b] = OneCall(ps, b).x
        /\ b \in D => g[b] = OneCall(ps, b).y
    BY DEF U, D
  <2>5. QED
    BY <2>2, <2>3, <2>4
<1> HIDE DEF gx, gy, M
<1>12. Spread(req.x, w, U, S, M, gx, px, f)
  <2>1. DOMAIN f = U
    BY DEF U
  <2>2. QED
    BY <1>2, <1>4, <1>6, <1>7, <1>8, <1>9, <1>10, <1>11, <2>1 DEF Spread
<1>13. Spread(req.y, v, D, S, M, gy, py, g)
  <2>1. DOMAIN g = D
    BY DEF D
  <2>2. QED
    BY <1>2, <1>4, <1>6, <1>7, <1>8, <1>9, <1>10, <1>11, <2>1 DEF Spread
<1>14. QED
  BY <1>12, <1>13 DEF w, v, U, D, S, M, gx, gy, px, py

(* The positions that take some of a token on the bins of S.               *)
TakersX(ps, S) == {a \in DOMAIN ps : \E b \in S \cap DOMAIN ps[a].dist : ps[a].dist[b].x > 0}
TakersY(ps, S) == {a \in DOMAIN ps : \E b \in S \cap DOMAIN ps[a].dist : ps[a].dist[b].y > 0}

LEMMA TakenHasWeight ==
  ASSUME NEW w, Amounts(w), NEW b \in DOMAIN w, ToBps(w)[b] > 0
  PROVE  Total(w) # 0
<1>1. ToBps(w)[b] \in Nat /\ w[b] \in Nat /\ Total(w) \in Nat /\ w[b] <= Total(w)
  BY ToBpsIsNat, TotalIsNat, TotalAtLeast DEF Amounts
<1>2. w[b] # 0
  BY <1>1, ToBpsOfNone
<1>3. QED
  BY <1>1, <1>2

(* Each of them is for a part of the split that has weight.                *)
LEMMA TakersAreGiven ==
  ASSUME NEW req \in Requests, NEW at \in Bins, NEW held, NEW n, NEW ps, NEW k,
         Positions(ps, k, req, at, held, n), NEW S
  PROVE  /\ Cardinality(TakersX(ps, S)) \in Nat /\ Cardinality(TakersY(ps, S)) \in Nat
         /\ Cardinality(TakersX(ps, S)) <= Cardinality(Given(WeightsX(req, at), Len(SplitRange(req))))
         /\ Cardinality(TakersY(ps, S)) <= Cardinality(Given(WeightsY(req, at), Len(SplitRange(req))))
<1> DEFINE M == Len(SplitRange(req))
           GX == Given(WeightsX(req, at), M)
           GY == Given(WeightsY(req, at), M)
           TX == TakersX(ps, S)
           TY == TakersY(ps, S)
<1>1. DOMAIN ps = 1 .. Len(ps) /\ Len(ps) \in Nat
  BY PositionsApart
<1>2. ASSUME NEW a \in 1 .. Len(ps), NEW b \in DOMAIN ps[a].dist
      PROVE  /\ k[a] \in 1 .. M
             /\ ps[a].dist[b].x > 0 => k[a] \in GX
             /\ ps[a].dist[b].y > 0 => k[a] \in GY
  <2>1. k[a] \in 1 .. M /\ ps[a] = Draft(req, at, held, n, k[a]) /\ b \in BinsOf(SplitRange(req)[k[a]])
    BY TableOfPart
  <2>2. /\ ps[a].dist[b].x = ToBps(PartX(req, at, k[a]))[b]
        /\ ps[a].dist[b].y = ToBps(PartY(req, at, k[a]))[b]
    BY <2>1, DraftRows
  <2>3. /\ Amounts(PartX(req, at, k[a])) /\ b \in DOMAIN PartX(req, at, k[a])
        /\ WeightsX(req, at)[k[a]] = Total(PartX(req, at, k[a]))
        /\ Amounts(PartY(req, at, k[a])) /\ b \in DOMAIN PartY(req, at, k[a])
        /\ WeightsY(req, at)[k[a]] = Total(PartY(req, at, k[a]))
    BY <2>1, PartsAre
  <2>4. ps[a].dist[b].x > 0 => WeightsX(req, at)[k[a]] # 0
    BY <2>2, <2>3, TakenHasWeight
  <2>5. ps[a].dist[b].y > 0 => WeightsY(req, at)[k[a]] # 0
    BY <2>2, <2>3, TakenHasWeight
  <2>6. QED
    BY <2>1, <2>4, <2>5 DEF Given
<1>3. /\ TX \subseteq 1 .. Len(ps) /\ TY \subseteq 1 .. Len(ps)
      /\ \A a \in TX : k[a] \in GX
      /\ \A a \in TY : k[a] \in GY
  BY <1>1, <1>2 DEF TakersX, TakersY
<1>4. \A i, j \in 1 .. Len(ps) : k[i] = k[j] => i = j
  <2>1. /\ \A i, j \in 1 .. Len(ps) : i < j => k[i] < k[j]
        /\ k \in [1 .. Len(ps) -> 1 .. M]
    BY DEF Positions
  <2>2. \A i \in 1 .. Len(ps) : k[i] \in Nat
    BY <2>1
  <2> SUFFICES ASSUME NEW i \in 1 .. Len(ps), NEW j \in 1 .. Len(ps), k[i] = k[j]
               PROVE  i = j
    OBVIOUS
  <2>3. ~(i < j) /\ ~(j < i)
    BY <2>1, <2>2
  <2>4. QED
    BY <1>1, <2>3
<1>5. IsFiniteSet(GX) /\ IsFiniteSet(GY) /\ IsFiniteSet(TX) /\ IsFiniteSet(TY)
  <2>1. M \in Nat /\ IsFiniteSet(1 .. M) /\ IsFiniteSet(1 .. Len(ps))
    BY <1>1, SplitIsShort, FS_Interval
  <2>2. GX \in SUBSET (1 .. M) /\ GY \in SUBSET (1 .. M)
    BY DEF Given
  <2> HIDE DEF GX, GY, TX, TY, M
  <2>3. QED
    BY <1>3, <2>1, <2>2, FS_Subset
<1> HIDE DEF GX, GY, TX, TY, M
<1>6. [a \in TX |-> k[a]] \in Injection(TX, GX) /\ [a \in TY |-> k[a]] \in Injection(TY, GY)
  BY <1>3, <1>4 DEF Injection, IsInjective
<1>7. Cardinality(TX) <= Cardinality(GX) /\ Cardinality(TY) <= Cardinality(GY)
  BY <1>5, <1>6, FS_Injection
<1>8. Cardinality(TX) \in Nat /\ Cardinality(TY) \in Nat
  BY <1>5, FS_CardinalityType
<1>9. QED
  BY <1>7, <1>8 DEF TX, TY, GX, GY, M

LEMMA SidesDust ==
  ASSUME NEW req \in Requests, NEW at \in Bins, NEW held, NEW n, NEW ps, NEW k,
         Positions(ps, k, req, at, held, n),
         NEW f, DOMAIN f = UpFrom(req, at), \A b \in UpFrom(req, at) : f[b] = OneCall(ps, b).x,
         NEW g, DOMAIN g = DownFrom(req, at), \A b \in DownFrom(req, at) : g[b] = OneCall(ps, b).y
  PROVE  /\ UpFrom(req, at) # {} =>
              req.x - Total(f) \in 0 .. Cardinality(UpFrom(req, at))
                                          - Cardinality(TakersX(ps, UpFrom(req, at)))
         /\ DownFrom(req, at) # {} =>
              req.y - Total(g) \in 0 .. Cardinality(DownFrom(req, at))
                                          - Cardinality(TakersY(ps, DownFrom(req, at)))
<1> DEFINE M == Len(SplitRange(req))
           S == Bands(req)
           w == SideX(req, at)
           v == SideY(req, at)
           U == UpFrom(req, at)
           D == DownFrom(req, at)
           gx == WeightsX(req, at)
           gy == WeightsY(req, at)
           px == PartsX(req, at)
           py == PartsY(req, at)
<1>1. Spread(req.x, w, U, S, M, gx, px, f) /\ Spread(req.y, v, D, S, M, gy, py, g)
  BY SidesSpread
<1>2. /\ M \in Nat /\ M <= Scale /\ req.x \in Nat /\ req.y \in Nat /\ MaxBin \in Nat
      /\ BinsOf(req) \subseteq 0 .. MaxBin
  BY SplitIsShort, RequestIs, BinsBounded
<1>3. /\ Amounts(w) /\ DOMAIN w = BinsOf(req) /\ Amounts(v) /\ DOMAIN v = BinsOf(req)
      /\ U # {} => Total(w) # 0
      /\ D # {} => Total(v) # 0
  BY SidesAre
<1>4. U \in SUBSET BinsOf(req) /\ D \in SUBSET BinsOf(req)
  BY DEF UpFrom, DownFrom
<1>5. \A T : /\ Cardinality(TakersX(ps, T)) \in Nat /\ Cardinality(TakersX(ps, T)) <= Cardinality(Given(gx, M))
             /\ Cardinality(TakersY(ps, T)) \in Nat /\ Cardinality(TakersY(ps, T)) <= Cardinality(Given(gy, M))
  BY TakersAreGiven
<1> HIDE DEF M, S, w, v, U, D, gx, gy, px, py
<1>6. ASSUME NEW c \in Nat, NEW h \in Nat, NEW t \in Nat, NEW r, r \in 0 .. c - h, t <= h
      PROVE  r \in 0 .. c - t
  BY <1>6
<1>7. ASSUME U # {}
      PROVE  req.x - Total(f) \in 0 .. Cardinality(U) - Cardinality(TakersX(ps, U))
  <2>1. /\ Cardinality(U) \in Nat /\ Cardinality(Given(gx, M)) \in Nat
        /\ req.x - Total(f) \in 0 .. Cardinality(U) - Cardinality(Given(gx, M))
    BY <1>1, <1>2, <1>3, <1>4, <1>7, SpreadDust
  <2>2. QED
    BY <1>5, <1>6, <2>1
<1>8. ASSUME D # {}
      PROVE  req.y - Total(g) \in 0 .. Cardinality(D) - Cardinality(TakersY(ps, D))
  <2>1. /\ Cardinality(D) \in Nat /\ Cardinality(Given(gy, M)) \in Nat
        /\ req.y - Total(g) \in 0 .. Cardinality(D) - Cardinality(Given(gy, M))
    BY <1>1, <1>2, <1>3, <1>4, <1>8, SpreadDust
  <2>2. QED
    BY <1>5, <1>6, <2>1
<1>9. QED
  BY <1>7, <1>8 DEF U, D

-----------------------------------------------------------------------------
(***************************************************************************)
(* What a finished run leaves.                                             *)
(***************************************************************************)
(* The plan is one planDeposit returned for the request.                   *)
MadePlan == \E at \in Bins : \E held, n : plan = PlanDeposit(request, at, held, n)

LEMMA PlanIsMade ==
  ASSUME RunnerInv, MadePlan, [Next]_vars
  PROVE  MadePlan'
<1>1. CASE Replan
  <2>1. request' = request /\ plan' = PlanDeposit(request, active, opened, plans + 1)
    BY <1>1 DEF Replan
  <2>2. active \in Bins
    BY DEF RunnerInv, PlanInv
  <2>3. QED
    BY <2>1, <2>2, Zenon DEF MadePlan
<1>2. CASE plan' = plan /\ request' = request
  BY <1>2, Zenon DEF MadePlan
<1>3. Replan \/ (plan' = plan /\ request' = request)
  BY Zenon DEF Next, Progress, Skip, Send, Land, Refuse, Confirm, Finish, Timeout, LandLate, Trade, vars
<1>4. QED
  BY <1>1, <1>2, <1>3

LEMMA DoneLeavesDust ==
  ASSUME FirstInv, MadePlan
  PROVE  OnlyDustStays
<1> SUFFICES ASSUME status = "done", plans = 1
             PROVE  OnlyDustStays
  BY Zenon DEF OnlyDustStays
<1>at. PICK at \in Bins : \E held, n : plan = PlanDeposit(request, at, held, n)
  BY Zenon DEF MadePlan
<1>1. PICK held, n : plan = PlanDeposit(request, at, held, n)
  BY <1>at, Zenon
<1> DEFINE ps == plan.positions
           U == UpFrom(request, at)
           D == DownFrom(request, at)
           f == [b \in U |-> placed[b].x]
           g == [b \in D |-> placed[b].y]
<1>2. ps = PositionPlans(request, at, held, n) /\ plan.activeId = at
  BY <1>1 DEF PlanDeposit, PlanOf
<1>3. request \in Requests
  BY DEF FirstInv, RunnerInv, PlanInv
<1>4. PICK k : Positions(ps, k, request, at, held, n)
  BY <1>2, <1>3, PlansAreDrafts
<1>5. \A b \in BinsOf(request) : placed[b] = OneCall(ps, b)
  BY <1>3, FirstPlaces, RequestIs DEF Planned
<1>6. /\ DOMAIN f = U /\ \A b \in U : f[b] = OneCall(ps, b).x
      /\ DOMAIN g = D /\ \A b \in D : g[b] = OneCall(ps, b).y
  BY <1>5 DEF UpFrom, DownFrom
<1> HIDE DEF f, g, ps
<1>7. /\ U # {} => request.x - Total(f) \in 0 .. Cardinality(U) - Cardinality(TakersX(ps, U))
      /\ D # {} => request.y - Total(g) \in 0 .. Cardinality(D) - Cardinality(TakersY(ps, D))
  BY <1>3, <1>4, <1>6, SidesDust
<1>8. /\ U = {b \in BinsOf(request) : b >= plan.activeId}
      /\ D = {b \in BinsOf(request) : b <= plan.activeId}
  BY <1>2 DEF UpFrom, DownFrom
<1> HIDE DEF U, D
<1>9. QED
  BY <1>7, <1>8, Zenon DEF OnlyDustStays, TakersX, TakersY, f, g, ps

(* OnlyDustStays, of every deposit: a finished run leaves in the wallet    *)
(* less than a unit of a token for each bin that may take it, so neither   *)
(* the remainder of the split nor that of the basis points is ever given   *)
(* to a bin or a position that cannot hold it (allocate, toBps and         *)
(* planDeposit of sdk/src).                                                *)
THEOREM OnlyDustIsLeft == Spec => []OnlyDustStays
<1>1. Init => MadePlan
  BY Zenon DEF Init, MadePlan
<1>2. FirstInv /\ MadePlan /\ [Next]_vars => MadePlan'
  BY PlanIsMade DEF FirstInv
<1>3. FirstInv /\ MadePlan => OnlyDustStays
  BY DoneLeavesDust
<1>4. QED
  BY <1>1, <1>2, <1>3, FirstAlways, PTL DEF Spec
=============================================================================
