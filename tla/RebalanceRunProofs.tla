------------------------- MODULE RebalanceRunProofs -------------------------
(***************************************************************************)
(* A plan is accepted step by step, reaches its goal and withdraws nothing *)
(* it is to keep, whatever the bands, the cap on growth, the ladder and    *)
(* the account, and whatever is lost or sent again.                        *)
(*                                                                         *)
(* First one turn of resizeSteps' loop, then the loop, which is a          *)
(* recursive function over bands: that it is defined at all rests on a gap *)
(* that shrinks from turn to turn.  Then the chunks of an exit, which      *)
(* cover what is to be burnt, and the plans made of both.                  *)
(*                                                                         *)
(* The properties are not inductive: RunInv relates the account to what is *)
(* left of the plan.  What is still to be burnt is burnt by a step still   *)
(* to do, and the account is where the next resize starts from or where it *)
(* ends, whichever of the two a lost confirmation leaves open.             *)
(***************************************************************************)
EXTENDS RebalanceRun, WellFoundedInduction, TLAPS

(* Bands are intervals of bins, and widths are positive.                   *)
LEMMA BandFacts ==
  ASSUME NEW b \in Bands
  PROVE  /\ b.lower \in Int /\ b.upper \in Int /\ b.lower <= b.upper
         /\ MinBin <= b.lower /\ b.upper <= MaxBin
         /\ Width(b) \in Nat \ {0}
  BY RunAssumption DEF Bands, Bins, Width

(* The kept stretch lies in the target, and is no wider than either band.  *)
LEMMA OverlapFacts ==
  ASSUME NEW cur \in Bands, NEW to \in Bands
  PROVE  /\ Overlap(cur, to).lower \in Int /\ Overlap(cur, to).upper \in Int
         /\ Overlap(cur, to).lower <= Overlap(cur, to).upper
         /\ to.lower <= Overlap(cur, to).lower
         /\ Overlap(cur, to).upper <= to.upper
         /\ Width(Overlap(cur, to)) \in Int
         /\ 1 <= Width(Overlap(cur, to))
         /\ Width(Overlap(cur, to)) <= Width(cur)
         /\ BinsOf(cur) \cap BinsOf(to) \subseteq BinsOf(Overlap(cur, to))
  BY BandFacts DEF Overlap, Width, Larger, Smaller, BinsOf

(* The step that cannot reach the target: it takes the whole of its room,  *)
(* stays inside the target and keeps the stretch it started from.          *)
LEMMA ShortStep ==
  ASSUME NEW cur \in Bands, NEW to \in Bands, Width(to) > Room(cur, to)
  PROVE  LET n == NextBand(cur, to) IN
         /\ n \in Bands
         /\ Width(n) = Room(cur, to)
         /\ to.lower <= n.lower /\ n.upper <= to.upper
         /\ n.lower <= Overlap(cur, to).lower /\ Overlap(cur, to).upper <= n.upper
<1> DEFINE kept == Overlap(cur, to)
           budget == Room(cur, to) - Width(kept)
           down == Smaller(budget, kept.lower - to.lower)
           up == Smaller(budget - down, to.upper - kept.upper)
<1>1. NextBand(cur, to) = [lower |-> kept.lower - down, upper |-> kept.upper + up]
  <2>1. ~(Width(to) <= Room(cur, to))
    BY BandFacts, RunAssumption DEF Room
  <2> QED  BY <2>1 DEF NextBand
<1>2. /\ kept.lower \in Int /\ kept.upper \in Int /\ kept.lower <= kept.upper
      /\ to.lower <= kept.lower /\ kept.upper <= to.upper
      /\ Width(kept) = kept.upper - kept.lower + 1
      /\ Width(kept) <= Width(cur)
  BY OverlapFacts DEF Width
<1>3. /\ Room(cur, to) \in Int /\ Width(cur) <= Room(cur, to)
      /\ Room(cur, to) < Width(to) /\ Width(to) = to.upper - to.lower + 1
  BY BandFacts, RunAssumption DEF Room, Width
<1>4. /\ MinBin \in Int /\ MaxBin \in Int
      /\ to.lower \in Int /\ to.upper \in Int
      /\ MinBin <= to.lower /\ to.upper <= MaxBin
      /\ Width(cur) \in Int
  BY BandFacts, RunAssumption
<1> HIDE DEF kept
<1>5. /\ budget \in Int /\ budget >= 0
      /\ budget < (kept.lower - to.lower) + (to.upper - kept.upper)
  BY <1>2, <1>3, <1>4
<1>6. Width(kept) + budget = Room(cur, to)
  BY <1>2, <1>3, <1>4
<1> HIDE DEF budget
<1>7. /\ down \in Int /\ 0 <= down /\ down <= kept.lower - to.lower /\ down <= budget
      /\ down = budget \/ down = kept.lower - to.lower
  BY <1>2, <1>4, <1>5 DEF Smaller
<1> HIDE DEF down
<1>8. /\ up \in Int /\ 0 <= up /\ up <= to.upper - kept.upper
      /\ up + down = budget
  BY <1>2, <1>4, <1>5, <1>7 DEF Smaller
<1> HIDE DEF up
<1> DEFINE n == [lower |-> kept.lower - down, upper |-> kept.upper + up]
<1>9. /\ n.lower = kept.lower - down /\ n.upper = kept.upper + up
      /\ n.lower \in Int /\ n.upper \in Int /\ n.lower <= n.upper
      /\ to.lower <= n.lower /\ n.upper <= to.upper
      /\ n.lower <= kept.lower /\ kept.upper <= n.upper
  BY <1>2, <1>4, <1>7, <1>8
<1>10. n \in Bands
  BY <1>4, <1>9 DEF Bands, Bins
<1>11. Width(n) = Room(cur, to)
  BY <1>2, <1>6, <1>7, <1>8, <1>9 DEF Width
<1> QED  BY <1>1, <1>9, <1>10, <1>11 DEF kept

(* One turn of resizeSteps is a resize the program accepts: it adds no     *)
(* more storage than one transaction may, and every bin it drops is one    *)
(* the target does not want, so emptying the leaving bins first is enough. *)
THEOREM StepFitsAndKeeps ==
  ASSUME NEW cur \in Bands, NEW to \in Bands
  PROVE  /\ NextBand(cur, to) \in Bands
         /\ Width(NextBand(cur, to)) - Width(cur) <= MaxExtend
         /\ BinsOf(cur) \cap BinsOf(to) \subseteq BinsOf(NextBand(cur, to))
<1>1. CASE Width(to) <= Room(cur, to)
  <2>1. NextBand(cur, to) = to
    BY <1>1 DEF NextBand
  <2> QED  BY <1>1, <2>1, BandFacts, RunAssumption DEF Room
<1>2. CASE Width(to) > Room(cur, to)
  <2>1. Width(NextBand(cur, to)) = Width(cur) + MaxExtend
    BY <1>2, ShortStep DEF Room
  <2>2. Overlap(cur, to).lower \in Int /\ Overlap(cur, to).upper \in Int
    BY OverlapFacts
  <2>3. NextBand(cur, to).lower \in Int /\ NextBand(cur, to).upper \in Int
    BY <1>2, ShortStep, BandFacts
  <2>4. BinsOf(Overlap(cur, to)) \subseteq BinsOf(NextBand(cur, to))
    BY <1>2, <2>2, <2>3, ShortStep DEF BinsOf
  <2> QED  BY <1>2, <2>1, <2>4, ShortStep, OverlapFacts, BandFacts, RunAssumption
<1> QED  BY <1>1, <1>2, BandFacts, RunAssumption DEF Room

(* The loop makes progress: a turn that does not reach the target leaves   *)
(* a band inside it that is MaxExtend bins wider than before, so the next  *)
(* turns only widen, and the list is finite.                               *)
THEOREM StepMakesProgress ==
  ASSUME NEW cur \in Bands, NEW to \in Bands, NextBand(cur, to) # to
  PROVE  /\ Width(NextBand(cur, to)) = Width(cur) + MaxExtend
         /\ BinsOf(NextBand(cur, to)) \subseteq BinsOf(to)
<1>1. Width(to) > Room(cur, to)
  BY BandFacts, RunAssumption DEF NextBand, Room
<1>2. NextBand(cur, to).lower \in Int /\ NextBand(cur, to).upper \in Int
  BY <1>1, ShortStep, BandFacts
<1> QED  BY <1>1, <1>2, ShortStep, BandFacts DEF BinsOf, Room

-----------------------------------------------------------------------------
(***************************************************************************)
(* What a plan is made of.                                                 *)
(***************************************************************************)
Step == [kind : {"exit", "resize"}, lower : Int, upper : Int, burns : SUBSET Bins,
         full : BOOLEAN, closes : BOOLEAN, grows : Nat]

(* Induction over the naturals, stated of a set.                           *)
LEMMA Induction ==
  ASSUME NEW S \in SUBSET Nat, 0 \in S, \A n \in S : n + 1 \in S
  PROVE  S = Nat
<1> SUFFICES ASSUME Nat \ S # {} PROVE FALSE
  OBVIOUS
<1>1. PICK m \in Nat \ S : \A y \in Nat \ S : ~(<<y, m>> \in OpToRel(<, Nat))
  BY NatLessThanWellFounded, WFMin, Nat \ S \subseteq Nat
<1>2. \A y \in Nat \ S : ~(y < m)
  BY <1>1, Zenon DEF OpToRel
<1>3. m # 0 /\ m - 1 \in Nat
  OBVIOUS
<1>4. m - 1 \in S
  BY <1>2, <1>3
<1>5. QED
  BY <1>3, <1>4

(* Some bins have a lowest and a highest.                                  *)
LEMMA LeastOfNat ==
  ASSUME NEW T \in SUBSET Nat, T # {}
  PROVE  \E m \in T : \A y \in T : m <= y
<1>1. PICK m \in T : \A y \in T : ~(<<y, m>> \in OpToRel(<, Nat))
  BY NatLessThanWellFounded, WFMin
<1>2. \A y \in T : ~(y < m)
  <2>1. \A y \in T : y \in Nat /\ m \in Nat
    OBVIOUS
  <2>2. \A y \in T : ~(y < m)
    BY <1>1, <2>1, Zenon DEF OpToRel
  <2>3. QED
    BY <2>2
<1>3. QED
  BY <1>2

LEMMA EndsOfBins ==
  ASSUME NEW T \in SUBSET Bins, T # {}
  PROVE  /\ Lowest(T) \in T /\ Highest(T) \in T
         /\ \A b \in T : Lowest(T) <= b /\ b <= Highest(T)
<1>1. T \in SUBSET Nat /\ \A b \in T : b \in Nat /\ b <= MaxBin
  BY RunAssumption DEF Bins
<1>2. \E m \in T : \A y \in T : m <= y
  BY <1>1, LeastOfNat
<1>3. \E m \in T : \A y \in T : m >= y
  <2> DEFINE U == {u \in Nat : \E b \in T : u = MaxBin - b}
  <2>0. \A b \in T : MaxBin - b \in U
    BY <1>1, RunAssumption
  <2>1. U \in SUBSET Nat /\ U # {}
    BY <2>0
  <2>2. PICK u \in U : \A y \in U : u <= y
    <3> HIDE DEF U
    <3>1. QED
      BY <2>1, LeastOfNat
  <2>3. PICK m \in T : u = MaxBin - m
    OBVIOUS
  <2>4. \A y \in T : MaxBin - m <= MaxBin - y
    <3> HIDE DEF U
    <3>1. QED
      BY <2>0, <2>2, <2>3
  <2>5. QED
    BY <1>1, <2>4, RunAssumption
<1>4. Lowest(T) \in T /\ \A y \in T : Lowest(T) <= y
  BY <1>2, Zenon DEF Lowest
<1>5. Highest(T) \in T /\ \A y \in T : Highest(T) >= y
  BY <1>3, Zenon DEF Highest
<1>6. QED
  BY <1>1, <1>4, <1>5

(* The quotient of two naturals.                                           *)
LEMMA Quotient ==
  ASSUME NEW a \in Nat, NEW d \in Nat \ {0}
  PROVE  /\ a \div d \in Nat
         /\ (a \div d) * d <= a /\ a < (a \div d) * d + d
  OBVIOUS

(* C is a stretch of exits that covers first .. last between them, of      *)
(* which only the last one closes.                                         *)
Cuts(C, first, last, burnable, full, closes) ==
  /\ C \in Seq(Step) /\ Len(C) \in Nat \ {0}
  /\ \A i \in 1 .. Len(C) :
       /\ C[i].kind = "exit" /\ C[i].full = full /\ C[i].grows = 0
       /\ C[i].burns \subseteq burnable
       /\ C[i].closes <=> closes /\ i = Len(C)
  /\ \A b \in burnable \cap (first .. last) :
       \E i \in 1 .. Len(C) : b \in C[i].burns

(* The chunks cover the stretch, each burns only what is burnable, and     *)
(* only the last one closes.                                               *)
LEMMA ChunksCover ==
  ASSUME NEW first \in Bins, NEW last \in Bins, first <= last,
         NEW burnable \in SUBSET Bins, NEW full \in BOOLEAN, NEW closes \in BOOLEAN
  PROVE  Cuts(Chunks(first, last, burnable, full, closes),
              first, last, burnable, full, closes)
<1> DEFINE start(i) == first + (i - 1) * ChunkWidth
           end(i) == Smaller(last, start(i) + ChunkWidth - 1)
           q == (last - first) \div ChunkWidth
           piece(i) == [kind |-> "exit", lower |-> start(i), upper |-> end(i),
                        burns |-> burnable \cap (start(i) .. end(i)), full |-> full,
                        closes |-> closes /\ end(i) = last, grows |-> 0]
           D == [i \in 1 .. q + 1 |-> piece(i)]
<1>1. /\ first \in Int /\ last \in Int /\ last - first \in Nat
      /\ ChunkWidth \in Nat \ {0} /\ MinBin <= first /\ last <= MaxBin
  BY RunAssumption DEF Bins
<1>2. /\ q \in Nat /\ q * ChunkWidth \in Int
      /\ q * ChunkWidth <= last - first
      /\ last - first < q * ChunkWidth + ChunkWidth
  BY <1>1, Quotient
<1>3. ASSUME NEW i \in 1 .. q + 1
      PROVE  /\ start(i) \in Int /\ end(i) \in Int
             /\ end(i) = last <=> i = q + 1
  <2> HIDE DEF q
  <2>1. i \in Int /\ (i - 1) * ChunkWidth \in Int
    BY <1>1, <1>2
  <2>2. CASE i = q + 1
    <3>1. (i - 1) * ChunkWidth = q * ChunkWidth
      BY <1>2, <2>2
    <3>2. QED
      BY <1>1, <1>2, <2>1, <2>2, <3>1 DEF Smaller
  <2>3. CASE i # q + 1
    <3>1. i <= q
      BY <1>2, <2>3
    <3>2. (i - 1) * ChunkWidth + ChunkWidth <= q * ChunkWidth
      <4>1. PICK d \in Nat : q = i + d
        <5>1. q - i \in Nat /\ q = i + (q - i)
          BY <1>2, <2>1, <3>1
        <5>2. QED
          BY <5>1
      <4>2. q * ChunkWidth = (i - 1) * ChunkWidth + ChunkWidth + d * ChunkWidth
        BY <1>1, <2>1, <4>1
      <4>3. d * ChunkWidth >= 0
        BY <1>1
      <4>4. QED
        BY <1>1, <2>1, <4>2, <4>3
    <3>3. QED
      BY <1>1, <1>2, <2>1, <2>3, <3>2 DEF Smaller
  <2>4. QED
    BY <2>2, <2>3
<1>4. ASSUME NEW i \in 1 .. q + 1
      PROVE  piece(i) \in Step /\ piece(i).burns \subseteq burnable
  BY <1>3 DEF Step
<1>5. ASSUME NEW b \in burnable \cap (first .. last)
      PROVE  \E i \in 1 .. q + 1 : b \in piece(i).burns
  <2> DEFINE p == (b - first) \div ChunkWidth
  <2>1. b \in Int /\ first <= b /\ b <= last /\ b - first \in Nat
    BY <1>1
  <2>2. /\ p \in Nat /\ p * ChunkWidth \in Int
        /\ p * ChunkWidth <= b - first
        /\ b - first < p * ChunkWidth + ChunkWidth
    BY <1>1, <2>1, Quotient
  <2> HIDE DEF p, q
  <2>3. p <= q
    <3> SUFFICES ASSUME p >= q + 1 PROVE FALSE
      BY <1>2, <2>2
    <3>1. PICK d \in Nat : p = q + 1 + d
      <4>1. p - (q + 1) \in Nat /\ p = q + 1 + (p - (q + 1))
        BY <1>2, <2>2
      <4>2. QED
        BY <4>1
    <3>2. p * ChunkWidth = q * ChunkWidth + ChunkWidth + d * ChunkWidth
      BY <1>1, <1>2, <3>1
    <3>3. d * ChunkWidth >= 0
      BY <1>1
    <3>4. QED
      BY <1>1, <1>2, <2>1, <2>2, <3>2, <3>3
  <2>4. p + 1 \in 1 .. q + 1 /\ (p + 1) - 1 = p
    BY <1>2, <2>2, <2>3
  <2>5. start(p + 1) <= b /\ b <= end(p + 1)
    BY <1>1, <2>1, <2>2, <2>4 DEF Smaller
  <2>6. start(p + 1) \in Int /\ end(p + 1) \in Int
    BY <1>3, <2>4
  <2> HIDE DEF start, end
  <2>7. b \in piece(p + 1).burns
    BY <2>1, <2>5, <2>6
  <2>8. QED
    BY <2>4, <2>7
<1>6. Chunks(first, last, burnable, full, closes) = D
  BY DEF Chunks
<1> HIDE DEF q
<1>7. D \in Seq(Step) /\ Len(D) = q + 1
  <2> HIDE DEF piece
  <2>1. D \in [1 .. q + 1 -> Step]
    BY <1>4
  <2>2. q + 1 \in Nat
    BY <1>2
  <2>3. QED
    BY <2>1, <2>2
<1>8. \A i \in 1 .. q + 1 : D[i] = piece(i)
  OBVIOUS
<1>9. ASSUME NEW i \in 1 .. q + 1
      PROVE  piece(i).closes <=> closes /\ i = q + 1
  BY <1>3
<1>10. \A i \in 1 .. q + 1 : piece(i).kind = "exit" /\ piece(i).full = full /\ piece(i).grows = 0
  OBVIOUS
<1> HIDE DEF D, piece
<1>11. QED
  BY <1>2, <1>4, <1>5, <1>6, <1>7, <1>8, <1>9, <1>10 DEF Cuts

-----------------------------------------------------------------------------
(***************************************************************************)
(* The bands resizeSteps lists.                                            *)
(***************************************************************************)
(* g is the loop's answer for every band within N bins of its last turn.   *)
Gap(cur, to) == IF Width(to) <= Room(cur, to) THEN 0 ELSE Width(to) - Width(cur)
Turned(g, cur, to) ==
  IF cur = to THEN <<>> ELSE <<NextBand(cur, to)>> \o g[NextBand(cur, to)]
Lists(g, to, N) == \A cur \in Bands : Gap(cur, to) <= N => g[cur] = Turned(g, cur, to)

LEMMA GapShrinks ==
  ASSUME NEW cur \in Bands, NEW to \in Bands
  PROVE  /\ Gap(cur, to) \in Nat /\ Gap(cur, to) <= MaxBin - MinBin
         /\ NextBand(cur, to) \in Bands
         /\ Gap(cur, to) = 0 => NextBand(cur, to) = to
         /\ Gap(cur, to) > 0 => Gap(NextBand(cur, to), to) < Gap(cur, to)
<1>1. /\ Width(cur) \in Nat \ {0} /\ Width(to) \in Nat \ {0}
      /\ Width(to) <= MaxBin - MinBin + 1 /\ MaxBin \in Nat /\ MinBin \in Nat
  BY BandFacts, RunAssumption DEF Width
<1>2. NextBand(cur, to) \in Bands
  BY StepFitsAndKeeps
<1>3. Room(cur, to) = Width(cur) + MaxExtend /\ MaxExtend \in Nat \ {0}
  BY RunAssumption DEF Room
<1>4. Gap(cur, to) \in Nat /\ Gap(cur, to) <= MaxBin - MinBin
  BY <1>1, <1>3 DEF Gap
<1>5. ASSUME Gap(cur, to) = 0 PROVE NextBand(cur, to) = to
  <2>1. Width(to) <= Room(cur, to)
    BY <1>1, <1>3, <1>5 DEF Gap
  <2>2. QED
    BY <2>1, Zenon DEF NextBand
<1>6. ASSUME Gap(cur, to) > 0 PROVE Gap(NextBand(cur, to), to) < Gap(cur, to)
  <2>1. Width(to) > Room(cur, to) /\ Gap(cur, to) = Width(to) - Width(cur)
    BY <1>1, <1>3, <1>6 DEF Gap
  <2>2. Width(NextBand(cur, to)) = Width(cur) + MaxExtend
    BY <1>3, <2>1, ShortStep
  <2>3. Gap(NextBand(cur, to), to) \in {0, Width(to) - Width(NextBand(cur, to))}
    BY DEF Gap
  <2>4. QED
    BY <1>1, <1>3, <1>6, <2>1, <2>2, <2>3
<1>7. QED
  BY <1>2, <1>4, <1>5, <1>6

LEMMA ListExists ==
  ASSUME NEW to \in Bands
  PROVE  \A N \in Nat : \E g : Lists(g, to, N)
<1> DEFINE S == {N \in Nat : \E g : Lists(g, to, N)}
           Longer(g) == [cur \in Bands |-> Turned(g, cur, to)]
<1>1. 0 \in S
  <2> DEFINE g == Longer([cur \in Bands |-> <<>>])
  <2>1. \A cur \in Bands : g[cur] = Turned([c \in Bands |-> <<>>], cur, to)
    OBVIOUS
  <2> HIDE DEF g
  <2>2. g[to] = <<>>
    BY <2>1 DEF Turned
  <2>3. ASSUME NEW cur \in Bands, Gap(cur, to) <= 0 PROVE g[cur] = Turned(g, cur, to)
    <3>1. NextBand(cur, to) = to
      BY <2>3, GapShrinks
    <3>2. [c \in Bands |-> <<>>][NextBand(cur, to)] = g[NextBand(cur, to)]
      BY <2>2, <3>1
    <3>3. QED
      BY <2>1, <3>2, Zenon DEF Turned
  <2>4. QED
    BY <2>3 DEF Lists
<1>2. ASSUME NEW N \in S PROVE N + 1 \in S
  <2>1. PICK g : Lists(g, to, N)
    OBVIOUS
  <2>2. \A cur \in Bands : Longer(g)[cur] = Turned(g, cur, to)
    OBVIOUS
  <2> DEFINE h == Longer(g)
  <2> HIDE DEF h
  <2>3. ASSUME NEW cur \in Bands, Gap(cur, to) <= N + 1 PROVE h[cur] = Turned(h, cur, to)
    <3>1. /\ NextBand(cur, to) \in Bands
          /\ Gap(NextBand(cur, to), to) <= N \/ NextBand(cur, to) = to
      BY <2>3, GapShrinks
    <3>2. Gap(to, to) = 0
      BY BandFacts, RunAssumption DEF Gap, Room
    <3>3. Gap(NextBand(cur, to), to) <= N
      BY <3>1, <3>2
    <3>4. g[NextBand(cur, to)] = h[NextBand(cur, to)]
      BY <2>1, <2>2, <3>1, <3>3 DEF Lists, h
    <3>5. h[cur] = Turned(g, cur, to)
      BY <2>2 DEF h
    <3>6. QED
      BY <3>4, <3>5, Zenon DEF Turned
  <2>4. QED
    BY <2>3 DEF Lists
<1>3. S \in SUBSET Nat
  OBVIOUS
<1> HIDE DEF S
<1>4. S = Nat
  BY <1>1, <1>2, <1>3, Induction
<1>5. QED
  BY <1>4 DEF S

(* A list of bands that takes the account from cur to to, turn by turn.    *)
Route(bands, cur, to) ==
  /\ bands \in Seq(Bands)
  /\ bands = <<>> <=> cur = to
  /\ bands # <<>> => bands[1] = NextBand(cur, to) /\ bands[Len(bands)] = to
  /\ \A i \in 2 .. Len(bands) :
       bands[i - 1] # to /\ bands[i] = NextBand(bands[i - 1], to)

LEMMA RouteLengthens ==
  ASSUME NEW cur \in Bands, NEW to \in Bands, cur # to, NEW rest,
         Route(rest, NextBand(cur, to), to)
  PROVE  Route(<<NextBand(cur, to)>> \o rest, cur, to)
<1> DEFINE n == NextBand(cur, to)
           bands == <<n>> \o rest
<1>1. n \in Bands
  BY StepFitsAndKeeps
<1>2. rest \in Seq(Bands)
  BY DEF Route
<1> HIDE DEF n
<1>3. /\ bands \in Seq(Bands) /\ Len(bands) = Len(rest) + 1 /\ Len(rest) \in Nat
      /\ bands[1] = n /\ \A i \in 2 .. Len(bands) : bands[i] = rest[i - 1]
  BY <1>1, <1>2
<1>4. bands # <<>>
  BY <1>3
<1>5. bands[Len(bands)] = to
  <2>1. CASE rest = <<>>
    <3>1. n = to /\ Len(rest) = 0
      BY <2>1, Zenon, Len(<<>>) = 0 DEF Route, n
    <3>2. QED
      BY <1>3, <3>1
  <2>2. CASE rest # <<>>
    <3>1. Len(rest) # 0 /\ rest[Len(rest)] = to
      BY <1>2, <2>2 DEF Route
    <3>2. QED
      BY <1>3, <3>1
  <2>3. QED
    BY <2>1, <2>2
<1>6. ASSUME NEW i \in 2 .. Len(bands)
      PROVE  bands[i - 1] # to /\ bands[i] = NextBand(bands[i - 1], to)
  <2>1. CASE i = 2
    <3>1. rest # <<>> /\ bands[i - 1] = n /\ bands[i] = rest[1]
      BY <1>2, <1>3, <1>6, <2>1
    <3>2. QED
      BY <3>1, Zenon DEF Route, n
  <2>2. CASE i # 2
    <3>1. /\ i - 1 \in 2 .. Len(rest)
          /\ bands[i - 1] = rest[(i - 1) - 1] /\ bands[i] = rest[i - 1]
      BY <1>3, <1>6, <2>2
    <3>2. QED
      BY <3>1, Zenon DEF Route
  <2>3. QED
    BY <2>1, <2>2
<1> HIDE DEF bands
<1>7. Route(bands, cur, to)
  BY <1>3, <1>4, <1>5, <1>6 DEF Route, n
<1>8. QED
  BY <1>7 DEF bands, n

(* However far apart the bands are, the loop ends at the target, and every *)
(* band on the way is one turn from the one before it.                     *)
LEMMA ResizeBandsRoute ==
  ASSUME NEW from \in Bands, NEW to \in Bands
  PROVE  Route(ResizeBands(from, to), from, to)
<1> DEFINE body(f) == [cur \in Bands |-> IF cur = to THEN <<>>
                                         ELSE <<NextBand(cur, to)>> \o f[NextBand(cur, to)]]
           bands == CHOOSE f : f = body(f)
<1>1. \E f : f = body(f)
  <2>1. PICK g : Lists(g, to, MaxBin - MinBin)
    BY ListExists, RunAssumption
  <2> DEFINE f == [cur \in Bands |-> g[cur]]
  <2>2. \A cur \in Bands : f[cur] = g[cur]
    OBVIOUS
  <2>3. ASSUME NEW cur \in Bands PROVE f[cur] = Turned(f, cur, to)
    <3>1. f[cur] = Turned(g, cur, to)
      BY <2>1, <2>2, GapShrinks DEF Lists
    <3>2. f[NextBand(cur, to)] = g[NextBand(cur, to)]
      BY <2>2, GapShrinks
    <3> HIDE DEF f
    <3>3. QED
      BY <3>1, <3>2, Zenon DEF Turned
  <2>4. f = [cur \in Bands |-> f[cur]]
    OBVIOUS
  <2> HIDE DEF f
  <2>5. f = body(f)
    BY <2>3, <2>4, Zenon DEF Turned
  <2>6. QED
    BY <2>5
<1>2. bands = body(bands)
  <2> HIDE DEF body
  <2>1. QED
    BY <1>1
<1> HIDE DEF bands
<1>3. \A cur \in Bands : bands[cur] = Turned(bands, cur, to)
  BY <1>2, Zenon DEF Turned
<1> DEFINE S == {N \in Nat : \A cur \in Bands : Gap(cur, to) <= N => Route(bands[cur], cur, to)}
<1>4. Route(bands[to], to, to)
  <2>1. bands[to] = <<>>
    BY <1>3 DEF Turned
  <2>2. QED
    BY <2>1 DEF Route
<1>5. 0 \in S
  <2> SUFFICES ASSUME NEW cur \in Bands, Gap(cur, to) <= 0, cur # to
               PROVE  Route(bands[cur], cur, to)
    BY <1>4
  <2>1. NextBand(cur, to) = to
    BY GapShrinks
  <2>2. bands[cur] = <<NextBand(cur, to)>> \o bands[NextBand(cur, to)]
    BY <1>3, Zenon DEF Turned
  <2>3. QED
    BY <1>4, <2>1, <2>2, RouteLengthens
<1>6. ASSUME NEW N \in S PROVE N + 1 \in S
  <2> SUFFICES ASSUME NEW cur \in Bands, Gap(cur, to) <= N + 1, cur # to
               PROVE  Route(bands[cur], cur, to)
    BY <1>4
  <2>1. /\ NextBand(cur, to) \in Bands
        /\ Gap(NextBand(cur, to), to) <= N \/ NextBand(cur, to) = to
    BY GapShrinks
  <2>2. Route(bands[NextBand(cur, to)], NextBand(cur, to), to)
    BY <1>4, <2>1
  <2>3. bands[cur] = <<NextBand(cur, to)>> \o bands[NextBand(cur, to)]
    BY <1>3, Zenon DEF Turned
  <2>4. QED
    BY <2>2, <2>3, RouteLengthens
<1>7. S \in SUBSET Nat
  OBVIOUS
<1> HIDE DEF S
<1>8. S = Nat
  BY <1>5, <1>6, <1>7, Induction
<1>9. MaxBin - MinBin \in S
  BY <1>8, RunAssumption
<1>10. Route(bands[from], from, to)
  BY <1>9, GapShrinks DEF S
<1>11. ResizeBands(from, to) = bands[from]
  BY Zenon DEF ResizeBands, bands
<1>12. QED
  BY <1>10, <1>11

-----------------------------------------------------------------------------
(***************************************************************************)
(* The inductive invariant of a run.                                       *)
(***************************************************************************)
RunTyped ==
  /\ band \in Bands /\ capacity \in Nat /\ open \in BOOLEAN
  /\ shares \in SUBSET Bins /\ pending \in SUBSET Bins
  /\ late \in SUBSET Step /\ intruded \in BOOLEAN
  /\ status \in {"idle", "running", "stopped", "refused", "done"}
  /\ task \in Tasks /\ steps \in Seq(Step) /\ next \in Nat \ {0}
  /\ sent \in {"none", "flying", "landed"}

(* Whatever landed when, the account holds nothing outside its band, and a *)
(* closed one nothing at all.                                              *)
Housed ==
  /\ shares \subseteq BinsOf(band) /\ pending \subseteq BinsOf(band)
  /\ Width(band) <= capacity
  /\ ~open => Closes(task) /\ shares = {} /\ pending = {}

(* What every step of a plan for t respects, one given up on included.     *)
Fits(step, t) ==
  /\ step.kind = "resize" => t.kind = "move" /\ StepBand(step) \in Bands /\ ~step.closes
  /\ step.kind = "exit" =>
       /\ step.full = t.full /\ step.grows = 0
       /\ step.full => step.burns \cap Kept(t) = {}
  /\ step.closes => Closes(t)

Meant ==
  /\ \A i \in 1 .. Len(steps) : Fits(steps[i], task)
  /\ \A step \in late : Fits(step, task)
  /\ status = "idle" => late = {} /\ open

(* Step i has not been done yet.                                           *)
ToDo(i) == i \in next .. Len(steps) /\ (i = next => sent # "landed")

(* A withdrawal that is not over: whatever is left of what it is to burn   *)
(* is burnt by a step still to do, a pending fee waits for the first one,  *)
(* and the last one closes the account if it is to be closed.              *)
BurnsAhead(kept) ==
  \A b \in shares \ kept : \E i \in 1 .. Len(steps) : ToDo(i) /\ b \in steps[i].burns
BurnsHeld == \A i \in 1 .. Len(steps) : steps[i].burns \subseteq BinsOf(band)
LastCloses == \A i \in 1 .. Len(steps) : steps[i].closes <=> Closes(task) /\ i = Len(steps)
Withdrawing ==
  status = "running" /\ task.kind # "move" =>
    /\ task.full => BurnsAhead(Bins \ BinsOf(task.band))
    /\ task.kind = "exit" /\ pending # {} => ToDo(1)
    /\ BurnsHeld
    /\ LastCloses
    /\ Closes(task) => steps # <<>> /\ (~ToDo(Len(steps)) => ~open)

(* As long as nothing lands late, an account is closed by the last step,   *)
(* or by an earlier sending of it.                                         *)
Attended ==
  ~open /\ ~intruded =>
    /\ status \in {"running", "done"}
    /\ next >= Len(steps) /\ sent # "flying"

(* The step that takes band b of an account c bins long on its way to to.  *)
Leads(step, b, c, to) ==
  /\ step.kind = "resize"
  /\ b # to
  /\ StepBand(step) = NextBand(b, to)
  /\ step.grows = Witness(c, CapacityFor(Width(StepBand(step))))

(* A move that is not over, as long as nothing lands late: what leaves is  *)
(* burnt by an exit still to do; the exits come first; each resize leads   *)
(* on from the one before, the first of those left from where the account  *)
(* is, unless it is there already; and the last one leads to the goal.     *)
ExitsFirst ==
  \A i, j \in 1 .. Len(steps) : i < j /\ steps[j].kind = "exit" => steps[i].kind = "exit"
ExitsHeld ==
  \A i \in 1 .. Len(steps) :
    IF steps[i].kind = "resize" THEN steps[i].burns = {}
    ELSE i >= next => steps[i].burns \subseteq BinsOf(band)
LeadsOn ==
  \A i \in 2 .. Len(steps) : steps[i - 1].kind = "resize" =>
    Leads(steps[i], StepBand(steps[i - 1]), CapacityFor(Width(StepBand(steps[i - 1]))),
          task.band)
IsThere(step) == band = StepBand(step) /\ capacity = CapacityFor(Width(band))
LeadsFromHere ==
  \A i \in 1 .. Len(steps) :
    i >= next /\ steps[i].kind = "resize" /\ (i = next \/ steps[i - 1].kind = "exit") =>
      \/ ToDo(i) /\ Leads(steps[i], band, capacity, task.band)
      \/ i = next /\ IsThere(steps[i])
LeadsToGoal ==
  IF Finished THEN band = task.band
  ELSE /\ steps[Len(steps)].kind = "resize"
       /\ StepBand(steps[Len(steps)]) = task.band
Moving ==
  status = "running" /\ task.kind = "move" /\ ~intruded =>
    /\ BurnsAhead(BinsOf(task.band))
    /\ pending \ BinsOf(task.band) # {} => ToDo(1) /\ steps[1].kind = "exit"
    /\ ExitsFirst /\ ExitsHeld /\ LeadsOn /\ LeadsFromHere /\ LeadsToGoal

RunInv ==
  /\ RunTyped /\ Housed /\ Meant /\ Withdrawing /\ Attended /\ Moving
  /\ NeverRefused /\ FinishedAtGoal

-----------------------------------------------------------------------------
(***************************************************************************)
(* What the plans are.                                                     *)
(***************************************************************************)
LEMMA TaskFacts ==
  ASSUME NEW t \in Tasks
  PROVE  /\ t.kind \in {"move", "range", "exit"} /\ t.band \in Bands
         /\ t.full \in BOOLEAN /\ t.close \in BOOLEAN
         /\ t.kind # "exit" => t.full /\ ~t.close
         /\ t.kind = "exit" => t.band = AllBins
         /\ AllBins \in Bands /\ BinsOf(AllBins) = Bins
         /\ Closes(t) \in BOOLEAN
         /\ Closes(t) => t.kind = "exit" /\ t.full /\ t.close
<1>1. AllBins \in Bands
  BY RunAssumption DEF AllBins, Bands, Bins
<1>2. BinsOf(AllBins) = Bins
  BY DEF AllBins, BinsOf, Bins
<1>3. QED
  BY <1>1, <1>2 DEF Tasks, Closes

(* The two kinds of step are all there are.                                *)
LEMMA StepFacts ==
  ASSUME NEW step \in Step
  PROVE  /\ step.kind \in {"exit", "resize"} /\ step.burns \in SUBSET Bins
         /\ step.full \in BOOLEAN /\ step.closes \in BOOLEAN /\ step.grows \in Nat
  BY DEF Step

LEMMA BinsOfBand ==
  ASSUME NEW b \in Bands
  PROVE  BinsOf(b) \in SUBSET Bins /\ BinsOf(b) # {} /\ Width(b) \in Nat \ {0}
  BY BandFacts, RunAssumption DEF BinsOf, Bins

(* The storage a band needs holds it.                                      *)
LEMMA CapacityHolds ==
  ASSUME NEW b \in Bands
  PROVE  CapacityFor(Width(b)) \in Nat /\ Width(b) <= CapacityFor(Width(b))
  BY BandFacts, RunAssumption DEF CapacityFor, Larger

(* planRebalance's exits burn the funded bins that leave and no other, and *)
(* there is one if a leaving bin is owed a fee.                            *)
LEMMA ExitsOfMove ==
  ASSUME RunTyped, Housed, NEW to \in Bands
  PROVE  /\ ExitSteps(to) \in Seq(Step)
         /\ \A i \in 1 .. Len(ExitSteps(to)) :
              LET step == ExitSteps(to)[i] IN
              /\ step.kind = "exit" /\ step.full /\ ~step.closes /\ step.grows = 0
              /\ step.burns \subseteq BinsOf(band) \ BinsOf(to)
         /\ \A b \in shares \ BinsOf(to) :
              \E i \in 1 .. Len(ExitSteps(to)) : b \in ExitSteps(to)[i].burns
         /\ pending \ BinsOf(to) # {} => ExitSteps(to) # <<>>
         /\ band = to => ExitSteps(to) = <<>>
<1> DEFINE L == Leaving(to)
           C == Chunks(Lowest(L), Highest(L), Reductions(to), TRUE, FALSE)
<1>1. /\ L \in SUBSET Bins /\ L = BinsOf(band) \ BinsOf(to)
      /\ Reductions(to) = shares \cap L /\ Reductions(to) \in SUBSET Bins
  BY BinsOfBand DEF Leaving, Reductions, RunTyped
<1>2. shares \ BinsOf(to) \subseteq Reductions(to) /\ pending \ BinsOf(to) \subseteq L
  BY <1>1 DEF Housed
<1>3. ASSUME L # {}
      PROVE  /\ Lowest(L) \in Bins /\ Highest(L) \in Bins /\ Lowest(L) <= Highest(L)
             /\ \A b \in L : b \in Lowest(L) .. Highest(L)
  <2>1. Lowest(L) \in L /\ Highest(L) \in L /\ \A b \in L : Lowest(L) <= b /\ b <= Highest(L)
    BY <1>1, <1>3, EndsOfBins
  <2>2. \A b \in L : b \in Int
    BY <1>1 DEF Bins
  <2> HIDE DEF L
  <2>3. QED
    BY <1>1, <2>1, <2>2
<1>4. ExitDue(to) <=> L # {} /\ (Reductions(to) # {} \/ pending \cap (Lowest(L) .. Highest(L)) # {})
  BY DEF ExitDue
<1> HIDE DEF L
<1>5. CASE ExitDue(to)
  <2>1. ExitSteps(to) = C
    BY <1>5 DEF ExitSteps, L
  <2>2. Cuts(C, Lowest(L), Highest(L), Reductions(to), TRUE, FALSE)
    BY <1>1, <1>3, <1>4, <1>5, ChunksCover
  <2> HIDE DEF C
  <2>3. C # <<>>
    BY <2>2 DEF Cuts
  <2>4. Reductions(to) \subseteq Reductions(to) \cap (Lowest(L) .. Highest(L))
    BY <1>1, <1>3, <1>4, <1>5
  <2>5. band # to
    BY <1>1, <1>4, <1>5
  <2>6. QED
    BY <1>1, <1>2, <2>1, <2>2, <2>3, <2>4, <2>5 DEF Cuts
<1>6. CASE ~ExitDue(to)
  <2>1. ExitSteps(to) = <<>>
    BY <1>6 DEF ExitSteps
  <2>2. Reductions(to) = {}
    BY <1>1, <1>4, <1>6
  <2>3. pending \cap L = {}
    BY <1>3, <1>4, <1>6
  <2>4. QED
    BY <1>2, <2>1, <2>2, <2>3
<1>7. QED
  BY <1>5, <1>6

(* Its resizes lead from the account's band to the goal, each witnessed by *)
(* the length it lengthens the account to.                                 *)
LEMMA ResizesOfMove ==
  ASSUME RunTyped, NEW to \in Bands
  PROVE  LET R == ResizeSteps(to) IN
         /\ R \in Seq(Step)
         /\ R = <<>> <=> band = to
         /\ \A i \in 1 .. Len(R) :
              /\ R[i].kind = "resize" /\ R[i].burns = {} /\ ~R[i].closes
              /\ StepBand(R[i]) \in Bands
         /\ R # <<>> => Leads(R[1], band, capacity, to) /\ StepBand(R[Len(R)]) = to
         /\ \A i \in 2 .. Len(R) :
              Leads(R[i], StepBand(R[i - 1]), CapacityFor(Width(StepBand(R[i - 1]))), to)
<1> DEFINE B == ResizeBands(band, to)
           before(i) == IF i = 1 THEN capacity ELSE CapacityFor(Width(B[i - 1]))
           piece(i) == [kind |-> "resize", lower |-> B[i].lower, upper |-> B[i].upper,
                        burns |-> {}, full |-> TRUE, closes |-> FALSE,
                        grows |-> Witness(before(i), CapacityFor(Width(B[i])))]
           R == [i \in 1 .. Len(B) |-> piece(i)]
<1>1. band \in Bands /\ Route(B, band, to)
  BY ResizeBandsRoute DEF RunTyped
<1>2. ResizeSteps(to) = R
  BY DEF ResizeSteps
<1> HIDE DEF B
<1>3. /\ B \in Seq(Bands) /\ Len(B) \in Nat
      /\ \A i \in 1 .. Len(B) : B[i] \in Bands
  BY <1>1 DEF Route
<1>4. ASSUME NEW i \in 1 .. Len(B)
      PROVE  /\ piece(i) \in Step
             /\ StepBand(piece(i)) = B[i]
             /\ piece(i).grows = Witness(before(i), CapacityFor(Width(B[i])))
             /\ piece(i).kind = "resize" /\ piece(i).burns = {} /\ ~piece(i).closes
  <2>1. B[i] \in Bands /\ B[i].lower \in Int /\ B[i].upper \in Int
    BY <1>3, BandFacts
  <2>2. CapacityFor(Width(B[i])) \in Nat
    BY <2>1, CapacityHolds
  <2>3. Witness(before(i), CapacityFor(Width(B[i]))) \in Nat
    BY <2>2 DEF Witness
  <2>4. B[i] = [lower |-> B[i].lower, upper |-> B[i].upper]
    BY <2>1 DEF Bands
  <2> HIDE DEF before
  <2>5. QED
    BY <2>1, <2>3, <2>4 DEF Step, StepBand
<1>5. R \in Seq(Step) /\ Len(R) = Len(B) /\ \A i \in 1 .. Len(B) : R[i] = piece(i)
  <2>1. \A i \in 1 .. Len(B) : piece(i) \in Step
    BY <1>4
  <2> HIDE DEF piece
  <2>2. R \in [1 .. Len(B) -> Step]
    BY <2>1
  <2>3. QED
    BY <1>3, <2>2
<1> HIDE DEF R, piece
<1>6. R = <<>> <=> band = to
  <2>1. R = <<>> <=> B = <<>>
    BY <1>3, <1>5
  <2>2. QED
    BY <1>1, <2>1, Zenon DEF Route
<1>7. ASSUME R # <<>>
      PROVE  Leads(R[1], band, capacity, to) /\ StepBand(R[Len(R)]) = to
  <2>1. B # <<>> /\ 1 \in 1 .. Len(B) /\ Len(B) \in 1 .. Len(B)
    BY <1>3, <1>5, <1>7
  <2>2. B[1] = NextBand(band, to) /\ B[Len(B)] = to /\ band # to
    BY <1>1, <2>1, Zenon DEF Route
  <2>3. before(1) = capacity
    OBVIOUS
  <2> HIDE DEF before
  <2>4. QED
    BY <1>4, <1>5, <2>1, <2>2, <2>3 DEF Leads
<1>8. ASSUME NEW i \in 2 .. Len(R)
      PROVE  Leads(R[i], StepBand(R[i - 1]), CapacityFor(Width(StepBand(R[i - 1]))), to)
  <2>1. i \in 1 .. Len(B) /\ i - 1 \in 1 .. Len(B) /\ i \in 2 .. Len(B) /\ i # 1
    BY <1>3, <1>5
  <2>2. B[i - 1] # to /\ B[i] = NextBand(B[i - 1], to)
    BY <1>1, <2>1, Zenon DEF Route
  <2>3. before(i) = CapacityFor(Width(B[i - 1]))
    BY <2>1
  <2> HIDE DEF before
  <2>4. StepBand(R[i - 1]) = B[i - 1]
    BY <1>4, <1>5, <2>1
  <2>5. R[i].kind = "resize" /\ StepBand(R[i]) = B[i]
        /\ R[i].grows = Witness(before(i), CapacityFor(Width(B[i])))
    BY <1>4, <1>5, <2>1
  <2>6. QED
    BY <2>2, <2>3, <2>4, <2>5, Zenon DEF Leads
<1>9. ASSUME NEW i \in 1 .. Len(R)
      PROVE  /\ R[i].kind = "resize" /\ R[i].burns = {} /\ ~R[i].closes
             /\ StepBand(R[i]) \in Bands
  BY <1>3, <1>4, <1>5
<1>10. QED
  BY <1>2, <1>5, <1>6, <1>7, <1>8, <1>9

(* A move's plan is its exits and then its resizes.                        *)
LEMMA StepsOfMove ==
  ASSUME RunTyped, Housed, NEW to \in Bands, NEW P, P = PlanRebalance(to)
  PROVE  /\ P \in Seq(Step)
         /\ \A i \in 1 .. Len(P) :
              /\ ~P[i].closes
              /\ P[i].kind = "exit" => /\ P[i].full /\ P[i].grows = 0
                                       /\ P[i].burns \subseteq BinsOf(band) \ BinsOf(to)
              /\ P[i].kind = "resize" => P[i].burns = {} /\ StepBand(P[i]) \in Bands
         /\ \A b \in shares \ BinsOf(to) : \E i \in 1 .. Len(P) : b \in P[i].burns
         /\ pending \ BinsOf(to) # {} => P # <<>> /\ P[1].kind = "exit"
         /\ \A i, j \in 1 .. Len(P) : i < j /\ P[j].kind = "exit" => P[i].kind = "exit"
         /\ \A i \in 2 .. Len(P) : P[i - 1].kind = "resize" =>
              Leads(P[i], StepBand(P[i - 1]), CapacityFor(Width(StepBand(P[i - 1]))), to)
         /\ \A i \in 1 .. Len(P) :
              P[i].kind = "resize" /\ (i = 1 \/ P[i - 1].kind = "exit") =>
                Leads(P[i], band, capacity, to)
         /\ IF P = <<>> THEN band = to
            ELSE P[Len(P)].kind = "resize" /\ StepBand(P[Len(P)]) = to
<1> DEFINE E == ExitSteps(to)
           R == ResizeSteps(to)
           m == Len(E)
<1>1. /\ E \in Seq(Step)
      /\ \A i \in 1 .. m :
              /\ E[i].kind = "exit" /\ E[i].full /\ ~E[i].closes /\ E[i].grows = 0
              /\ E[i].burns \subseteq BinsOf(band) \ BinsOf(to)
      /\ \A b \in shares \ BinsOf(to) : \E i \in 1 .. m : b \in E[i].burns
      /\ pending \ BinsOf(to) # {} => E # <<>>
      /\ band = to => E = <<>>
  BY ExitsOfMove
<1>2. /\ R \in Seq(Step)
      /\ R = <<>> <=> band = to
      /\ \A i \in 1 .. Len(R) :
              /\ R[i].kind = "resize" /\ R[i].burns = {} /\ ~R[i].closes
              /\ StepBand(R[i]) \in Bands
      /\ R # <<>> => Leads(R[1], band, capacity, to) /\ StepBand(R[Len(R)]) = to
      /\ \A i \in 2 .. Len(R) :
              Leads(R[i], StepBand(R[i - 1]), CapacityFor(Width(StepBand(R[i - 1]))), to)
  BY ResizesOfMove
<1>3. P = E \o R
  BY DEF PlanRebalance
<1> HIDE DEF E, R
<1>4. /\ P \in Seq(Step) /\ Len(P) = m + Len(R) /\ m \in Nat /\ Len(R) \in Nat
      /\ \A i \in 1 .. m : i \in 1 .. Len(P) /\ P[i] = E[i]
      /\ \A i \in 1 .. Len(P) : i > m => i - m \in 1 .. Len(R) /\ P[i] = R[i - m]
  BY <1>1, <1>2, <1>3
<1> HIDE DEF m
<1>5. ASSUME NEW i \in 1 .. Len(P)
      PROVE  /\ i \in Nat
             /\ i \in 1 .. m <=> P[i].kind = "exit"
             /\ i > m <=> P[i].kind = "resize"
             /\ i <= m => P[i] = E[i] /\ i \in 1 .. m
             /\ i > m => P[i] = R[i - m] /\ i - m \in 1 .. Len(R)
  <2>1. i \in Nat /\ (i <= m \/ i > m) /\ (i \in 1 .. m <=> i <= m)
    BY <1>4
  <2>2. i <= m => P[i] = E[i] /\ P[i].kind = "exit"
    BY <1>1, <1>4, <2>1 DEF m
  <2>3. i > m => P[i] = R[i - m] /\ P[i].kind = "resize" /\ i - m \in 1 .. Len(R)
    BY <1>2, <1>4, <2>1
  <2>4. i <= m => ~(i > m)
    BY <1>4, <2>1
  <2>5. QED
    BY <2>1, <2>2, <2>3, <2>4
<1>6. ASSUME NEW i \in 1 .. Len(P)
      PROVE  /\ ~P[i].closes
             /\ P[i].kind = "exit" => /\ P[i].full /\ P[i].grows = 0
                                      /\ P[i].burns \subseteq BinsOf(band) \ BinsOf(to)
             /\ P[i].kind = "resize" => P[i].burns = {} /\ StepBand(P[i]) \in Bands
  <2>1. CASE i <= m
    BY <1>1, <1>4, <1>5, <2>1 DEF m
  <2>2. CASE i > m
    BY <1>2, <1>4, <1>5, <2>2
  <2>3. QED
    BY <1>4, <2>1, <2>2
<1>7. ASSUME NEW b \in shares \ BinsOf(to)
      PROVE  \E i \in 1 .. Len(P) : b \in P[i].burns
  BY <1>1, <1>4 DEF m
<1>8. ASSUME pending \ BinsOf(to) # {}
      PROVE  P # <<>> /\ P[1].kind = "exit"
  <2>1. 1 \in 1 .. m
    BY <1>1, <1>8 DEF m
  <2>2. 1 \in 1 .. Len(P)
    BY <1>4, <2>1
  <2>3. QED
    BY <1>4, <1>5, <2>1, <2>2
<1>9. ASSUME NEW i \in 1 .. Len(P), NEW j \in 1 .. Len(P), i < j, P[j].kind = "exit"
      PROVE  P[i].kind = "exit"
  BY <1>4, <1>5, <1>9
<1>10. ASSUME NEW i \in 2 .. Len(P), P[i - 1].kind = "resize"
       PROVE  Leads(P[i], StepBand(P[i - 1]), CapacityFor(Width(StepBand(P[i - 1]))), to)
  <2>1. i \in 1 .. Len(P) /\ i - 1 \in 1 .. Len(P)
    BY <1>4
  <2>2. i - 1 > m /\ P[i - 1] = R[(i - 1) - m] /\ (i - 1) - m \in 1 .. Len(R)
    BY <1>5, <1>10, <2>1
  <2>3. i > m /\ P[i] = R[i - m] /\ i - m \in 2 .. Len(R) /\ (i - 1) - m = (i - m) - 1
    BY <1>4, <1>5, <2>1, <2>2
  <2>4. QED
    BY <1>2, <2>2, <2>3
<1>11. ASSUME NEW i \in 1 .. Len(P), P[i].kind = "resize", i = 1 \/ P[i - 1].kind = "exit"
       PROVE  Leads(P[i], band, capacity, to)
  <2>1. i > m /\ P[i] = R[i - m] /\ i - m \in 1 .. Len(R) /\ i \in Nat
    BY <1>5, <1>11
  <2>2. i = m + 1
    <3>1. CASE i = 1
      BY <1>4, <2>1, <3>1
    <3>2. CASE i # 1
      <4>1. i - 1 \in 1 .. Len(P)
        BY <1>4, <3>2
      <4>2. i - 1 \in 1 .. m
        BY <1>5, <1>11, <3>2, <4>1
      <4>3. QED
        BY <1>4, <2>1, <4>2
    <3>3. QED
      BY <3>1, <3>2
  <2>3. R # <<>> /\ i - m = 1
    BY <1>2, <1>4, <2>1, <2>2
  <2>4. QED
    BY <1>2, <2>1, <2>3
<1>12. CASE P = <<>>
  <2>1. R = <<>>
    BY <1>2, <1>4, <1>12
  <2>2. QED
    BY <1>1, <1>2, <1>4, <1>6, <1>7, <1>8, <1>9, <1>10, <1>11, <1>12, <2>1
<1>13. CASE P # <<>>
  <2>1. R # <<>>
    <3>1. R = <<>> => E = <<>>
      BY <1>1, <1>2
    <3>2. R = <<>> /\ E = <<>> => P = <<>>
      BY <1>3
    <3>3. QED
      BY <1>13, <3>1, <3>2
  <2>2. Len(P) > m /\ Len(P) \in 1 .. Len(P) /\ Len(P) - m = Len(R)
    BY <1>2, <1>4, <2>1
  <2>3. P[Len(P)].kind = "resize" /\ StepBand(P[Len(P)]) = to
    BY <1>2, <1>5, <2>1, <2>2
  <2>4. QED
    BY <1>1, <1>2, <1>4, <1>6, <1>7, <1>8, <1>9, <1>10, <1>11, <1>13, <2>3
<1>14. QED
  BY <1>12, <1>13

(* A withdrawal's plan covers the funded bins it is to burn, and there is  *)
(* a step when a fee is owed or the account is to be closed.               *)
LEMMA StepsOfExit ==
  ASSUME RunTyped, Housed, NEW t \in Tasks, t.kind # "move", NEW P, P = PlanExit(t)
  PROVE  /\ P \in Seq(Step)
         /\ \A i \in 1 .. Len(P) :
              /\ P[i].kind = "exit" /\ P[i].full = t.full /\ P[i].grows = 0
              /\ P[i].burns \subseteq BinsOf(band) \cap BinsOf(t.band)
              /\ P[i].closes <=> Closes(t) /\ i = Len(P)
         /\ \A b \in shares \cap BinsOf(t.band) : \E i \in 1 .. Len(P) : b \in P[i].burns
         /\ t.kind = "exit" /\ pending # {} => P # <<>>
         /\ Closes(t) => P # <<>>
<1> DEFINE burnable == shares \cap BinsOf(t.band)
           over == IF burnable # {} THEN burnable ELSE BinsOf(band)
           C == Chunks(Lowest(over), Highest(over), burnable, t.full, Closes(t))
<1>1. /\ over \in SUBSET Bins /\ over # {} /\ burnable \in SUBSET Bins
      /\ burnable \subseteq BinsOf(band) \cap BinsOf(t.band)
      /\ burnable # {} => over = burnable
  BY BinsOfBand DEF RunTyped, Housed
<1>2. t.full \in BOOLEAN /\ Closes(t) \in BOOLEAN /\ (Closes(t) => t.kind = "exit")
  BY TaskFacts
<1>3. P = IF WithdrawalDue(t) THEN C ELSE <<>>
  BY Zenon DEF PlanExit
<1>4. WithdrawalDue(t) <=> burnable # {} \/ (t.kind = "exit" /\ (pending # {} \/ Closes(t)))
  BY DEF WithdrawalDue
<1> HIDE DEF over
<1>5. /\ Lowest(over) \in Bins /\ Highest(over) \in Bins /\ Lowest(over) <= Highest(over)
      /\ \A b \in over : b \in Lowest(over) .. Highest(over)
  <2>1. /\ Lowest(over) \in over /\ Highest(over) \in over
        /\ \A b \in over : Lowest(over) <= b /\ b <= Highest(over)
    BY <1>1, EndsOfBins
  <2>2. \A b \in over : b \in Int
    BY <1>1 DEF Bins
  <2>3. QED
    BY <1>1, <2>1, <2>2
<1> HIDE DEF burnable
<1>6. Cuts(C, Lowest(over), Highest(over), burnable, t.full, Closes(t))
  BY <1>1, <1>2, <1>5, ChunksCover
<1>7. burnable \subseteq burnable \cap (Lowest(over) .. Highest(over))
  BY <1>1, <1>5
<1> HIDE DEF C
<1>8. CASE WithdrawalDue(t)
  <2>1. P = C
    BY <1>3, <1>8
  <2>2. P # <<>>
    BY <1>6, <2>1 DEF Cuts
  <2>3. QED
    BY <1>1, <1>6, <1>7, <2>1, <2>2 DEF Cuts, burnable
<1>9. CASE ~WithdrawalDue(t)
  <2>1. P = <<>>
    BY <1>3, <1>9
  <2>2. burnable = {}
    BY <1>4, <1>9
  <2>3. QED
    BY <1>2, <1>4, <1>9, <2>1, <2>2 DEF burnable
<1>10. QED
  BY <1>8, <1>9

-----------------------------------------------------------------------------
(***************************************************************************)
(* Every step of a run keeps the invariant.                                *)
(***************************************************************************)
LEMMA InitHolds ==
  ASSUME Init
  PROVE  RunInv
<1>1. /\ band \in Bands /\ Width(band) \in Nat \ {0} /\ BinsOf(band) \in SUBSET Bins
      /\ CapacityFor(Width(band)) \in Nat /\ Width(band) <= CapacityFor(Width(band))
  BY BinsOfBand, CapacityHolds DEF Init
<1>2. capacity \in Nat /\ Width(band) <= capacity
  BY <1>1 DEF Init
<1>3. task \in Tasks
  <2>1. Move(band) \in [kind : {"move"}, band : Bands, full : {TRUE}, close : {FALSE}]
    BY <1>1 DEF Move
  <2>2. QED
    BY <2>1, Zenon DEF Tasks, Init
<1>4. steps \in Seq(Step) /\ Len(steps) = 0
  BY DEF Init
<1>5. RunTyped
  <2>1. shares \in SUBSET Bins /\ pending \in SUBSET Bins
    BY <1>1 DEF Init
  <2>2. late \in SUBSET Step /\ intruded \in BOOLEAN /\ open \in BOOLEAN
    BY DEF Init
  <2>3. next \in Nat \ {0} /\ status = "idle" /\ sent = "none"
    BY DEF Init
  <2>4. QED
    BY <1>1, <1>2, <1>3, <1>4, <2>1, <2>2, <2>3 DEF RunTyped
<1>6. Housed /\ Attended
  BY <1>2 DEF Init, Housed, Attended
<1>7. Meant
  BY <1>4 DEF Init, Meant
<1>8. Withdrawing /\ Moving /\ NeverRefused /\ FinishedAtGoal
  BY DEF Init, Withdrawing, Moving, NeverRefused, FinishedAtGoal
<1>9. QED
  BY <1>5, <1>6, <1>7, <1>8 DEF RunInv

(* A plan made in an account that houses what it holds is a plan that      *)
(* fits it, however the account came to be as it is.                       *)
LEMMA PlanKeeps ==
  ASSUME RunInv, NEW t \in Tasks, Plan(t)
  PROVE  RunInv'
<1>1. /\ RunTyped /\ Housed /\ Meant /\ Attended
      /\ task' = t /\ next' = 1 /\ sent' = "none" /\ status' = "running"
      /\ steps' = Steps(t)
      /\ band' = band /\ capacity' = capacity /\ open' = open /\ shares' = shares
      /\ pending' = pending /\ late' = late /\ intruded' = intruded
      /\ status = "idle" \/ (status = "stopped" /\ t = task)
  BY DEF RunInv, Plan, account
<1>2. /\ t.kind \in {"move", "range", "exit"} /\ t.band \in Bands
      /\ t.full \in BOOLEAN /\ Closes(t) \in BOOLEAN
      /\ t.kind # "exit" => t.full /\ ~t.close
      /\ Closes(t) => t.kind = "exit" /\ t.full
      /\ BinsOf(t.band) \in SUBSET Bins
  BY TaskFacts, BinsOfBand
<1>3. \A step \in late : Fits(step, t)
  BY <1>1 DEF Meant
<1>4. ~open => Closes(t) /\ shares = {} /\ pending = {}
  BY <1>1 DEF Housed, Meant
<1>5. ~open => intruded
  BY <1>1 DEF Meant, Attended, RunTyped
<1>6. Housed'
  BY <1>1, <1>4 DEF Housed, Closes
<1>7. Attended'
  BY <1>1, <1>5 DEF Attended, RunTyped
<1>8. NeverRefused' /\ FinishedAtGoal'
  BY <1>1 DEF NeverRefused, FinishedAtGoal
<1>9. ASSUME steps' \in Seq(Step)
      PROVE  /\ RunTyped' /\ Len(steps') \in Nat
             /\ \A i : ToDo(i)' <=> i \in 1 .. Len(steps')
             /\ Len(steps') = 0 <=> steps' = <<>>
             /\ steps' # <<>> => Len(steps') \in 1 .. Len(steps')
             /\ Finished' <=> steps' = <<>>
  <2>1. RunTyped'
    BY <1>1, <1>9 DEF RunTyped
  <2>2. Len(steps') \in Nat /\ (Len(steps') = 0 <=> steps' = <<>>)
    BY <1>9
  <2>3. \A i : ToDo(i)' <=> i \in 1 .. Len(steps')
    BY <1>1 DEF ToDo
  <2>4. QED
    BY <1>1, <2>1, <2>2, <2>3 DEF Finished
<1>10. CASE t.kind = "move"
  <2> DEFINE to == t.band
  <2>1. steps' = PlanRebalance(to)
    BY <1>1, <1>10, Zenon DEF Steps
  <2>2. /\ steps' \in Seq(Step)
        /\ \A i \in 1 .. Len(steps') :
              /\ ~steps'[i].closes
              /\ steps'[i].kind = "exit" =>
                   /\ steps'[i].full /\ steps'[i].grows = 0
                   /\ steps'[i].burns \subseteq BinsOf(band) \ BinsOf(to)
              /\ steps'[i].kind = "resize" =>
                   steps'[i].burns = {} /\ StepBand(steps'[i]) \in Bands
        /\ \A b \in shares \ BinsOf(to) : \E i \in 1 .. Len(steps') : b \in steps'[i].burns
        /\ pending \ BinsOf(to) # {} => steps' # <<>> /\ steps'[1].kind = "exit"
        /\ \A i, j \in 1 .. Len(steps') :
             i < j /\ steps'[j].kind = "exit" => steps'[i].kind = "exit"
        /\ \A i \in 2 .. Len(steps') : steps'[i - 1].kind = "resize" =>
              Leads(steps'[i], StepBand(steps'[i - 1]),
                    CapacityFor(Width(StepBand(steps'[i - 1]))), to)
        /\ \A i \in 1 .. Len(steps') :
              steps'[i].kind = "resize" /\ (i = 1 \/ steps'[i - 1].kind = "exit") =>
                Leads(steps'[i], band, capacity, to)
        /\ IF steps' = <<>> THEN band = to
           ELSE steps'[Len(steps')].kind = "resize" /\ StepBand(steps'[Len(steps')]) = to
    <3> HIDE DEF to
    <3>1. to \in Bands
      BY <1>2 DEF to
    <3>2. QED
      BY <1>1, <2>1, <3>1, StepsOfMove
  <2>3. ~Closes(t) /\ t.full /\ Kept(t) = BinsOf(to)
    BY <1>2, <1>10 DEF Kept
  <2>4. Meant'
    <3>1. \A i \in 1 .. Len(steps') : Fits(steps'[i], t)
      BY <1>10, <2>2, <2>3 DEF Fits
    <3>2. QED
      BY <1>1, <1>3, <3>1 DEF Meant, Fits, Closes, Kept, StepBand
  <2>5. Withdrawing'
    BY <1>1, <1>10 DEF Withdrawing
  <2>6. /\ RunTyped' /\ Len(steps') \in Nat
        /\ \A i : ToDo(i)' <=> i \in 1 .. Len(steps')
        /\ steps' # <<>> => 1 \in 1 .. Len(steps') /\ Len(steps') \in 1 .. Len(steps')
        /\ Finished' <=> steps' = <<>>
    BY <1>9, <2>2
  <2>7. BurnsAhead(BinsOf(task.band))'
    BY <1>1, <2>2, <2>6 DEF BurnsAhead, BinsOf
  <2>8. (pending \ BinsOf(task.band) # {} => ToDo(1) /\ steps[1].kind = "exit")'
    BY <1>1, <2>2, <2>6 DEF BinsOf
  <2>9. ExitsFirst'
    BY <2>2 DEF ExitsFirst
  <2>10. ExitsHeld'
    <3> SUFFICES ASSUME NEW i \in 1 .. Len(steps')
                 PROVE  IF steps'[i].kind = "resize" THEN steps'[i].burns = {}
                        ELSE steps'[i].burns \subseteq BinsOf(band)
      BY <1>1 DEF ExitsHeld, BinsOf
    <3>1. steps'[i].kind \in {"exit", "resize"}
      BY <2>2, StepFacts
    <3>2. QED
      BY <2>2, <3>1
  <2>11. LeadsOn'
    <3> SUFFICES ASSUME NEW i \in 2 .. Len(steps'), steps'[i - 1].kind = "resize"
                 PROVE  Leads(steps'[i], StepBand(steps'[i - 1]),
                              CapacityFor(Width(StepBand(steps'[i - 1]))), task'.band)
      BY DEF LeadsOn
    <3>1. QED
      BY <1>1, <2>2
  <2>12. LeadsFromHere'
    <3> SUFFICES ASSUME NEW i \in 1 .. Len(steps'), steps'[i].kind = "resize",
                        i = 1 \/ steps'[i - 1].kind = "exit"
                 PROVE  ToDo(i)' /\ Leads(steps'[i], band', capacity', task'.band)
      BY <1>1 DEF LeadsFromHere
    <3>1. QED
      BY <1>1, <2>2, <2>6
  <2>13. LeadsToGoal'
    BY <1>1, <2>2, <2>6 DEF LeadsToGoal, StepBand
  <2>14. Moving'
    BY <2>7, <2>8, <2>9, <2>10, <2>11, <2>12, <2>13 DEF Moving
  <2>15. QED
    BY <1>6, <1>7, <1>8, <2>4, <2>5, <2>6, <2>14 DEF RunInv
<1>11. CASE t.kind # "move"
  <2>1. steps' = PlanExit(t)
    BY <1>1, <1>11, Zenon DEF Steps
  <2>2. /\ steps' \in Seq(Step)
        /\ \A i \in 1 .. Len(steps') :
              /\ steps'[i].kind = "exit" /\ steps'[i].full = t.full /\ steps'[i].grows = 0
              /\ steps'[i].burns \subseteq BinsOf(band) \cap BinsOf(t.band)
              /\ steps'[i].closes <=> Closes(t) /\ i = Len(steps')
        /\ \A b \in shares \cap BinsOf(t.band) :
             \E i \in 1 .. Len(steps') : b \in steps'[i].burns
        /\ t.kind = "exit" /\ pending # {} => steps' # <<>>
        /\ Closes(t) => steps' # <<>>
    BY <1>1, <1>11, <2>1, StepsOfExit
  <2>3. t.full => Kept(t) = Bins \ BinsOf(t.band)
    BY <1>11 DEF Kept
  <2>4. Meant'
    <3>1. \A i \in 1 .. Len(steps') : Fits(steps'[i], t)
      BY <2>2, <2>3 DEF Fits
    <3>2. QED
      BY <1>1, <1>3, <3>1 DEF Meant, Fits, Closes, Kept, StepBand
  <2>5. Moving'
    BY <1>1, <1>11 DEF Moving
  <2>6. /\ RunTyped' /\ Len(steps') \in Nat
        /\ \A i : ToDo(i)' <=> i \in 1 .. Len(steps')
        /\ steps' # <<>> => 1 \in 1 .. Len(steps') /\ Len(steps') \in 1 .. Len(steps')
    BY <1>9, <2>2
  <2>7. BurnsAhead(Bins \ BinsOf(task.band))'
    <3>1. shares \subseteq Bins
      BY <1>1 DEF RunTyped
    <3>2. QED
      BY <1>1, <2>2, <2>6, <3>1 DEF BurnsAhead, BinsOf, Bins
  <2>8. (task.kind = "exit" /\ pending # {} => ToDo(1))'
    BY <1>1, <2>2, <2>6
  <2>9. BurnsHeld'
    BY <1>1, <2>2 DEF BurnsHeld, BinsOf
  <2>10. LastCloses'
    BY <1>1, <2>2 DEF LastCloses, Closes
  <2>11. (Closes(task) => steps # <<>> /\ (~ToDo(Len(steps)) => ~open))'
    BY <1>1, <2>2, <2>6 DEF Closes
  <2>12. Withdrawing'
    BY <2>7, <2>8, <2>9, <2>10, <2>11 DEF Withdrawing
  <2>13. QED
    BY <1>6, <1>7, <1>8, <2>4, <2>5, <2>6, <2>12 DEF RunInv
<1>12. QED
  BY <1>10, <1>11

(* The step a run is at is one of the plan's.                              *)
LEMMA CurrentFacts ==
  ASSUME RunInv, status = "running", ~Finished
  PROVE  /\ next \in 1 .. Len(steps) /\ Len(steps) \in 1 .. Len(steps) /\ Len(steps) \in Nat
         /\ Current = steps[next] /\ Current \in Step
         /\ Current.kind \in {"exit", "resize"} /\ Current.grows \in Nat
         /\ Fits(Current, task)
         /\ task.kind = "move" => ~Current.closes
         /\ task.kind # "move" => Current.kind = "exit"
<1>1. /\ RunTyped /\ Len(steps) \in Nat /\ next \in Nat \ {0} /\ ~(next > Len(steps))
  BY DEF RunInv, RunTyped, Finished
<1>2. next \in 1 .. Len(steps) /\ Len(steps) \in 1 .. Len(steps)
  BY <1>1
<1>3. Current = steps[next] /\ Current \in Step
  BY <1>1, <1>2 DEF Current, RunTyped
<1>4. Fits(Current, task)
  BY <1>2, <1>3 DEF RunInv, Meant
<1>5. Closes(task) => task.kind = "exit"
  BY <1>1, TaskFacts DEF RunTyped
<1>6. QED
  BY <1>1, <1>2, <1>3, <1>4, <1>5, StepFacts DEF Fits

(* A closed account is at the closing step of its plan.                    *)
LEMMA ClosedIsLast ==
  ASSUME RunInv, status = "running", ~Finished, ~open, ~intruded
  PROVE  next = Len(steps) /\ Current.closes /\ sent # "flying"
<1>1. /\ next \in 1 .. Len(steps) /\ Current = steps[next] /\ Len(steps) \in Nat
  BY CurrentFacts
<1>2. Closes(task) /\ next >= Len(steps) /\ sent # "flying"
  BY DEF RunInv, Housed, Attended
<1>3. next = Len(steps)
  BY <1>1, <1>2
<1>4. task.kind # "move"
  BY <1>2, TaskFacts DEF RunInv, RunTyped
<1>5. Current.closes
  BY <1>1, <1>2, <1>3, <1>4 DEF RunInv, Withdrawing, LastCloses
<1>6. QED
  BY <1>2, <1>3, <1>5

(* No step is refused in its turn.                                         *)
LEMMA AcceptedInTurn ==
  ASSUME RunInv, AtStep("flying"), ~intruded
  PROVE  Accepted(Current)
<1>1. /\ RunTyped /\ Housed /\ status = "running" /\ ~Finished /\ sent = "flying"
  BY DEF RunInv, AtStep
<1>2. /\ next \in 1 .. Len(steps) /\ Len(steps) \in Nat /\ next \in Nat
      /\ Current = steps[next] /\ Current \in Step
      /\ Current.kind \in {"exit", "resize"}
      /\ Fits(Current, task)
      /\ task.kind = "move" => ~Current.closes
      /\ task.kind # "move" => Current.kind = "exit"
  BY <1>1, CurrentFacts DEF RunTyped
<1>3. open
  BY <1>1, ClosedIsLast
<1>4. ASSUME NEW i, ToDo(i) PROVE i \in 1 .. Len(steps) /\ i >= next /\ i \in Nat
  BY <1>2, <1>4 DEF ToDo
<1>5. CASE task.kind # "move"
  <2>1. Current.kind = "exit" /\ Current.burns \subseteq BinsOf(band)
    BY <1>1, <1>2, <1>5 DEF RunInv, Withdrawing, BurnsHeld
  <2>2. ASSUME Current.closes PROVE Current.full /\ shares \subseteq Current.burns
    <3>1. /\ Closes(task) /\ next = Len(steps)
          /\ task.full => BurnsAhead(Bins \ BinsOf(task.band))
      BY <1>1, <1>2, <1>5, <2>2 DEF RunInv, Withdrawing, LastCloses
    <3>2. task.full /\ BinsOf(task.band) = Bins
      BY <1>1, <3>1, TaskFacts DEF RunTyped
    <3>3. Current.full
      BY <1>2, <2>1, <3>2 DEF Fits
    <3>4. ASSUME NEW b \in shares PROVE b \in Current.burns
      <4>1. PICK i \in 1 .. Len(steps) : ToDo(i) /\ b \in steps[i].burns
        BY <3>1, <3>2 DEF BurnsAhead
      <4>2. i = next
        BY <1>2, <1>4, <3>1, <4>1
      <4>3. QED
        BY <1>2, <4>1, <4>2
    <3>5. QED
      BY <3>3, <3>4
  <2>3. QED
    BY <1>3, <2>1, <2>2 DEF Accepted
<1>6. CASE task.kind = "move"
  <2>1. /\ BurnsAhead(BinsOf(task.band))
        /\ pending \ BinsOf(task.band) # {} => ToDo(1) /\ steps[1].kind = "exit"
        /\ ExitsFirst /\ ExitsHeld /\ LeadsOn /\ LeadsFromHere /\ LeadsToGoal
    BY <1>1, <1>6 DEF RunInv, Moving
  <2>2. CASE Current.kind = "exit"
    <3>1. Current.burns \subseteq BinsOf(band)
      BY <1>2, <2>1, <2>2 DEF ExitsHeld
    <3>2. QED
      BY <1>2, <1>3, <1>6, <2>2, <3>1 DEF Accepted
  <2>3. CASE Current.kind = "resize"
    <3>1. \A i \in 1 .. Len(steps) : i >= next => steps[i].kind = "resize"
      <4> SUFFICES ASSUME NEW i \in 1 .. Len(steps), i >= next, steps[i].kind # "resize"
                   PROVE  FALSE
        OBVIOUS
      <4>1. steps[i].kind = "exit"
        BY <1>1, StepFacts DEF RunTyped
      <4>2. i # next /\ next < i
        BY <1>2, <2>3, <4>1
      <4>3. steps[next].kind = "exit"
        BY <1>2, <2>1, <4>1, <4>2 DEF ExitsFirst
      <4>4. QED
        BY <1>2, <2>3, <4>3
    <3>2. shares \subseteq BinsOf(task.band)
      <4> SUFFICES ASSUME NEW b \in shares \ BinsOf(task.band) PROVE FALSE
        OBVIOUS
      <4>1. PICK i \in 1 .. Len(steps) : ToDo(i) /\ b \in steps[i].burns
        BY <2>1 DEF BurnsAhead
      <4>2. steps[i].burns = {}
        BY <1>4, <2>1, <3>1, <4>1 DEF ExitsHeld
      <4>3. QED
        BY <4>1, <4>2
    <3>3. pending \subseteq BinsOf(task.band)
      <4> SUFFICES ASSUME pending \ BinsOf(task.band) # {} PROVE FALSE
        OBVIOUS
      <4>1. ToDo(1) /\ steps[1].kind = "exit"
        BY <2>1
      <4>2. next = 1
        BY <1>2, <1>4, <4>1
      <4>3. QED
        BY <1>2, <2>3, <4>1, <4>2
    <3> DEFINE new == StepBand(Current)
               to == task.band
    <3>4. band \in Bands /\ to \in Bands /\ capacity \in Nat /\ Width(band) <= capacity
      BY <1>1, TaskFacts DEF RunTyped, Housed
    <3>5. \/ band # to /\ new = NextBand(band, to)
          \/ band = new
      BY <1>2, <2>1, <2>3 DEF LeadsFromHere, Leads, IsThere
    <3>6. shares \subseteq BinsOf(band) /\ pending \subseteq BinsOf(band)
      BY <1>1 DEF Housed
    <3>7. Width(band) \in Nat /\ MaxExtend \in Nat
      BY <3>4, BandFacts, RunAssumption
    <3> HIDE DEF new, to
    <3>8. CASE new = NextBand(band, to)
      <4>1. /\ new \in Bands
            /\ Width(new) - Width(band) <= MaxExtend
            /\ BinsOf(band) \cap BinsOf(to) \subseteq BinsOf(new)
        BY <3>4, <3>8, StepFitsAndKeeps
      <4>2. Width(new) \in Nat
        BY <4>1, BandFacts
      <4>3. Larger(capacity, Width(new)) - capacity <= MaxExtend
        BY <3>4, <3>7, <4>1, <4>2 DEF Larger
      <4>4. (shares \cup pending) \cap BinsOf(band) \subseteq BinsOf(new)
        BY <3>2, <3>3, <3>6, <4>1 DEF to
      <4>5. QED
        BY <1>3, <2>3, <4>3, <4>4 DEF Accepted, new
    <3>9. CASE band = new
      <4>1. Larger(capacity, Width(new)) - capacity <= MaxExtend
        BY <3>4, <3>7, <3>9 DEF Larger
      <4>2. (shares \cup pending) \cap BinsOf(band) \subseteq BinsOf(new)
        BY <3>9
      <4>3. QED
        BY <1>3, <2>3, <4>1, <4>2 DEF Accepted, new
    <3>10. QED
      BY <3>5, <3>8, <3>9
  <2>4. QED
    BY <1>2, <2>2, <2>3
<1>7. QED
  BY <1>5, <1>6

(* Going on to the next step, when the one the run is at has been done.    *)
StepDone ==
  IF task.kind = "move"
  THEN /\ Current.kind = "resize" => intruded \/ IsThere(Current)
       /\ Current.kind = "exit" => sent = "landed"
  ELSE sent = "landed" \/ ~open
Advance ==
  /\ next' = next + 1 /\ sent' = "none"
  /\ UNCHANGED <<account, late, status, task, steps, intruded>>

LEMMA AdvanceKeeps ==
  ASSUME RunInv, status = "running", ~Finished, StepDone, Advance
  PROVE  RunInv'
<1>1. /\ RunTyped /\ Housed /\ Meant /\ Attended
      /\ band' = band /\ capacity' = capacity /\ open' = open /\ shares' = shares
      /\ pending' = pending /\ late' = late /\ intruded' = intruded
      /\ task' = task /\ steps' = steps /\ status' = "running" /\ status' = status
      /\ next' = next + 1 /\ sent' = "none"
  BY DEF RunInv, Advance, account
<1>2. /\ next \in 1 .. Len(steps) /\ Len(steps) \in Nat /\ next \in Nat \ {0}
      /\ Current = steps[next] /\ Current.kind \in {"exit", "resize"}
      /\ task.kind # "move" => Current.kind = "exit"
  BY <1>1, CurrentFacts DEF RunTyped
<1>3. ASSUME NEW i, ToDo(i), i # next PROVE ToDo(i)'
  BY <1>1, <1>2, <1>3 DEF ToDo
<1>4. RunTyped' /\ Housed' /\ Meant' /\ Attended'
  <2>1. RunTyped'
    BY <1>1 DEF RunTyped
  <2>2. Housed'
    BY <1>1 DEF Housed, BinsOf, Width, Closes
  <2>3. Meant'
    BY <1>1 DEF Meant, Fits, StepBand, Closes, Kept
  <2>4. Attended'
    BY <1>1, <1>2 DEF Attended
  <2>5. QED
    BY <2>1, <2>2, <2>3, <2>4
<1>5. NeverRefused' /\ FinishedAtGoal'
  BY <1>1 DEF NeverRefused, FinishedAtGoal
<1>6. ASSUME NEW kept, BurnsAhead(kept),
             ASSUME NEW b \in shares \ kept PROVE b \notin Current.burns \/ ~ToDo(next)
      PROVE  \A b \in shares \ kept : \E i \in 1 .. Len(steps) : ToDo(i)' /\ b \in steps[i].burns
  <2> SUFFICES ASSUME NEW b \in shares \ kept
               PROVE  \E i \in 1 .. Len(steps) : ToDo(i)' /\ b \in steps[i].burns
    OBVIOUS
  <2>1. PICK i \in 1 .. Len(steps) : ToDo(i) /\ b \in steps[i].burns
    BY <1>6 DEF BurnsAhead
  <2>2. i # next
    BY <1>2, <1>6, <2>1
  <2>3. QED
    BY <1>3, <2>1, <2>2
<1>7. CASE task.kind # "move"
  <2>1. /\ task.full => BurnsAhead(Bins \ BinsOf(task.band))
        /\ task.kind = "exit" /\ pending # {} => ToDo(1)
        /\ BurnsHeld /\ LastCloses
        /\ Closes(task) => steps # <<>> /\ (~ToDo(Len(steps)) => ~open)
    BY <1>1, <1>7 DEF RunInv, Withdrawing
  <2>2. sent = "landed" \/ (~open /\ shares = {} /\ pending = {})
    BY <1>1, <1>7 DEF StepDone, Housed
  <2>3. sent = "landed" => ~ToDo(next)
    BY DEF ToDo
  <2>4. (task.full => BurnsAhead(Bins \ BinsOf(task.band)))'
    <3> SUFFICES ASSUME task.full
                 PROVE  \A b \in shares \ (Bins \ BinsOf(task.band)) :
                          \E i \in 1 .. Len(steps) : ToDo(i)' /\ b \in steps[i].burns
      BY <1>1 DEF BurnsAhead, BinsOf, Bins
    <3>1. CASE shares = {}
      BY <3>1
    <3>2. CASE sent = "landed"
      <4> DEFINE kept == Bins \ BinsOf(task.band)
      <4>1. BurnsAhead(kept)
        BY <2>1
      <4> HIDE DEF kept
      <4>2. \A b \in shares \ kept : \E i \in 1 .. Len(steps) : ToDo(i)' /\ b \in steps[i].burns
        BY <1>6, <2>3, <3>2, <4>1
      <4>3. QED
        BY <4>2 DEF kept
    <3>3. QED
      BY <2>2, <3>1, <3>2
  <2>5. (task.kind = "exit" /\ pending # {} => ToDo(1))'
    <3> SUFFICES ASSUME task.kind = "exit", pending # {} PROVE ToDo(1)'
      BY <1>1
    <3>1. ToDo(1) /\ 1 # next
      BY <2>1, <2>2, <2>3
    <3>2. QED
      BY <1>3, <3>1
  <2>6. BurnsHeld' /\ LastCloses'
    BY <1>1, <2>1 DEF BurnsHeld, LastCloses, BinsOf, Closes
  <2>7. (Closes(task) => steps # <<>> /\ (~ToDo(Len(steps)) => ~open))'
    <3> SUFFICES ASSUME Closes(task), ~(ToDo(Len(steps))') PROVE ~open
      BY <1>1, <2>1 DEF Closes
    <3>1. ~ToDo(Len(steps)) \/ Len(steps) = next
      BY <1>1, <1>2 DEF ToDo
    <3>2. QED
      BY <2>1, <2>2, <2>3, <3>1
  <2>8. Withdrawing'
    BY <2>4, <2>5, <2>6, <2>7 DEF Withdrawing
  <2>9. Moving'
    BY <1>1, <1>7 DEF Moving
  <2>10. QED
    BY <1>4, <1>5, <2>8, <2>9 DEF RunInv
<1>8. CASE task.kind = "move" /\ intruded
  BY <1>1, <1>4, <1>5, <1>8 DEF RunInv, Withdrawing, Moving
<1>9. CASE task.kind = "move" /\ ~intruded
  <2>1. /\ BurnsAhead(BinsOf(task.band))
        /\ pending \ BinsOf(task.band) # {} => ToDo(1) /\ steps[1].kind = "exit"
        /\ ExitsFirst /\ ExitsHeld /\ LeadsOn /\ LeadsFromHere /\ LeadsToGoal
    BY <1>1, <1>9 DEF RunInv, Moving
  <2>2. /\ Current.kind = "resize" => IsThere(Current) /\ Current.burns = {}
        /\ Current.kind = "exit" => ~ToDo(next)
    BY <1>2, <1>9, <2>1 DEF StepDone, ToDo, ExitsHeld
  <2>3. BurnsAhead(BinsOf(task.band))'
    <3>1. \A b \in shares \ BinsOf(task.band) :
            \E i \in 1 .. Len(steps) : ToDo(i)' /\ b \in steps[i].burns
      BY <1>2, <1>6, <2>1, <2>2
    <3>2. QED
      BY <1>1, <3>1 DEF BurnsAhead, BinsOf
  <2>4. (pending \ BinsOf(task.band) # {} => ToDo(1) /\ steps[1].kind = "exit")'
    <3> SUFFICES ASSUME pending \ BinsOf(task.band) # {} PROVE ToDo(1)' /\ steps[1].kind = "exit"
      BY <1>1 DEF BinsOf
    <3>1. ToDo(1) /\ steps[1].kind = "exit"
      BY <2>1
    <3>2. 1 # next
      BY <1>2, <2>2, <3>1
    <3>3. QED
      BY <1>3, <3>1, <3>2
  <2>5. ExitsFirst' /\ ExitsHeld'
    <3>1. ExitsFirst'
      BY <1>1, <2>1 DEF ExitsFirst
    <3>2. ASSUME NEW i \in 1 .. Len(steps), i >= next + 1 PROVE i >= next
      BY <1>2, <3>2
    <3>3. ExitsHeld'
      BY <1>1, <2>1, <3>2 DEF ExitsHeld, BinsOf
    <3>4. QED
      BY <3>1, <3>3
  <2>6. LeadsOn'
    <3> SUFFICES ASSUME NEW i \in 2 .. Len(steps), steps[i - 1].kind = "resize"
                 PROVE  Leads(steps[i], StepBand(steps[i - 1]),
                              CapacityFor(Width(StepBand(steps[i - 1]))), task.band)
      BY <1>1 DEF LeadsOn
    <3>1. QED
      BY <2>1 DEF LeadsOn
  <2>7. LeadsFromHere'
    <3> SUFFICES ASSUME NEW i \in 1 .. Len(steps), i >= next + 1, steps[i].kind = "resize",
                        i = next + 1 \/ steps[i - 1].kind = "exit"
                 PROVE  ToDo(i)' /\ Leads(steps[i], band, capacity, task.band)
      BY <1>1 DEF LeadsFromHere
    <3>1. i \in Nat /\ i >= next /\ i # next
      BY <1>2
    <3>2. ToDo(i)'
      BY <1>1, <1>2, <3>1 DEF ToDo
    <3>3. CASE steps[i - 1].kind = "exit"
      BY <2>1, <3>1, <3>2, <3>3 DEF LeadsFromHere
    <3>4. CASE steps[i - 1].kind # "exit"
      <4>1. i = next + 1 /\ i - 1 = next /\ Current.kind = "resize"
        BY <1>2, <3>4
      <4>2. i \in 2 .. Len(steps) /\ steps[i - 1].kind = "resize"
        BY <1>2, <4>1
      <4>3. Leads(steps[i], StepBand(steps[i - 1]),
                  CapacityFor(Width(StepBand(steps[i - 1]))), task.band)
        BY <2>1, <4>2 DEF LeadsOn
      <4>4. band = StepBand(steps[i - 1]) /\ capacity = CapacityFor(Width(band))
        BY <1>2, <2>2, <4>1 DEF IsThere
      <4>5. QED
        BY <3>2, <4>3, <4>4
    <3>5. QED
      BY <3>3, <3>4
  <2>8. LeadsToGoal'
    <3>1. steps[Len(steps)].kind = "resize" /\ StepBand(steps[Len(steps)]) = task.band
      BY <2>1 DEF LeadsToGoal
    <3>2. ASSUME Finished' PROVE band = task.band
      <4>1. next = Len(steps)
        BY <1>1, <1>2, <3>2 DEF Finished
      <4>2. QED
        BY <1>2, <2>2, <3>1, <4>1 DEF IsThere
    <3>3. QED
      BY <1>1, <3>1, <3>2 DEF LeadsToGoal, StepBand
  <2>9. Moving'
    BY <2>3, <2>4, <2>5, <2>6, <2>7, <2>8 DEF Moving
  <2>10. Withdrawing'
    BY <1>1, <1>9 DEF Withdrawing
  <2>11. QED
    BY <1>4, <1>5, <2>9, <2>10 DEF RunInv
<1>10. QED
  BY <1>7, <1>8, <1>9

LEMMA SkipKeeps ==
  ASSUME RunInv, Skip
  PROVE  RunInv'
<1>1. /\ RunTyped /\ Housed /\ status = "running" /\ ~Finished /\ sent = "none"
      /\ Witnessed(Current)
  BY DEF RunInv, Skip, AtStep
<1>2. /\ next \in 1 .. Len(steps) /\ next \in Nat /\ Current = steps[next]
      /\ Current.grows \in Nat /\ Current.kind \in {"exit", "resize"}
      /\ Fits(Current, task)
      /\ task.kind = "move" => ~Current.closes
      /\ task.kind # "move" => Current.kind = "exit"
      /\ capacity \in Nat
  BY <1>1, CurrentFacts DEF RunTyped
<1>3. Advance
  BY <1>1 DEF Skip, Advance
<1>4. (Current.grows # 0 /\ capacity >= Current.grows) \/ (Current.closes /\ ~open)
  BY <1>1, Zenon DEF Witnessed
<1>5. Current.kind = "exit" => Current.grows = 0
  BY <1>2 DEF Fits
<1>6. ASSUME task.kind # "move" PROVE StepDone
  BY <1>2, <1>4, <1>5, <1>6, Zenon DEF StepDone
<1>7. ASSUME task.kind = "move" PROVE StepDone
  <2>1. Current.kind = "resize" /\ Current.grows # 0 /\ capacity >= Current.grows
    BY <1>2, <1>4, <1>5, <1>7
  <2>2. ASSUME ~intruded PROVE IsThere(Current)
    <3>1. Leads(steps[next], band, capacity, task.band) \/ IsThere(steps[next])
      BY <1>1, <1>2, <1>7, <2>1, <2>2 DEF RunInv, Moving, LeadsFromHere
    <3>2. ~Leads(steps[next], band, capacity, task.band)
      <4> SUFFICES ASSUME Leads(steps[next], band, capacity, task.band) PROVE FALSE
        OBVIOUS
      <4> DEFINE after == CapacityFor(Width(StepBand(Current)))
      <4>1. Current.grows = IF after > capacity THEN after ELSE 0
        BY <1>2 DEF Leads, Witness
      <4>2. Width(StepBand(Current)) \in Nat /\ after \in Nat
        BY <1>2, <2>1, BandFacts, CapacityHolds DEF Fits
      <4> HIDE DEF after
      <4>3. QED
        BY <1>2, <2>1, <4>1, <4>2
    <3>3. QED
      BY <1>2, <3>1, <3>2
  <2>3. QED
    <3>1. Current.kind # "exit"
      BY <2>1
    <3>2. QED
      BY <1>7, <2>1, <2>2, <3>1, Zenon DEF StepDone
<1>8. QED
  <2>1. StepDone
    BY <1>6, <1>7
  <2>2. QED
    BY <1>1, <1>3, <2>1, AdvanceKeeps

LEMMA ConfirmKeeps ==
  ASSUME RunInv, Confirm
  PROVE  RunInv'
<1>1. status = "running" /\ ~Finished /\ sent = "landed"
  BY DEF Confirm, AtStep
<1>2. next \in 1 .. Len(steps) /\ next \in Nat /\ Current = steps[next]
  BY <1>1, CurrentFacts
<1>3. Advance
  BY <1>1 DEF Confirm, Advance
<1>4. ASSUME task.kind = "move", Current.kind = "resize", ~intruded
      PROVE  IsThere(Current)
  <2>1. ToDo(next) \/ IsThere(steps[next])
    BY <1>1, <1>2, <1>4 DEF RunInv, Moving, LeadsFromHere
  <2>2. ~ToDo(next)
    BY <1>1 DEF ToDo
  <2>3. QED
    BY <1>2, <2>1, <2>2
<1>5. StepDone
  BY <1>1, <1>4 DEF StepDone
<1>6. QED
  BY <1>1, <1>3, <1>5, AdvanceKeeps

(* What stays true when neither the chain nor the plan moves.              *)
Still == UNCHANGED <<account, late, task, steps, next, intruded>>

LEMMA StillKeeps ==
  ASSUME RunInv, Still, status' \in {"running", "stopped", "refused", "done"},
         status # "idle"
  PROVE  Housed' /\ Meant' /\ (sent' \in {"none", "flying", "landed"} => RunTyped')
<1>1. /\ RunTyped /\ Housed /\ Meant
      /\ band' = band /\ capacity' = capacity /\ open' = open /\ shares' = shares
      /\ pending' = pending /\ late' = late /\ intruded' = intruded
      /\ task' = task /\ steps' = steps /\ next' = next
  BY DEF RunInv, Still, account
<1>2. Housed'
  BY <1>1 DEF Housed, BinsOf, Width, Closes
<1>3. Meant'
  BY <1>1 DEF Meant, Fits, StepBand, Closes, Kept
<1>4. ASSUME sent' \in {"none", "flying", "landed"} PROVE RunTyped'
  BY <1>1, <1>4 DEF RunTyped
<1>5. QED
  BY <1>2, <1>3, <1>4

(* What a run that goes on still has to do is untouched when a sending is  *)
(* neither landed now nor was before.                                      *)
LEMMA ResendKeeps ==
  ASSUME RunInv, status = "running", status' = "running",
         UNCHANGED <<account, task, steps, next, intruded>>,
         sent' \in {"none", "flying"}
  PROVE  Withdrawing' /\ Moving'
<1>1. /\ band' = band /\ capacity' = capacity /\ open' = open /\ shares' = shares
      /\ pending' = pending /\ intruded' = intruded
      /\ task' = task /\ steps' = steps /\ next' = next
  BY DEF account
<1>2. ASSUME NEW i, ToDo(i) PROVE ToDo(i)'
  BY <1>1, <1>2 DEF ToDo
<1>3. ASSUME NEW kept, BurnsAhead(kept)
      PROVE  \A b \in shares \ kept : \E i \in 1 .. Len(steps) : ToDo(i)' /\ b \in steps[i].burns
  BY <1>2, <1>3 DEF BurnsAhead
<1>4. ASSUME task.kind # "move"
      PROVE  Withdrawing'
  <2>1. /\ task.full => BurnsAhead(Bins \ BinsOf(task.band))
        /\ task.kind = "exit" /\ pending # {} => ToDo(1)
        /\ BurnsHeld /\ LastCloses
        /\ Closes(task) => steps # <<>> /\ (~ToDo(Len(steps)) => ~open)
    BY <1>4 DEF RunInv, Withdrawing
  <2> DEFINE kept == Bins \ BinsOf(task.band)
  <2>2. (task.full => BurnsAhead(kept))'
    <3>1. kept' = kept /\ task'.full = task.full
      BY <1>1 DEF BinsOf, Bins
    <3> HIDE DEF kept
    <3>2. task.full => \A b \in shares \ kept :
                         \E i \in 1 .. Len(steps) : ToDo(i)' /\ b \in steps[i].burns
      BY <1>3, <2>1 DEF kept
    <3>3. QED
      BY <1>1, <3>1, <3>2 DEF BurnsAhead
  <2>3. (task.kind = "exit" /\ pending # {} => ToDo(1))'
    BY <1>1, <1>2, <2>1
  <2>4. BurnsHeld' /\ LastCloses'
    BY <1>1, <2>1 DEF BurnsHeld, LastCloses, BinsOf, Closes
  <2>5. (Closes(task) => steps # <<>> /\ (~ToDo(Len(steps)) => ~open))'
    BY <1>1, <2>1 DEF Closes, ToDo
  <2>6. QED
    BY <2>2, <2>3, <2>4, <2>5 DEF Withdrawing
<1>5. ASSUME task.kind = "move", ~intruded
      PROVE  Moving'
  <2>1. /\ BurnsAhead(BinsOf(task.band))
        /\ pending \ BinsOf(task.band) # {} => ToDo(1) /\ steps[1].kind = "exit"
        /\ ExitsFirst /\ ExitsHeld /\ LeadsOn /\ LeadsFromHere /\ LeadsToGoal
    BY <1>5 DEF RunInv, Moving
  <2>2. BurnsAhead(BinsOf(task.band))'
    <3>1. \A b \in shares \ BinsOf(task.band) :
            \E i \in 1 .. Len(steps) : ToDo(i)' /\ b \in steps[i].burns
      BY <1>3, <2>1
    <3>2. QED
      BY <1>1, <3>1 DEF BurnsAhead, BinsOf
  <2>3. (pending \ BinsOf(task.band) # {} => ToDo(1) /\ steps[1].kind = "exit")'
    BY <1>1, <1>2, <2>1 DEF BinsOf
  <2>4. ExitsFirst' /\ ExitsHeld'
    BY <1>1, <2>1 DEF ExitsFirst, ExitsHeld, BinsOf
  <2>5. LeadsOn'
    <3> SUFFICES ASSUME NEW i \in 2 .. Len(steps), steps[i - 1].kind = "resize"
                 PROVE  Leads(steps[i], StepBand(steps[i - 1]),
                              CapacityFor(Width(StepBand(steps[i - 1]))), task.band)
      BY <1>1 DEF LeadsOn
    <3>1. QED
      BY <2>1 DEF LeadsOn
  <2>6. LeadsFromHere'
    <3> SUFFICES ASSUME NEW i \in 1 .. Len(steps), i >= next, steps[i].kind = "resize",
                        i = next \/ steps[i - 1].kind = "exit"
                 PROVE  \/ ToDo(i)' /\ Leads(steps[i], band, capacity, task.band)
                        \/ i = next /\ IsThere(steps[i])'
      BY <1>1 DEF LeadsFromHere, IsThere, StepBand
    <3>1. \/ ToDo(i) /\ Leads(steps[i], band, capacity, task.band)
          \/ i = next /\ IsThere(steps[i])
      BY <2>1 DEF LeadsFromHere
    <3>2. IsThere(steps[i]) => IsThere(steps[i])'
      BY <1>1 DEF IsThere, StepBand, CapacityFor, Width
    <3>3. QED
      BY <1>2, <3>1, <3>2
  <2>7. LeadsToGoal'
    BY <1>1, <2>1 DEF LeadsToGoal, Finished, StepBand
  <2>8. QED
    BY <2>2, <2>3, <2>4, <2>5, <2>6, <2>7 DEF Moving
<1>6. QED
  BY <1>1, <1>4, <1>5 DEF Withdrawing, Moving

LEMMA SendKeeps ==
  ASSUME RunInv, Send
  PROVE  RunInv'
<1>1. /\ status = "running" /\ status' = "running" /\ ~Finished /\ sent = "none"
      /\ ~Witnessed(Current) /\ sent' = "flying" /\ Still
      /\ open' = open /\ intruded' = intruded /\ next' = next /\ steps' = steps
      /\ UNCHANGED <<account, task, steps, next, intruded>>
  BY DEF Send, AtStep, Still, account
<1>2. Housed' /\ Meant' /\ RunTyped'
  BY <1>1, StillKeeps
<1>3. Withdrawing' /\ Moving'
  BY <1>1, ResendKeeps
<1>4. open \/ intruded
  <2>1. ~open => ~Current.closes
    BY <1>1, Zenon DEF Witnessed
  <2>2. QED
    BY <1>1, <2>1, ClosedIsLast
<1>5. Attended' /\ NeverRefused' /\ FinishedAtGoal'
  BY <1>1, <1>4 DEF Attended, NeverRefused, FinishedAtGoal
<1>6. QED
  BY <1>2, <1>3, <1>5 DEF RunInv

LEMMA RefuseKeeps ==
  ASSUME RunInv, Refuse
  PROVE  RunInv'
<1>1. /\ status = "running" /\ status' = "refused" /\ ~Finished /\ sent = "flying"
      /\ ~Accepted(Current) /\ sent' = sent /\ Still /\ intruded' = intruded
      /\ AtStep("flying")
  BY DEF Refuse, AtStep, Still, account
<1>2. Housed' /\ Meant' /\ RunTyped'
  BY <1>1, StillKeeps
<1>3. Withdrawing' /\ Moving' /\ FinishedAtGoal'
  BY <1>1 DEF Withdrawing, Moving, FinishedAtGoal
<1>4. intruded /\ intruded'
  BY <1>1, AcceptedInTurn
<1>5. Attended' /\ NeverRefused'
  BY <1>4 DEF Attended, NeverRefused
<1>6. QED
  BY <1>2, <1>3, <1>5 DEF RunInv

LEMMA FinishKeeps ==
  ASSUME RunInv, Finish
  PROVE  RunInv'
<1>1. /\ status = "running" /\ status' = "done" /\ Finished /\ sent' = sent /\ Still
      /\ RunTyped /\ Housed /\ Attended
      /\ band' = band /\ capacity' = capacity /\ open' = open /\ shares' = shares
      /\ pending' = pending /\ intruded' = intruded
      /\ task' = task /\ steps' = steps /\ next' = next
  BY DEF RunInv, Finish, Still, account
<1>2. Housed' /\ Meant' /\ RunTyped'
  BY <1>1, StillKeeps DEF RunTyped
<1>3. Withdrawing' /\ Moving' /\ NeverRefused'
  BY <1>1 DEF Withdrawing, Moving, NeverRefused
<1>4. Attended'
  BY <1>1 DEF Attended
<1>5. ASSUME NEW i PROVE ~ToDo(i)
  BY <1>1 DEF ToDo, Finished, RunTyped
<1>6. ASSUME task.kind # "move" PROVE Reached
  <2>1. /\ task.full => BurnsAhead(Bins \ BinsOf(task.band))
        /\ task.kind = "exit" => pending = {}
        /\ Closes(task) => ~open
    BY <1>1, <1>5, <1>6 DEF RunInv, Withdrawing
  <2>2. task.full => shares \cap BinsOf(task.band) = {}
    BY <1>5, <2>1 DEF BurnsAhead
  <2>3. open <=> ~Closes(task)
    <3>1. open \in BOOLEAN /\ Closes(task) \in BOOLEAN /\ (~open => Closes(task))
      BY <1>1, TaskFacts DEF RunTyped, Housed
    <3>2. QED
      BY <2>1, <3>1
  <2>4. QED
    BY <1>6, <2>1, <2>2, <2>3, Zenon DEF Reached
<1>7. ASSUME task.kind = "move", ~intruded PROVE Reached
  <2>1. band = task.band
    BY <1>1, <1>7 DEF RunInv, Moving, LeadsToGoal
  <2>2. Width(task.band) <= capacity
    BY <1>1, <2>1 DEF Housed
  <2>3. QED
    BY <1>7, <2>1, <2>2, Zenon DEF Reached
<1>8. FinishedAtGoal'
  <2>1. Reached <=> Reached'
    BY <1>1 DEF Reached, BinsOf, Width, Closes
  <2>2. QED
    BY <1>1, <1>6, <1>7, <2>1 DEF FinishedAtGoal
<1>9. QED
  BY <1>2, <1>3, <1>4, <1>8 DEF RunInv

LEMMA TimeoutKeeps ==
  ASSUME RunInv, Timeout
  PROVE  RunInv'
<1>1. /\ status = "running" /\ ~Finished /\ sent \in {"flying", "landed"} /\ sent' = "none"
      /\ RunTyped /\ Housed /\ Meant /\ Attended
      /\ status' = IF Idempotent(Current) \/ Current.closes THEN "running" ELSE "stopped"
      /\ late' = late \/ late' = late \cup {Current}
      /\ UNCHANGED <<account, task, steps, next, intruded>>
      /\ band' = band /\ capacity' = capacity /\ open' = open /\ shares' = shares
      /\ pending' = pending /\ intruded' = intruded
      /\ task' = task /\ steps' = steps /\ next' = next
  BY DEF RunInv, Timeout, AtStep, account
<1>2. Current \in Step /\ Fits(Current, task)
  BY <1>1, CurrentFacts
<1>3. RunTyped'
  BY <1>1, <1>2 DEF RunTyped
<1>4. Housed'
  BY <1>1 DEF Housed, BinsOf, Width, Closes
<1>5. Meant'
  <2>1. \A step \in late' : Fits(step, task)
    BY <1>1, <1>2 DEF Meant
  <2>2. \A step : Fits(step, task) => Fits(step, task)'
    BY <1>1 DEF Fits, StepBand, Closes, Kept, BinsOf, Bins
  <2>3. QED
    BY <1>1, <2>1, <2>2 DEF Meant
<1>6. Attended'
  <2> SUFFICES ASSUME ~open, ~intruded
               PROVE  status' = "running" /\ next >= Len(steps)
    BY <1>1 DEF Attended
  <2>1. Current.closes /\ next >= Len(steps)
    BY <1>1, ClosedIsLast DEF Attended
  <2>2. QED
    BY <1>1, <2>1
<1>7. NeverRefused' /\ FinishedAtGoal'
  BY <1>1 DEF NeverRefused, FinishedAtGoal
<1>8. CASE status' = "running"
  <2>1. Withdrawing' /\ Moving'
    BY <1>1, <1>8, ResendKeeps
  <2>2. QED
    BY <1>3, <1>4, <1>5, <1>6, <1>7, <2>1 DEF RunInv
<1>9. CASE status' # "running"
  <2>1. Withdrawing' /\ Moving'
    BY <1>9 DEF Withdrawing, Moving
  <2>2. QED
    BY <1>3, <1>4, <1>5, <1>6, <1>7, <2>1 DEF RunInv
<1>10. QED
  BY <1>8, <1>9

(* Whatever lands, in its turn or late, leaves an account that houses what *)
(* it holds; an exit burns, and a resize only happens in a move.           *)
LEMMA ExecuteHouses ==
  ASSUME RunTyped, Housed, NEW step \in Step, Fits(step, task),
         Accepted(step), Execute(step), task' = task
  PROVE  /\ Housed' /\ band' \in Bands /\ capacity' \in Nat /\ open' \in BOOLEAN
         /\ shares' \in SUBSET shares /\ pending' \in SUBSET pending /\ open
         /\ ~open' => step.closes
         /\ step.kind = "exit" =>
              /\ band' = band /\ capacity' = capacity /\ pending' = {}
              /\ step.full => shares' \cap step.burns = {}
              /\ ~step.full => shares' = shares
              /\ open' = ~step.closes
              /\ step.full = task.full /\ (step.full => step.burns \cap Kept(task) = {})
         /\ step.kind = "resize" =>
              /\ task.kind = "move" /\ open' = open /\ shares' = shares /\ pending' = pending
              /\ band' = StepBand(step) /\ capacity' = CapacityFor(Width(band'))
<1>1. open /\ step.closes \in BOOLEAN /\ step.full \in BOOLEAN /\ step.kind \in {"exit", "resize"}
  BY StepFacts DEF Accepted
<1>2. CASE step.kind = "exit"
  <2>1. Exit(step)
    BY <1>2 DEF Execute
  <2>2. step.closes => step.full /\ shares \subseteq step.burns
    BY <1>2 DEF Accepted
  <2>3. /\ shares' = IF step.full THEN shares \ step.burns ELSE shares
        /\ open' = ~step.closes /\ pending' = {} /\ band' = band /\ capacity' = capacity
    BY <2>1, Zenon DEF Exit
  <2>4. ~open' => Closes(task) /\ shares' = {}
    BY <1>1, <2>2, <2>3 DEF Fits
  <2>5. shares' \in SUBSET shares /\ pending' \in SUBSET pending /\ open' \in BOOLEAN
    BY <1>1, <2>3
  <2>6. Housed'
    BY <2>3, <2>4, <2>5 DEF Housed, BinsOf, Width, Closes
  <2>7. band' \in Bands /\ capacity' \in Nat
    BY <2>3 DEF RunTyped
  <2>8. step.full = task.full /\ (step.full => step.burns \cap Kept(task) = {})
    BY <1>2 DEF Fits
  <2>9. step.full => shares' \cap step.burns = {}
    BY <2>3
  <2>10. ~step.full => shares' = shares
    BY <2>3
  <2> HIDE DEF Housed, Exit
  <2>11. step.kind # "resize"
    BY <1>2
  <2>12. QED
    BY <1>1, <2>3, <2>5, <2>6, <2>7, <2>8, <2>9, <2>10, <2>11
<1>3. CASE step.kind = "resize"
  <2>1. Resize(step)
    BY <1>3 DEF Execute
  <2>2. /\ band' = StepBand(step) /\ capacity' = CapacityFor(Width(StepBand(step)))
        /\ open' = open /\ shares' = shares /\ pending' = pending
    BY <2>1 DEF Resize
  <2>3. (shares \cup pending) \cap BinsOf(band) \subseteq BinsOf(StepBand(step))
    BY <1>3 DEF Accepted
  <2>4. task.kind = "move" /\ StepBand(step) \in Bands
    BY <1>3 DEF Fits
  <2>5. capacity' \in Nat /\ Width(StepBand(step)) <= capacity'
    BY <2>2, <2>4, CapacityHolds
  <2>6. shares \subseteq BinsOf(StepBand(step)) /\ pending \subseteq BinsOf(StepBand(step))
    BY <2>3 DEF Housed
  <2>7. Housed'
    BY <1>1, <2>2, <2>5, <2>6 DEF Housed, BinsOf, Width
  <2>8. step.kind # "exit"
    BY <1>3
  <2>9. QED
    BY <1>1, <2>2, <2>4, <2>5, <2>7, <2>8
<1>4. QED
  BY <1>1, <1>2, <1>3

LEMMA LandKeeps ==
  ASSUME RunInv, Land
  PROVE  RunInv'
<1>1. /\ RunTyped /\ Housed /\ Meant /\ status = "running" /\ ~Finished /\ sent = "flying"
      /\ Accepted(Current) /\ Execute(Current) /\ sent' = "landed"
      /\ late' = late /\ status' = "running" /\ task' = task /\ steps' = steps
      /\ next' = next /\ intruded' = intruded
  BY DEF RunInv, Land, AtStep
<1>2. /\ next \in 1 .. Len(steps) /\ Len(steps) \in 1 .. Len(steps) /\ Len(steps) \in Nat
      /\ next \in Nat /\ Current = steps[next] /\ Current \in Step
      /\ Current.kind \in {"exit", "resize"}
      /\ Fits(Current, task)
      /\ task.kind = "move" => ~Current.closes
      /\ task.kind # "move" => Current.kind = "exit"
  BY <1>1, CurrentFacts DEF RunTyped
<1>3. /\ Housed' /\ band' \in Bands /\ capacity' \in Nat /\ open' \in BOOLEAN
      /\ shares' \in SUBSET shares /\ pending' \in SUBSET pending /\ open
      /\ ~open' => Current.closes
      /\ Current.kind = "exit" =>
              /\ band' = band /\ capacity' = capacity /\ pending' = {}
              /\ Current.full => shares' \cap Current.burns = {}
              /\ ~Current.full => shares' = shares
              /\ open' = ~Current.closes
              /\ Current.full = task.full
      /\ Current.kind = "resize" =>
              /\ task.kind = "move" /\ open' = open /\ shares' = shares /\ pending' = pending
              /\ band' = StepBand(Current) /\ capacity' = CapacityFor(Width(band'))
  BY <1>1, <1>2, ExecuteHouses
<1>4. RunTyped'
  BY <1>1, <1>3 DEF RunTyped
<1>5. Meant'
  BY <1>1 DEF Meant, Fits, StepBand, Closes, Kept, BinsOf, Bins
<1>6. NeverRefused' /\ FinishedAtGoal'
  BY <1>1 DEF NeverRefused, FinishedAtGoal
<1>7. ASSUME NEW i, ToDo(i), i # next PROVE ToDo(i)'
  BY <1>1, <1>7 DEF ToDo
<1>8. ASSUME NEW i, ToDo(i) PROVE i \in 1 .. Len(steps) /\ i >= next /\ i \in Nat
  BY <1>2, <1>8 DEF ToDo
<1>9. ASSUME NEW kept, BurnsAhead(kept), Current.kind = "exit", Current.full
      PROVE  \A b \in shares' \ kept : \E i \in 1 .. Len(steps) : ToDo(i)' /\ b \in steps[i].burns
  <2> SUFFICES ASSUME NEW b \in shares' \ kept
               PROVE  \E i \in 1 .. Len(steps) : ToDo(i)' /\ b \in steps[i].burns
    OBVIOUS
  <2>1. b \in shares \ kept /\ b \notin Current.burns
    BY <1>3, <1>9
  <2>2. PICK i \in 1 .. Len(steps) : ToDo(i) /\ b \in steps[i].burns
    BY <1>9, <2>1 DEF BurnsAhead
  <2>3. i # next
    BY <1>2, <2>1, <2>2
  <2>4. QED
    BY <1>7, <2>2, <2>3
<1>10. CASE task.kind # "move"
  <2>1. /\ task.full => BurnsAhead(Bins \ BinsOf(task.band))
        /\ BurnsHeld /\ LastCloses
        /\ Closes(task) => steps # <<>>
    BY <1>1, <1>10 DEF RunInv, Withdrawing
  <2>2. Current.kind = "exit"
    BY <1>2, <1>10
  <2> DEFINE kept == Bins \ BinsOf(task.band)
  <2>3. (task.full => BurnsAhead(kept))'
    <3>1. kept' = kept /\ task'.full = task.full
      BY <1>1 DEF BinsOf, Bins
    <3>2. task.full => BurnsAhead(kept)
      BY <2>1
    <3> HIDE DEF kept
    <3>3. task.full => \A b \in shares' \ kept :
                         \E i \in 1 .. Len(steps) : ToDo(i)' /\ b \in steps[i].burns
      BY <1>3, <1>9, <2>2, <3>2
    <3>4. QED
      BY <1>1, <3>1, <3>3 DEF BurnsAhead
  <2>4. (task.kind = "exit" /\ pending # {} => ToDo(1))'
    BY <1>3, <2>2
  <2>5. BurnsHeld' /\ LastCloses'
    BY <1>1, <1>3, <2>1, <2>2 DEF BurnsHeld, LastCloses, BinsOf, Closes
  <2>6. (Closes(task) => steps # <<>> /\ (~ToDo(Len(steps)) => ~open))'
    <3> SUFFICES ASSUME Closes(task), ~(ToDo(Len(steps))') PROVE ~open'
      BY <1>1, <2>1 DEF Closes
    <3>1. next = Len(steps)
      BY <1>1, <1>2 DEF ToDo
    <3>2. Current.closes
      BY <1>2, <2>1, <3>1 DEF LastCloses
    <3>3. QED
      BY <1>3, <2>2, <3>2
  <2>7. Withdrawing' /\ Moving'
    BY <1>1, <1>10, <2>3, <2>4, <2>5, <2>6 DEF Withdrawing, Moving
  <2>8. Attended'
    <3>1. Current.closes => next = Len(steps)
      BY <1>2, <2>1 DEF LastCloses
    <3>2. QED
      BY <1>1, <1>2, <1>3, <3>1 DEF Attended
  <2>9. QED
    BY <1>3, <1>4, <1>5, <1>6, <2>7, <2>8 DEF RunInv
<1>11. CASE task.kind = "move"
  <2>1. open'
    BY <1>2, <1>3, <1>11
  <2>2. Attended' /\ Withdrawing'
    BY <1>1, <1>11, <2>1 DEF Attended, Withdrawing
  <2>3. CASE intruded
    BY <1>1, <1>3, <1>4, <1>5, <1>6, <2>2, <2>3 DEF RunInv, Moving
  <2>4. CASE ~intruded
    <3>1. /\ BurnsAhead(BinsOf(task.band))
          /\ pending \ BinsOf(task.band) # {} => ToDo(1) /\ steps[1].kind = "exit"
          /\ ExitsFirst /\ ExitsHeld /\ LeadsOn /\ LeadsFromHere /\ LeadsToGoal
      BY <1>1, <1>11, <2>4 DEF RunInv, Moving
    <3>2. ExitsFirst'
      BY <1>1, <3>1 DEF ExitsFirst
    <3>3. LeadsOn'
      <4> SUFFICES ASSUME NEW i \in 2 .. Len(steps), steps[i - 1].kind = "resize"
                   PROVE  Leads(steps[i], StepBand(steps[i - 1]),
                                CapacityFor(Width(StepBand(steps[i - 1]))), task.band)
        BY <1>1 DEF LeadsOn
      <4>1. QED
        BY <3>1 DEF LeadsOn
    <3>4. LeadsToGoal'
      BY <1>1, <3>1 DEF LeadsToGoal, Finished, StepBand
    <3>5. CASE Current.kind = "exit"
      <4>1. Current.full /\ band' = band /\ capacity' = capacity /\ pending' = {}
        <5>1. task.full
          BY <1>1, <1>11, TaskFacts DEF RunTyped
        <5>2. QED
          BY <1>3, <3>5, <5>1
      <4>2. BurnsAhead(BinsOf(task.band))'
        <5>1. \A b \in shares' \ BinsOf(task.band) :
                \E i \in 1 .. Len(steps) : ToDo(i)' /\ b \in steps[i].burns
          BY <1>9, <3>1, <3>5, <4>1
        <5>2. QED
          BY <1>1, <5>1 DEF BurnsAhead, BinsOf
      <4>3. ExitsHeld'
        BY <1>1, <3>1, <4>1 DEF ExitsHeld, BinsOf
      <4>4. LeadsFromHere'
        <5> SUFFICES ASSUME NEW i \in 1 .. Len(steps), i >= next, steps[i].kind = "resize",
                            i = next \/ steps[i - 1].kind = "exit"
                     PROVE  ToDo(i)' /\ Leads(steps[i], band, capacity, task.band)
          BY <1>1, <4>1 DEF LeadsFromHere
        <5>1. i # next
          BY <1>2, <3>5
        <5>2. ToDo(i) /\ Leads(steps[i], band, capacity, task.band)
          BY <3>1, <5>1 DEF LeadsFromHere
        <5>3. QED
          BY <1>7, <5>1, <5>2
      <4>5. Moving'
        BY <3>2, <3>3, <3>4, <4>1, <4>2, <4>3, <4>4 DEF Moving
      <4>6. QED
        BY <1>3, <1>4, <1>5, <1>6, <2>2, <4>5 DEF RunInv
    <3>6. CASE Current.kind = "resize"
      <4>1. /\ band' = StepBand(Current) /\ capacity' = CapacityFor(Width(band'))
            /\ shares' = shares /\ pending' = pending
        BY <1>3, <3>6
      <4>2. \A i \in 1 .. Len(steps) : i >= next => steps[i].kind = "resize"
        <5> SUFFICES ASSUME NEW i \in 1 .. Len(steps), i >= next, steps[i].kind # "resize"
                     PROVE  FALSE
          OBVIOUS
        <5>1. steps[i].kind = "exit"
          BY <1>1, StepFacts DEF RunTyped
        <5>2. i # next /\ next < i
          BY <1>2, <3>6, <5>1
        <5>3. steps[next].kind = "exit"
          BY <1>2, <3>1, <5>1, <5>2 DEF ExitsFirst
        <5>4. QED
          BY <1>2, <3>6, <5>3
      <4>3. shares \ BinsOf(task.band) = {}
        <5> SUFFICES ASSUME NEW b \in shares \ BinsOf(task.band) PROVE FALSE
          OBVIOUS
        <5>1. PICK i \in 1 .. Len(steps) : ToDo(i) /\ b \in steps[i].burns
          BY <3>1 DEF BurnsAhead
        <5>2. steps[i].burns = {}
          BY <1>8, <3>1, <4>2, <5>1 DEF ExitsHeld
        <5>3. QED
          BY <5>1, <5>2
      <4>4. pending \ BinsOf(task.band) = {}
        <5> SUFFICES ASSUME pending \ BinsOf(task.band) # {} PROVE FALSE
          OBVIOUS
        <5>1. ToDo(1) /\ steps[1].kind = "exit"
          BY <3>1
        <5>2. next = 1
          BY <1>2, <1>8, <5>1
        <5>3. QED
          BY <1>2, <3>6, <5>1, <5>2
      <4>5. BurnsAhead(BinsOf(task.band))'
        BY <1>1, <4>1, <4>3 DEF BurnsAhead, BinsOf
      <4>6. (pending \ BinsOf(task.band) # {} => ToDo(1) /\ steps[1].kind = "exit")'
        BY <1>1, <4>1, <4>4 DEF BinsOf
      <4>7. ExitsHeld'
        BY <1>1, <3>1, <4>2 DEF ExitsHeld
      <4>8. LeadsFromHere'
        <5> SUFFICES ASSUME NEW i \in 1 .. Len(steps), i >= next, steps[i].kind = "resize",
                            i = next \/ steps[i - 1].kind = "exit"
                     PROVE  i = next /\ IsThere(steps[i])'
          BY <1>1 DEF LeadsFromHere, IsThere
        <5>1. i = next
          <6> SUFFICES ASSUME i # next PROVE FALSE
            OBVIOUS
          <6>1. i - 1 \in 1 .. Len(steps) /\ i - 1 >= next
            BY <1>2
          <6>2. QED
            BY <4>2, <6>1
        <5>2. IsThere(steps[next])'
          BY <1>1, <1>2, <4>1 DEF IsThere, StepBand
        <5>3. QED
          BY <1>1, <5>1, <5>2
      <4>9. Moving'
        BY <3>2, <3>3, <3>4, <4>5, <4>6, <4>7, <4>8 DEF Moving
      <4>10. QED
        BY <1>3, <1>4, <1>5, <1>6, <2>2, <4>9 DEF RunInv
    <3>7. QED
      BY <1>2, <3>5, <3>6
  <2>5. QED
    BY <2>3, <2>4
<1>12. QED
  BY <1>10, <1>11

(* Nothing the invariant speaks of changes when a bin earns, when a late   *)
(* transaction is refused, or when nothing happens at all.                 *)
LEMMA UnchangedKeeps ==
  ASSUME RunInv,
         UNCHANGED <<band, capacity, open, shares, pending, runner, intruded>>,
         late' \in SUBSET late
  PROVE  RunInv'
<1>1. /\ band' = band /\ capacity' = capacity /\ open' = open /\ shares' = shares
      /\ pending' = pending /\ late' \in SUBSET late /\ intruded' = intruded
      /\ status' = status /\ task' = task /\ steps' = steps /\ next' = next /\ sent' = sent
  BY DEF runner
<1>2. RunTyped' /\ Housed' /\ Meant' /\ Attended'
  <2>1. RunTyped' /\ Attended'
    BY <1>1 DEF RunInv, RunTyped, Attended
  <2>2. Housed'
    BY <1>1 DEF RunInv, Housed, BinsOf, Width, Closes
  <2>3. Meant'
    BY <1>1 DEF RunInv, Meant, Fits, StepBand, Closes, Kept, BinsOf, Bins
  <2>4. QED
    BY <2>1, <2>2, <2>3
<1>3. \A i : ToDo(i)' <=> ToDo(i)
  BY <1>1 DEF ToDo
<1>4. NeverRefused' /\ FinishedAtGoal'
  <2>1. Reached' <=> Reached
    BY <1>1 DEF Reached, BinsOf, Width, Closes
  <2>2. QED
    BY <1>1, <2>1 DEF RunInv, NeverRefused, FinishedAtGoal
<1>5. Withdrawing'
  <2>1. BurnsAhead(Bins \ BinsOf(task.band)) => BurnsAhead(Bins \ BinsOf(task.band))'
    BY <1>1, <1>3 DEF BurnsAhead, BinsOf, Bins
  <2>2. (BurnsHeld => BurnsHeld') /\ (LastCloses => LastCloses')
    BY <1>1 DEF BurnsHeld, LastCloses, BinsOf, Closes
  <2>3. ToDo(Len(steps))' <=> ToDo(Len(steps))
    BY <1>1 DEF ToDo
  <2>4. Closes(task)' <=> Closes(task)
    BY <1>1 DEF Closes
  <2> SUFFICES ASSUME status = "running", task.kind # "move"
               PROVE  /\ task.full => BurnsAhead(Bins \ BinsOf(task.band))'
                      /\ task.kind = "exit" /\ pending # {} => ToDo(1)
                      /\ BurnsHeld'
                      /\ LastCloses'
                      /\ Closes(task) => steps # <<>> /\ (~ToDo(Len(steps)) => ~open)
    BY <1>1, <1>3, <2>3, <2>4 DEF Withdrawing
  <2>5. QED
    BY <2>1, <2>2 DEF RunInv, Withdrawing
<1>6. Moving'
  <2> SUFFICES ASSUME status = "running", task.kind = "move", ~intruded
               PROVE  /\ BurnsAhead(BinsOf(task.band))'
                      /\ (pending \ BinsOf(task.band) # {} => ToDo(1) /\ steps[1].kind = "exit")'
                      /\ ExitsFirst' /\ ExitsHeld' /\ LeadsOn' /\ LeadsFromHere'
                      /\ LeadsToGoal'
    BY <1>1 DEF Moving
  <2>1. /\ BurnsAhead(BinsOf(task.band))
        /\ pending \ BinsOf(task.band) # {} => ToDo(1) /\ steps[1].kind = "exit"
        /\ ExitsFirst /\ ExitsHeld /\ LeadsOn /\ LeadsFromHere /\ LeadsToGoal
    BY DEF RunInv, Moving
  <2>2. BurnsAhead(BinsOf(task.band))'
    BY <1>1, <1>3, <2>1 DEF BurnsAhead, BinsOf
  <2>3. (pending \ BinsOf(task.band) # {} => ToDo(1) /\ steps[1].kind = "exit")'
    BY <1>1, <1>3, <2>1 DEF BinsOf
  <2>4. ExitsFirst' /\ ExitsHeld'
    BY <1>1, <2>1 DEF ExitsFirst, ExitsHeld, BinsOf
  <2>5. LeadsOn'
    <3> SUFFICES ASSUME NEW i \in 2 .. Len(steps), steps[i - 1].kind = "resize"
                 PROVE  Leads(steps[i], StepBand(steps[i - 1]),
                              CapacityFor(Width(StepBand(steps[i - 1]))), task.band)
      BY <1>1 DEF LeadsOn
    <3>1. QED
      BY <2>1 DEF LeadsOn
  <2>6. LeadsFromHere'
    <3> SUFFICES ASSUME NEW i \in 1 .. Len(steps), i >= next, steps[i].kind = "resize",
                        i = next \/ steps[i - 1].kind = "exit"
                 PROVE  \/ ToDo(i) /\ Leads(steps[i], band, capacity, task.band)
                        \/ i = next /\ IsThere(steps[i])
      BY <1>1, <1>3 DEF LeadsFromHere, IsThere, StepBand, CapacityFor, Width
    <3>1. QED
      BY <2>1 DEF LeadsFromHere
  <2>7. LeadsToGoal'
    BY <1>1, <2>1 DEF LeadsToGoal, Finished, StepBand
  <2>8. QED
    BY <2>2, <2>3, <2>4, <2>5, <2>6, <2>7
<1>7. QED
  BY <1>2, <1>4, <1>5, <1>6 DEF RunInv

(* One that lands late can only help a withdrawal; a move it spoils, which *)
(* is what intruded stands for.                                            *)
LEMMA LandLateKeeps ==
  ASSUME RunInv, NEW step \in late, LandLate(step)
  PROVE  RunInv'
<1>1. /\ RunTyped /\ Housed /\ Meant /\ late' = late \ {step}
      /\ status' = status /\ task' = task /\ steps' = steps /\ next' = next /\ sent' = sent
      /\ step \in Step /\ Fits(step, task)
  BY DEF RunInv, LandLate, runner, RunTyped, Meant
<1>2. status # "idle"
  BY <1>1 DEF Meant
<1>3. Meant'
  BY <1>1, <1>2 DEF Meant, Fits, StepBand, Closes, Kept, BinsOf, Bins
<1>4. \A i : ToDo(i)' <=> ToDo(i)
  BY <1>1 DEF ToDo
<1>5. CASE ~Accepted(step)
  BY <1>1, <1>5, UnchangedKeeps DEF LandLate, account
<1>6. CASE Accepted(step)
  <2>1. Execute(step) /\ intruded' = TRUE
    BY <1>6 DEF LandLate
  <2>2. /\ Housed' /\ band' \in Bands /\ capacity' \in Nat /\ open' \in BOOLEAN
        /\ shares' \in SUBSET shares /\ pending' \in SUBSET pending /\ open
        /\ ~open' => step.closes
        /\ step.kind = "exit" => band' = band /\ pending' = {}
        /\ step.kind = "resize" => task.kind = "move"
    BY <1>1, <1>6, <2>1, ExecuteHouses
  <2>3. RunTyped'
    BY <1>1, <2>1, <2>2 DEF RunTyped
  <2>4. Attended' /\ Moving' /\ NeverRefused'
    BY <2>1 DEF Attended, Moving, NeverRefused
  <2>5. task.kind # "move" => band' = band /\ pending' = {}
    BY <1>1, <2>2, StepFacts
  <2>6. Withdrawing'
    <3> SUFFICES ASSUME status = "running", task.kind # "move"
                 PROVE  /\ task.full => BurnsAhead(Bins \ BinsOf(task.band))'
                        /\ BurnsHeld' /\ LastCloses'
                        /\ Closes(task) => steps # <<>> /\ ToDo(Len(steps))'
      BY <1>1, <2>5 DEF Withdrawing, Closes
    <3>1. /\ task.full => BurnsAhead(Bins \ BinsOf(task.band))
          /\ BurnsHeld /\ LastCloses
          /\ Closes(task) => steps # <<>> /\ ToDo(Len(steps))
      BY <2>2 DEF RunInv, Withdrawing
    <3>2. BurnsAhead(Bins \ BinsOf(task.band)) => BurnsAhead(Bins \ BinsOf(task.band))'
      BY <1>1, <1>4, <2>2 DEF BurnsAhead, BinsOf, Bins
    <3>3. BurnsHeld' /\ LastCloses'
      BY <1>1, <2>5, <3>1 DEF BurnsHeld, LastCloses, BinsOf, Closes
    <3>4. ToDo(Len(steps))' <=> ToDo(Len(steps))
      BY <1>1 DEF ToDo
    <3>5. QED
      BY <3>1, <3>2, <3>3, <3>4
  <2>7. FinishedAtGoal'
    <3> SUFFICES ASSUME status = "done", task.kind # "move" PROVE Reached'
      BY <1>1, <2>1 DEF FinishedAtGoal
    <3>1. Reached
      BY DEF RunInv, FinishedAtGoal
    <3>2. (task.full => shares \cap BinsOf(task.band) = {}) /\ (open <=> ~Closes(task))
      BY <3>1, Zenon DEF Reached
    <3>3. open'
      BY <1>1, <2>2, <3>2 DEF Fits
    <3>4. task.full => shares' \cap BinsOf(task.band) = {}
      BY <2>2, <3>2
    <3>5. ~Closes(task)
      BY <2>2, <3>2
    <3>6. Reached' <=> /\ task.full => shares' \cap BinsOf(task.band) = {}
                       /\ task.kind = "exit" /\ task.full => pending' = {}
                       /\ open' <=> ~Closes(task)
      BY <1>1 DEF Reached, BinsOf, Closes
    <3>7. QED
      BY <2>5, <3>3, <3>4, <3>5, <3>6
  <2>8. QED
    BY <1>3, <2>2, <2>3, <2>4, <2>6, <2>7 DEF RunInv
<1>7. QED
  BY <1>5, <1>6

LEMMA NextKeeps ==
  ASSUME RunInv, [Next]_vars
  PROVE  RunInv'
<1>1. CASE \E t \in Tasks : Plan(t)
  BY <1>1, PlanKeeps
<1>2. CASE Skip
  BY <1>2, SkipKeeps
<1>3. CASE Send
  BY <1>3, SendKeeps
<1>4. CASE Land
  BY <1>4, LandKeeps
<1>5. CASE Refuse
  BY <1>5, RefuseKeeps
<1>6. CASE Confirm
  BY <1>6, ConfirmKeeps
<1>7. CASE Finish
  BY <1>7, FinishKeeps
<1>8. CASE Timeout
  BY <1>8, TimeoutKeeps
<1>9. CASE \E step \in late : LandLate(step)
  BY <1>9, LandLateKeeps
<1>10. CASE \E b \in Bins : Earn(b)
  BY <1>10, UnchangedKeeps DEF Earn
<1>11. CASE UNCHANGED vars
  BY <1>11, UnchangedKeeps DEF vars, account
<1>12. QED
  BY <1>1, <1>2, <1>3, <1>4, <1>5, <1>6, <1>7, <1>8, <1>9, <1>10, <1>11 DEF Next, Progress

(* A step of a run burns nothing its task keeps, one that lands late       *)
(* included: what it lands was planned for the same task.                  *)
LEMMA NextKeepsOverlap ==
  ASSUME RunInv, [Next]_vars
  PROVE  shares \cap Kept(task') \subseteq shares'
<1>1. RunTyped /\ Housed /\ Meant
  BY DEF RunInv
<1>2. ASSUME NEW step \in Step, Fits(step, task), Accepted(step), Execute(step), task' = task
      PROVE  shares \cap Kept(task') \subseteq shares'
  <2>1. CASE step.kind = "exit" /\ step.full
    <3>1. step.burns \cap Kept(task) = {}
      BY <1>2, <2>1 DEF Fits
    <3>2. shares' = shares \ step.burns
      BY <1>2, <2>1 DEF Execute, Exit
    <3>3. QED
      BY <1>2, <3>1, <3>2
  <2>2. CASE step.kind # "exit" \/ ~step.full
    <3>1. shares' = shares
      BY <1>2, <2>2 DEF Execute, Exit, Resize
    <3>2. QED
      BY <3>1
  <2>3. QED
    BY <2>1, <2>2
<1>3. CASE Land
  <2>1. Current \in Step /\ Fits(Current, task)
    BY <1>3, CurrentFacts DEF Land, AtStep
  <2>2. QED
    BY <1>2, <1>3, <2>1 DEF Land
<1>4. CASE \E step \in late : LandLate(step)
  <2>1. PICK step \in late : LandLate(step)
    BY <1>4
  <2>2. step \in Step /\ Fits(step, task) /\ task' = task
    BY <1>1, <2>1 DEF RunTyped, Meant, LandLate, runner
  <2>3. CASE Accepted(step)
    BY <1>2, <2>1, <2>2, <2>3 DEF LandLate
  <2>4. CASE ~Accepted(step)
    BY <2>1, <2>4 DEF LandLate, account
  <2>5. QED
    BY <2>3, <2>4
<1>5. CASE UNCHANGED shares
  BY <1>5
<1>6. Land \/ (\E step \in late : LandLate(step)) \/ UNCHANGED shares
  BY DEF Next, Progress, Plan, Skip, Send, Refuse, Confirm, Finish, Timeout, Earn, vars, account
<1>7. QED
  BY <1>3, <1>4, <1>5, <1>6

(* The invariant holds in every reachable state.                           *)
LEMMA RunInvHolds == Spec => []RunInv
<1>1. Init => RunInv
  BY InitHolds
<1>2. RunInv /\ [Next]_vars => RunInv'
  BY NextKeeps
<1>3. QED
  BY <1>1, <1>2, PTL DEF Spec

(* No step of a plan is refused in its turn (plan.ts, planRebalance and    *)
(* planExit; instructions.ts, resizeSteps), whatever the band, the bins    *)
(* that are funded or owed a fee, the storage the account has, the cap on  *)
(* growth and the bins an exit covers, and whatever was lost, sent again   *)
(* or planned again, as long as nothing given up on lands after all.       *)
THEOREM PlansAreAccepted == Spec => []NeverRefused
<1>1. RunInv => NeverRefused
  BY DEF RunInv
<1>2. QED
  BY <1>1, RunInvHolds, PTL

(* A run that finishes has reached what was asked for: no step's witness   *)
(* stands in for a step that has not been done.                            *)
THEOREM FinishMeansReached == Spec => []FinishedAtGoal
<1>1. RunInv => FinishedAtGoal
  BY DEF RunInv
<1>2. QED
  BY <1>1, RunInvHolds, PTL

(* No step, retry, new plan or transaction that lands late withdraws what  *)
(* the task keeps.                                                         *)
THEOREM OverlapIsKept == Spec => KeepsTheOverlap
<1>1. RunInv /\ [Next]_vars => [shares \cap Kept(task') \subseteq shares']_vars
  BY NextKeepsOverlap
<1>2. QED
  BY <1>1, RunInvHolds, PTL DEF Spec, KeepsTheOverlap
=============================================================================
