---------------------------- MODULE QuoteHopProofs ----------------------------
(***************************************************************************)
(* The quote and the swap built from it, for every ladder, fee schedule,   *)
(* pair of mints and order of events.                                      *)
(*                                                                         *)
(* First the inverse of a capped transfer fee: what ToSend names arrives   *)
(* as exactly the amount asked for, and nothing less does.  The uncapped   *)
(* branch is the one to argue about.  It rounds p / (1 - r) up, and the    *)
(* fee of that rounds up again; the two roundings cancel because the first *)
(* leaves less than one unit times 1 - r to spare.                         *)
(*                                                                         *)
(* Then the invariant, Honest: as long as nothing but time has passed, the *)
(* quote held is the one the adapter would make now of the pool as it was  *)
(* when it was asked.  The arrays a transaction names are all a walk can   *)
(* tell apart, so the swap takes the walk that was quoted; a walk begun    *)
(* later is cheaper and buys no less.                                      *)
(*                                                                         *)
(* Then what a quote rests on: the cache it walks over (JupiterAmm) and    *)
(* the fee read from a mint's bytes (MintTlv).                             *)
(***************************************************************************)
EXTENDS QuoteHop, JupiterAmm, MintTlv, LadderWalkProofs, FiniteSetTheorems

LEMMA FeeFields ==
  ASSUME NEW fee \in TransferFees
  PROVE  /\ fee.bps \in Nat /\ fee.bps <= OneInBasisPoints
         /\ fee.maximum \in Nat /\ OneInBasisPoints \in Nat \ {0}
  BY BasisPointsAssumption, ScaleAssumption DEF TransferFees

(* A ceiling is pinned down by its two bounds.                             *)
LEMMA CeilIs ==
  ASSUME NEW a \in Nat, NEW b \in Nat \ {0}, NEW q \in Nat,
         a <= q * b, q * b < a + b
  PROVE  DivCeil(a, b) = q
<1> DEFINE c == DivCeil(a, b)
<1>1. c \in Nat /\ a <= c * b /\ c * b < a + b
  BY Ceil
<1>2. c * b < (q + 1) * b /\ q * b < (c + 1) * b
  BY <1>1
<1>3. c < q + 1 /\ q < c + 1
  BY <1>1, <1>2, Monotone
<1>4. QED
  BY <1>1, <1>3

(* The fee is a natural number no larger than the amount.                  *)
LEMMA FeeOfAmount ==
  ASSUME NEW fee \in TransferFees, NEW n \in Nat
  PROVE  CalculateFee(fee, n) \in 0 .. n
<1>1. CASE fee.bps = 0 \/ n = 0
  BY <1>1 DEF CalculateFee
<1>2. CASE fee.bps > 0 /\ n > 0
  <2> DEFINE B == OneInBasisPoints
             raw == DivCeil(n * fee.bps, B)
  <2>1. /\ fee.bps \in Nat /\ fee.bps <= B /\ fee.maximum \in Nat /\ B \in Nat \ {0}
        /\ n * fee.bps \in Nat /\ n * fee.bps <= n * B
    BY FeeFields
  <2>2. raw \in Nat /\ raw * B < n * fee.bps + B
    BY <2>1, Ceil
  <2>3. raw * B < (n + 1) * B
    BY <2>1, <2>2
  <2>4. raw < n + 1
    BY <2>1, <2>2, <2>3, Monotone
  <2>5. CalculateFee(fee, n) = Least(raw, fee.maximum)
    BY <1>2 DEF CalculateFee
  <2>6. QED
    BY <2>1, <2>2, <2>4, <2>5 DEF Least
<1>3. QED
  BY <1>1, <1>2, FeeFields

LEMMA FeeCapped ==
  ASSUME NEW fee \in TransferFees, NEW n \in Nat
  PROVE  CalculateFee(fee, n) <= fee.maximum
<1>1. /\ fee.bps \in Nat /\ fee.maximum \in Nat /\ OneInBasisPoints \in Nat \ {0}
      /\ n * fee.bps \in Nat
  BY FeeFields
<1>2. DivCeil(n * fee.bps, OneInBasisPoints) \in Nat
  BY <1>1, Ceil
<1>3. QED
  BY <1>1, <1>2 DEF CalculateFee, Least

(* More sent is never less received.                                       *)
LEMMA ReceivedMonotone ==
  ASSUME NEW fee \in TransferFees, NEW m \in Nat, NEW n \in Nat, m <= n
  PROVE  /\ Received(fee, m) \in Nat /\ Received(fee, n) \in Nat
         /\ Received(fee, m) <= Received(fee, n)
<1>1. /\ CalculateFee(fee, m) \in 0 .. m /\ CalculateFee(fee, n) \in 0 .. n
  BY FeeOfAmount
<1>2. CASE fee.bps = 0 \/ m = 0
  BY <1>1, <1>2 DEF CalculateFee, Received
<1>3. CASE fee.bps > 0 /\ m > 0
  <2> DEFINE B == OneInBasisPoints
             a == DivCeil(m * fee.bps, B)
             b == DivCeil(n * fee.bps, B)
             k == n - m
  <2>1. /\ fee.bps \in Nat /\ fee.bps <= B /\ fee.maximum \in Nat /\ B \in Nat \ {0}
        /\ m * fee.bps \in Nat /\ n * fee.bps \in Nat /\ k \in Nat
    BY FeeFields
  <2>2. /\ a \in Nat /\ m * fee.bps <= a * B /\ a * B < m * fee.bps + B
        /\ b \in Nat /\ b * B < n * fee.bps + B
    BY <2>1, Ceil
  <2>3. n * fee.bps = m * fee.bps + k * fee.bps /\ k * fee.bps <= k * B
    BY <2>1
  <2>4. b * B < (a + k + 1) * B
    BY <2>1, <2>2, <2>3
  <2>5. b < a + k + 1
    BY <2>1, <2>2, <2>4, Monotone
  <2>6. /\ CalculateFee(fee, m) = Least(a, fee.maximum)
        /\ CalculateFee(fee, n) = Least(b, fee.maximum)
    BY <1>3 DEF CalculateFee
  <2>7. QED
    BY <1>1, <2>1, <2>2, <2>5, <2>6 DEF Received, Least
<1>4. QED
  BY <1>2, <1>3, FeeFields

(* A fee reaches k as soon as the rate passes k - 1.                       *)
LEMMA FeeReaches ==
  ASSUME NEW fee \in TransferFees, NEW n \in Nat \ {0}, NEW k \in Nat,
         fee.bps > 0, k <= fee.maximum, (k - 1) * OneInBasisPoints < n * fee.bps
  PROVE  k <= CalculateFee(fee, n)
<1> DEFINE B == OneInBasisPoints
           raw == DivCeil(n * fee.bps, B)
<1>1. /\ fee.bps \in Nat /\ fee.maximum \in Nat /\ B \in Nat \ {0} /\ n * fee.bps \in Nat
  BY FeeFields
<1>2. raw \in Nat /\ n * fee.bps <= raw * B
  BY <1>1, Ceil
<1>3. CASE k = 0
  BY <1>3, FeeOfAmount
<1>4. CASE k > 0
  <2>1. k - 1 \in Nat /\ (k - 1) * B < raw * B
    BY <1>1, <1>2, <1>4
  <2>2. k - 1 < raw
    BY <1>1, <1>2, <2>1, Monotone
  <2>3. CalculateFee(fee, n) = Least(raw, fee.maximum)
    BY DEF CalculateFee
  <2>4. QED
    BY <1>1, <1>2, <2>2, <2>3 DEF Least
<1>5. QED
  BY <1>3, <1>4

(* What is sent and does not reach p when one unit less is sent is the     *)
(* least that reaches it.                                                  *)
LEMMA LeastByOne ==
  ASSUME NEW fee \in TransferFees, NEW p \in Nat, NEW n \in Nat \ {0},
         Received(fee, n - 1) < p
  PROVE  \A less \in 0 .. n - 1 : Received(fee, less) < p
<1> SUFFICES ASSUME NEW less \in 0 .. n - 1 PROVE Received(fee, less) < p
  OBVIOUS
<1>1. n - 1 \in Nat /\ less \in Nat /\ less <= n - 1
  OBVIOUS
<1>2. /\ Received(fee, less) \in Nat /\ Received(fee, n - 1) \in Nat
      /\ Received(fee, less) <= Received(fee, n - 1)
  BY <1>1, ReceivedMonotone
<1>3. QED
  BY <1>2

-----------------------------------------------------------------------------
Delivers(fee, n, p) ==
  /\ n \in Nat
  /\ Received(fee, n) = p
  /\ \A less \in 0 .. n - 1 : Received(fee, less) < p

(* Below the whole: the inverse of the rate, and the cap when that is less.*)
LEMMA RateDelivers ==
  ASSUME NEW fee \in TransferFees, NEW p \in Nat \ {0},
         fee.bps > 0, fee.bps < OneInBasisPoints
  PROVE  LET raw == DivCeil(p * OneInBasisPoints, OneInBasisPoints - fee.bps)
         IN  IF raw - p >= fee.maximum THEN Delivers(fee, p + fee.maximum, p)
             ELSE Delivers(fee, raw, p)
<1> DEFINE B == OneInBasisPoints
           D == B - fee.bps
           raw == DivCeil(p * B, D)
<1>1. /\ fee.bps \in Nat /\ fee.maximum \in Nat /\ B \in Nat \ {0} /\ D \in Nat \ {0}
      /\ p * B \in Nat /\ D <= B
  BY FeeFields
<1>2. raw \in Nat /\ p * B <= raw * D /\ raw * D < p * B + D
  BY <1>1, Ceil
<1>3. raw * D = raw * B - raw * fee.bps
  BY <1>1, <1>2
<1>4. raw > 0
  BY <1>1, <1>2
<1>5. CASE raw - p >= fee.maximum
  <2> DEFINE n == p + fee.maximum
  <2>1. n \in Nat \ {0} /\ n <= raw
    BY <1>1, <1>2, <1>5
  <2>2. n * D <= raw * D
    BY <1>1, <1>2, <2>1, Monotone
  <2>3. n * D = p * B + fee.maximum * B - n * fee.bps
    BY <1>1
  <2>4. (fee.maximum - 1) * B = fee.maximum * B - B
    BY <1>1
  <2>5. (fee.maximum - 1) * B < n * fee.bps - fee.bps
    BY <1>1, <1>2, <2>1, <2>2, <2>3, <2>4
  <2>6. (n - 1) * fee.bps = n * fee.bps - fee.bps
    BY <1>1, <2>1
  <2>7. n * fee.bps \in Nat /\ (n - 1) * fee.bps \in Int /\ (fee.maximum - 1) * B \in Int
    BY <1>1, <2>1
  <2>8. Received(fee, n) = p
    <3>1. fee.maximum <= CalculateFee(fee, n)
      BY <1>1, <2>1, <2>5, <2>7, FeeReaches
    <3>2. CalculateFee(fee, n) <= fee.maximum
      BY <2>1, FeeCapped
    <3>3. QED
      BY <1>1, <2>1, <3>1, <3>2, FeeOfAmount DEF Received
  <2>9. Received(fee, n - 1) < p
    <3>1. CASE n = 1
      <4>1. fee.maximum = 0 /\ p = 1
        BY <1>1, <3>1
      <4>2. QED
        BY <3>1, <4>1 DEF Received, CalculateFee
    <3>2. CASE n > 1
      <4>1. n - 1 \in Nat \ {0}
        BY <2>1, <3>2
      <4>2. fee.maximum <= CalculateFee(fee, n - 1)
        BY <1>1, <4>1, <2>5, <2>6, FeeReaches
      <4>3. CalculateFee(fee, n - 1) \in 0 .. n - 1
        BY <4>1, FeeOfAmount
      <4>4. QED
        BY <1>1, <4>2, <4>3 DEF Received
    <3>3. QED
      BY <2>1, <3>1, <3>2
  <2>10. Delivers(fee, n, p)
    BY <2>1, <2>8, <2>9, LeastByOne DEF Delivers
  <2>11. QED
    BY <1>5, <2>10
<1>6. CASE raw - p < fee.maximum
  <2>1. p <= raw
    <3>1. p * D <= raw * D
      BY <1>1, <1>2
    <3>2. QED
      BY <1>1, <1>2, <3>1, Monotone
  <2> DEFINE k == raw - p
  <2>2. k \in Nat /\ k < fee.maximum /\ k * B = raw * B - p * B
    BY <1>1, <1>2, <1>6, <2>1
  <2>3. raw * fee.bps <= k * B /\ k * B < raw * fee.bps + B
    BY <1>1, <1>2, <1>3, <2>2
  <2>4. DivCeil(raw * fee.bps, B) = k
    BY <1>1, <1>2, <2>2, <2>3, CeilIs
  <2>5. Received(fee, raw) = p
    BY <1>1, <1>2, <1>4, <2>1, <2>2, <2>4 DEF Received, CalculateFee, Least
  <2>6. Received(fee, raw - 1) < p
    <3>1. CASE raw = 1
      BY <3>1 DEF Received, CalculateFee
    <3>2. CASE raw > 1
      <4>1. raw - 1 \in Nat \ {0}
        BY <1>2, <3>2
      <4>2. (k - 1) * B = k * B - B /\ (raw - 1) * fee.bps = raw * fee.bps - fee.bps
        BY <1>1, <1>2, <2>2
      <4>3. (k - 1) * B < (raw - 1) * fee.bps
        BY <1>1, <1>2, <1>3, <2>2, <4>2
      <4> DEFINE m == raw - 1
      <4>4. k <= CalculateFee(fee, m)
        <5>1. m \in Nat \ {0} /\ k \in Nat /\ k <= fee.maximum /\ (k - 1) * B < m * fee.bps
          BY <1>1, <2>2, <4>1, <4>3
        <5> HIDE DEF m, k
        <5>2. QED
          BY <5>1, FeeReaches
      <4>5. CalculateFee(fee, raw - 1) \in 0 .. raw - 1
        BY <4>1, FeeOfAmount
      <4>6. QED
        BY <1>1, <1>2, <4>4, <4>5 DEF Received
    <3>3. QED
      BY <1>2, <1>4, <3>1, <3>2
  <2>7. Delivers(fee, raw, p)
    BY <1>2, <1>4, <2>5, <2>6, LeastByOne DEF Delivers
  <2>8. ~(raw - p >= fee.maximum)
    BY <1>1, <1>2, <1>6
  <2>9. QED
    BY <2>7, <2>8
<1>7. QED
  BY <1>1, <1>2, <1>5, <1>6

(* At a rate of the whole the fee is the cap, or all there is.             *)
LEMMA WholeDelivers ==
  ASSUME NEW fee \in TransferFees, NEW p \in Nat \ {0}, fee.bps = OneInBasisPoints
  PROVE  Delivers(fee, p + fee.maximum, p)
<1> DEFINE B == OneInBasisPoints
           n == p + fee.maximum
<1>1. fee.maximum \in Nat /\ B \in Nat \ {0} /\ n \in Nat \ {0}
  BY FeeFields
<1>2. (fee.maximum - 1) * B < (n - 1) * B /\ (fee.maximum - 1) * B < n * B
  BY <1>1
<1>3. CalculateFee(fee, n) = fee.maximum
  <2>1. fee.maximum <= CalculateFee(fee, n)
    BY <1>1, <1>2, FeeReaches
  <2>2. CalculateFee(fee, n) <= fee.maximum
    BY <1>1, FeeCapped
  <2>3. CalculateFee(fee, n) \in Nat
    BY <1>1, FeeOfAmount
  <2>4. QED
    BY <1>1, <2>1, <2>2, <2>3
<1>4. Received(fee, n - 1) < p
  <2>1. CASE n = 1
    BY <2>1, <1>1 DEF Received, CalculateFee
  <2>2. CASE n > 1
    <3>1. n - 1 \in Nat \ {0}
      BY <1>1, <2>2
    <3>2. fee.maximum <= CalculateFee(fee, n - 1) /\ CalculateFee(fee, n - 1) \in 0 .. n - 1
      BY <1>1, <1>2, <3>1, FeeReaches, FeeOfAmount
    <3>3. QED
      BY <1>1, <3>2 DEF Received
  <2>3. QED
    BY <1>1, <2>1, <2>2
<1>5. QED
  BY <1>1, <1>3, <1>4, LeastByOne DEF Delivers, Received

(* Before its overflow check, ToSend is always the amount that delivers.   *)
LEMMA ToSendInverts ==
  ASSUME NEW fee \in TransferFees, NEW p \in Nat
  PROVE  \E n \in Nat : Delivers(fee, n, p) /\ ToSend(fee, p) \in {n, Checked(n)}
<1> DEFINE B == OneInBasisPoints
           raw == DivCeil(p * B, B - fee.bps)
<1>1. fee.bps \in Nat /\ fee.bps <= B /\ fee.maximum \in Nat /\ B \in Nat \ {0}
  BY FeeFields
<1>2. CASE fee.bps = 0 \/ p = 0
  <2>1. ToSend(fee, p) = p
    BY <1>2 DEF ToSend
  <2>2. \A n \in 0 .. p : Received(fee, n) = n
    BY <1>1, <1>2 DEF Received, CalculateFee
  <2>3. Delivers(fee, p, p)
    BY <2>2 DEF Delivers
  <2>4. QED
    BY <2>1, <2>3
<1>3. CASE fee.bps = B /\ p # 0
  <2>1. ToSend(fee, p) = Checked(p + fee.maximum)
    BY <1>1, <1>3 DEF ToSend
  <2>2. Delivers(fee, p + fee.maximum, p)
    BY <1>1, <1>3, WholeDelivers
  <2>3. QED
    BY <1>1, <2>1, <2>2
<1>4. CASE fee.bps # 0 /\ fee.bps # B /\ p # 0
  <2>1. ToSend(fee, p) = IF raw - p >= fee.maximum THEN Checked(p + fee.maximum)
                         ELSE Checked(raw)
    BY <1>1, <1>4 DEF ToSend
  <2>2. IF raw - p >= fee.maximum THEN Delivers(fee, p + fee.maximum, p)
        ELSE Delivers(fee, raw, p)
    BY <1>1, <1>4, RateDelivers
  <2>3. QED
    BY <1>1, <2>1, <2>2 DEF Delivers
<1>5. QED
  BY <1>2, <1>3, <1>4

(* What calculate_pre_fee_amount names, when it fits a u64, arrives as     *)
(* exactly the amount asked for, and no smaller amount arrives as much.    *)
THEOREM ToSendDelivers ==
  ASSUME NEW fee \in TransferFees, NEW p \in Nat, ToSend(fee, p) # Overflow
  PROVE  Delivers(fee, ToSend(fee, p), p)
<1>1. PICK n \in Nat : Delivers(fee, n, p) /\ ToSend(fee, p) \in {n, Checked(n)}
  BY ToSendInverts
<1>2. Checked(n) \in {n, Overflow}
  BY DEF Checked
<1>3. QED
  BY <1>1, <1>2

(* The quote of a partial fill (quote_exact_in): of an offer, the ladder   *)
(* used no more than reached it.  Then what the quote asks of the wallet   *)
(* never overflows and is within the offer, so the cap on it never binds,  *)
(* and it delivers exactly what the ladder used.                           *)
THEOREM QuotedInputDelivers ==
  ASSUME NEW fee \in TransferFees, NEW offer \in 0 .. U64Max,
         NEW used \in 0 .. Received(fee, offer)
  PROVE  /\ ToSend(fee, used) # Overflow
         /\ ToSend(fee, used) <= offer
         /\ Delivers(fee, Least(ToSend(fee, used), offer), used)
<1>1. offer \in Nat /\ U64Max \in Nat /\ offer <= U64Max
  BY ScaleAssumption
<1>2. Received(fee, offer) \in Nat
  BY <1>1, ReceivedMonotone
<1>3. used \in Nat /\ used <= Received(fee, offer)
  BY <1>2
<1>4. PICK n \in Nat : Delivers(fee, n, used) /\ ToSend(fee, used) \in {n, Checked(n)}
  BY <1>3, ToSendInverts
<1>5. n <= offer
  <2>1. SUFFICES ASSUME offer < n PROVE FALSE
    BY <1>1
  <2>2. offer \in 0 .. n - 1
    BY <1>1, <2>1
  <2>3. Received(fee, offer) < used
    BY <1>4, <2>2 DEF Delivers
  <2>4. QED
    BY <1>2, <1>3, <2>3
<1>6. ToSend(fee, used) = n
  BY <1>1, <1>4, <1>5 DEF Checked, FitsU64
<1>7. n # Overflow /\ Least(n, offer) = n
  BY <1>5 DEF Overflow, Least
<1>8. QED
  BY <1>4, <1>5, <1>6, <1>7
-----------------------------------------------------------------------------
(***************************************************************************)
(* What a quote asks of the wallet.                                        *)
(***************************************************************************)
HopTyped ==
  /\ present \subseteq ArrayIndexes
  /\ market \in Market /\ fees \in FeeState /\ idle \in Nat
  /\ mint \in MintPairs /\ epoch \in Nat

LEMMA MintTyped ==
  ASSUME NEW m \in MintPairs, NEW t \in Tokens, NEW e
  PROVE  /\ m[t].owner \in {"Token", "Token2022"}
         /\ m[t].older \in TransferFees /\ m[t].newer \in TransferFees
         /\ OfMint(m[t], e) \in TransferFees
<1>1. m \in [{"x", "y"} -> [owner : {"Token", "Token2022"}, older : TransferFees,
                            newer : TransferFees, turns : Nat]]
  BY HopAssumption
<1>2. m[t] \in [owner : {"Token", "Token2022"}, older : TransferFees,
                newer : TransferFees, turns : Nat]
  BY <1>1 DEF Tokens
<1>3. NoFee \in TransferFees
  BY BasisPointsAssumption, ScaleAssumption DEF NoFee, TransferFees
<1>4. QED
  BY <1>2, <1>3 DEF OfMint

LEMMA TypedInit == Init => HopTyped
<1> SUFFICES ASSUME Init PROVE HopTyped
  OBVIOUS
<1>1. market \in Market
  BY HopAssumption DEF Init, Market
<1>2. fees \in FeeState
  BY <1>1 DEF Init, Market, FeeState
<1>3. QED
  BY <1>1, <1>2 DEF Init, HopTyped

LEMMA WalkFromHere ==
  ASSUME HopTyped, NEW named, NEW budget \in Nat, NEW forY \in BOOLEAN
  PROVE  LET w == WalkLadder(market, fees, idle, named, budget, forY)
         IN  /\ w.market \in Market /\ w.fees \in FeeState
             /\ w.left \in 0 .. budget /\ w.left \in Nat /\ w.out \in Nat /\ w.fee \in Nat
<1>1. /\ WalkLadder(market, fees, idle, named, budget, forY) \in WalkState
      /\ WalkLadder(market, fees, idle, named, budget, forY).left \in 0 .. budget
  BY WalkResultTyped DEF HopTyped
<1>2. QED
  BY <1>1 DEF WalkState

Sent ==
  /\ quote.kind # "TransferFeeOverflow"
  /\ Quoted =>
    /\ quote.forY \in BOOLEAN /\ quote.offer \in Offers
    /\ quote.feeIn \in TransferFees /\ quote.used \in Nat
    /\ quote.used <= Received(quote.feeIn, quote.offer)
    /\ Delivers(quote.feeIn, quote.in, quote.used)

(* What quote_exact_in returns, for any offer and any schedules.           *)
LEMMA QuoteSends ==
  ASSUME HopTyped, NEW offer \in Offers, NEW forY \in BOOLEAN,
         NEW inFee \in TransferFees, NEW outFee
  PROVE  LET q == QuoteExactIn(offer, forY, inFee, outFee)
         IN  /\ q.kind # "TransferFeeOverflow"
             /\ q.kind = "quote" =>
                  /\ q.forY = forY /\ q.offer = offer /\ q.feeIn = inFee
                  /\ q.used \in 0 .. Received(inFee, offer)
                  /\ Delivers(inFee, q.in, q.used)
<1> DEFINE budget == Received(inFee, offer)
           walk == WalkLadder(market, fees, idle, Fetched, budget, forY)
           used == budget - walk.left
           q == QuoteExactIn(offer, forY, inFee, outFee)
<1>1. offer \in 0 .. U64Max /\ offer \in Nat
  BY HopAssumption, ScaleAssumption
<1>2. budget \in Nat
  BY <1>1, ReceivedMonotone
<1>3. walk.left \in 0 .. budget
  BY <1>2, WalkFromHere
<1>4. used \in 0 .. budget
  BY <1>2, <1>3
<1>5. /\ ToSend(inFee, used) # Overflow
      /\ Delivers(inFee, Least(ToSend(inFee, used), offer), used)
  BY <1>1, <1>4, QuotedInputDelivers
<1>6. \/ q = Refused("NoFill") \/ q = Refused("PoolDisabled")
      \/ q = [kind |-> "quote", forY |-> forY, offer |-> offer,
              in |-> Least(ToSend(inFee, used), offer), out |-> Received(outFee, walk.out),
              fee |-> walk.fee, feeInY |-> FeeInY(forY),
              used |-> used, sold |-> walk.out, after |-> walk.market,
              named |-> SwapArrays(forY), at |-> idle, feeIn |-> inFee]
  BY <1>5, Zenon DEF QuoteExactIn
<1> HIDE DEF budget, walk, used, q
<1>7. q.kind # "TransferFeeOverflow"
  BY <1>6 DEF Refused
<1>8. ASSUME q.kind = "quote"
      PROVE  /\ q.forY = forY /\ q.offer = offer /\ q.feeIn = inFee
             /\ q.used = used /\ q.in = Least(ToSend(inFee, used), offer)
  BY <1>6, <1>8 DEF Refused
<1>9. QED
  BY <1>4, <1>5, <1>7, <1>8 DEF budget, q

LEMMA SentQuote ==
  ASSUME HopTyped, Sent, NEW in \in Tokens \cup {"other"}, NEW out \in Tokens \cup {"other"},
         NEW offer \in Offers, Quote(in, out, offer)
  PROVE  HopTyped' /\ Sent'
<1>1. HopTyped'
  BY DEF Quote, HopTyped
<1>2. CASE ~IsPair(in, out)
  <2>1. quote' = [kind |-> "WrongMints"]
    BY <1>2 DEF Quote, Refused
  <2>2. QED
    BY <1>1, <2>1 DEF Sent, Quoted
<1>3. CASE IsPair(in, out)
  <2> DEFINE q == QuoteExactIn(offer, SwapForY(in), MintFee(in), MintFee(out))
  <2>1. in \in Tokens
    BY <1>3 DEF IsPair
  <2>2. SwapForY(in) \in BOOLEAN
    BY DEF SwapForY
  <2>3. MintFee(in) \in TransferFees
    BY <2>1, MintTyped DEF MintFee, HopTyped
  <2>4. quote' = q
    BY <1>3 DEF Quote
  <2>5. /\ q.kind # "TransferFeeOverflow"
        /\ q.kind = "quote" =>
             /\ q.forY = SwapForY(in) /\ q.offer = offer /\ q.feeIn = MintFee(in)
             /\ q.used \in 0 .. Received(MintFee(in), offer)
             /\ Delivers(MintFee(in), q.in, q.used)
    BY <2>2, <2>3, QuoteSends
  <2>6. offer \in Nat /\ Received(MintFee(in), offer) \in Nat
    BY <2>3, HopAssumption, ScaleAssumption, ReceivedMonotone
  <2> HIDE DEF q
  <2>7. QED
    BY <1>1, <2>2, <2>3, <2>4, <2>5, <2>6 DEF Sent, Quoted
<1>4. QED
  BY <1>2, <1>3

LEMMA InForceIsOfMint ==
  ASSUME NEW m \in MintPairs, NEW t \in Tokens, epoch \in Nat
  PROVE  InForce(m[t]) = OfMint(m[t], epoch)
<1>1. m \in [{"x", "y"} -> [owner : {"Token", "Token2022"}, older : TransferFees,
                            newer : TransferFees, turns : Nat]]
  BY HopAssumption
<1>2. m[t].owner \in {"Token", "Token2022"} /\ m[t].turns \in Nat
  BY <1>1 DEF Tokens
<1>3. QED
  BY <1>2 DEF InForce, OfMint, IsToken2022

(* A swap that settles has found a mint in each mint's place, so the       *)
(* budget it walks with is one.                                            *)
LEMMA SentSwap ==
  ASSUME HopTyped, Sent, NEW strict \in BOOLEAN, Swap(strict)
  PROVE  HopTyped' /\ Sent'
<1> DEFINE metas == SwapAccountMetas(quote.forY, quote.named)
           named == {metas[k].of : k \in FixedAccounts + 1 .. Len(metas)}
           inFee == InForce(mint[metas[IF quote.forY THEN 4 ELSE 5].of])
           outFee == InForce(mint[metas[IF quote.forY THEN 5 ELSE 4].of])
           amount == IF strict THEN quote.in ELSE quote.offer
           budget == Received(inFee, amount)
           walk == WalkLadder(market, fees, idle, named, budget, quote.forY)
           settles == /\ enabled /\ Accepts(metas)
                      /\ Received(outFee, walk.out) >= quote.out
                      /\ strict => walk.left = 0
<1>1. /\ market' = (IF settles THEN walk.market ELSE market)
      /\ fees' = (IF settles THEN walk.fees ELSE fees)
      /\ idle' = (IF settles THEN 0 ELSE idle)
      /\ UNCHANGED <<present, mint, epoch, quote>>
      /\ Quoted
  BY DEF Swap, Quoted
<1>2. CASE ~settles
  <2>1. UNCHANGED <<market, fees, idle>>
    BY <1>1, <1>2
  <2>2. QED
    BY <1>1, <2>1 DEF HopTyped, Sent, Quoted
<1>3. CASE settles
  <2>1. metas[4].of \in Tokens /\ metas[5].of \in Tokens
    BY <1>3 DEF Accepts
  <2>2. inFee \in TransferFees
    <3> DEFINE t == metas[IF quote.forY THEN 4 ELSE 5].of
    <3>1. t \in Tokens
      BY <2>1
    <3> HIDE DEF t
    <3>2. InForce(mint[t]) \in TransferFees
      BY <3>1, InForceIsOfMint, MintTyped DEF HopTyped
    <3>3. QED
      BY <3>2 DEF t
  <2>3. amount \in Nat /\ quote.forY \in BOOLEAN
    <3>1. Quoted
      BY <1>1
    <3>2. quote.in \in Nat /\ quote.offer \in Nat /\ quote.forY \in BOOLEAN
      <4>1. quote.offer \in Offers /\ quote.forY \in BOOLEAN /\ quote.in \in Nat
        BY <3>1 DEF Sent, Delivers
      <4>2. quote.offer \in 0 .. U64Max
        BY <4>1, HopAssumption
      <4>3. quote.offer \in Nat
        BY <4>2
      <4>4. QED
        BY <4>1, <4>3
    <3>3. QED
      BY <3>2
  <2> HIDE DEF inFee, amount, metas, named
  <2>4. budget \in Nat
    BY <2>2, <2>3, ReceivedMonotone
  <2> HIDE DEF budget
  <2>5. walk.market \in Market /\ walk.fees \in FeeState
    BY <2>3, <2>4, WalkFromHere
  <2> HIDE DEF walk
  <2>6. market' = walk.market /\ fees' = walk.fees /\ idle' = 0
    BY <1>1, <1>3
  <2>7. HopTyped'
    BY <1>1, <2>5, <2>6 DEF HopTyped
  <2>8. QED
    BY <1>1, <2>7 DEF Sent, Quoted
<1>4. QED
  BY <1>2, <1>3

LEMMA SentTrade ==
  ASSUME HopTyped, Sent, NEW forY \in BOOLEAN, NEW budget \in Trades, Trade(forY, budget)
  PROVE  HopTyped' /\ Sent'
<1> DEFINE walk == WalkLadder(market, fees, idle, present, budget, forY)
<1>1. budget \in Nat
  BY HopAssumption, ScaleAssumption
<1>2. walk.market \in Market /\ walk.fees \in FeeState
  BY <1>1, WalkFromHere
<1>3. /\ market' = walk.market /\ fees' = walk.fees /\ idle' = 0
      /\ UNCHANGED <<present, mint, epoch, quote>>
  BY DEF Trade
<1> HIDE DEF walk
<1>4. QED
  BY <1>2, <1>3 DEF HopTyped, Sent, Quoted

LEMMA SentStep == HopTyped /\ Sent /\ [Next]_vars => HopTyped' /\ Sent'
<1> SUFFICES ASSUME HopTyped, Sent, [Next]_vars PROVE HopTyped' /\ Sent'
  OBVIOUS
<1>1. ASSUME NEW in \in Tokens \cup {"other"}, NEW out \in Tokens \cup {"other"},
             NEW offer \in Offers, Quote(in, out, offer)
      PROVE  HopTyped' /\ Sent'
  BY <1>1, SentQuote
<1>2. ASSUME NEW strict \in BOOLEAN, Swap(strict) PROVE HopTyped' /\ Sent'
  BY <1>2, SentSwap
<1>3. ASSUME NEW forY \in BOOLEAN, NEW budget \in Trades, Trade(forY, budget)
      PROVE  HopTyped' /\ Sent'
  BY <1>3, SentTrade
<1>4. CASE Wait
  BY <1>4 DEF Wait, HopTyped, Sent, Quoted
<1>5. CASE EpochTurns
  BY <1>5 DEF EpochTurns, HopTyped, Sent, Quoted
<1>6. CASE SetStatus
  BY <1>6 DEF SetStatus, HopTyped, Sent, Quoted
<1>7. CASE UNCHANGED vars
  BY <1>7 DEF vars, HopTyped, Sent, Quoted
<1>8. QED
  BY <1>1, <1>2, <1>3, <1>4, <1>5, <1>6, <1>7 DEF Next

LEMMA SentAlways == Spec => [](HopTyped /\ Sent)
<1>1. Init => HopTyped /\ Sent
  BY TypedInit DEF Init, Sent, Quoted, NoQuote, Refused
<1>2. QED
  BY <1>1, SentStep, PTL DEF Spec

(* On a partial fill as on a full one, a quote asks of the wallet the      *)
(* least amount that delivers what the ladder used, and never fails to     *)
(* name it.                                                                *)
THEOREM QuoteAsksTheLeast == Spec => []LeastSent
<1>1. HopTyped /\ Sent => LeastSent
  BY DEF Sent, LeastSent, Delivers, Quoted
<1>2. QED
  BY <1>1, SentAlways, PTL

-----------------------------------------------------------------------------
(***************************************************************************)
(* The arrays a transaction names are all the walk can tell apart.         *)
(***************************************************************************)
LEMMA ArrayDivision ==
  ASSUME NEW b \in Int
  PROVE  /\ ArrayOf(b) \in Int
         /\ ArrayOf(b) * BinsPerArray <= b
         /\ b < ArrayOf(b) * BinsPerArray + BinsPerArray
<1>1. BinsPerArray \in Nat \ {0}
  BY LadderAssumption
<1>2. QED
  BY <1>1 DEF ArrayOf

LEMMA ArraysInOrder ==
  ASSUME NEW a \in Int, NEW b \in Int, a <= b
  PROVE  ArrayOf(a) \in Int /\ ArrayOf(b) \in Int /\ ArrayOf(a) <= ArrayOf(b)
<1> DEFINE i == ArrayOf(a)
           j == ArrayOf(b)
           B == BinsPerArray
<1>1. /\ i \in Int /\ j \in Int /\ B \in Nat \ {0}
      /\ i * B <= a /\ b < j * B + B
  BY ArrayDivision, LadderAssumption
<1> HIDE DEF i, j, B
<1>2. i * B < (j + 1) * B
  BY <1>1
<1>3. i < j + 1
  BY <1>1, <1>2
<1>4. QED
  BY <1>1, <1>3 DEF i, j

(* No array is missing between two arrays of the ladder.                   *)
LEMMA ArraysConvex ==
  ASSUME NEW i \in ArrayIndexes, NEW k \in ArrayIndexes, NEW j \in Int, i <= j, j <= k
  PROVE  j \in ArrayIndexes
<1>1. PICK a \in Bins : i = ArrayOf(a)
  BY DEF ArrayIndexes
<1>2. PICK b \in Bins : k = ArrayOf(b)
  BY DEF ArrayIndexes
<1>3. CASE i = j
  BY <1>3
<1>4. CASE i < j
  <2> DEFINE B == BinsPerArray
             c == j * B
  <2>1. /\ a \in Int /\ b \in Int /\ MinBin \in Int /\ MaxBin \in Int /\ B \in Nat \ {0}
        /\ MinBin <= a /\ b <= MaxBin
    BY LadderAssumption DEF Bins
  <2>2. i \in Int /\ k \in Int /\ a < i * B + B /\ k * B <= b
    BY <1>1, <1>2, <2>1, ArrayDivision
  <2> HIDE DEF B
  <2>3. (i + 1) * B <= j * B /\ j * B <= k * B /\ (i + 1) * B = i * B + B
    BY <1>4, <2>1, <2>2
  <2>4. c \in Int
    BY <2>1
  <2>5. MinBin <= c /\ c <= MaxBin
    <3> HIDE DEF c
    <3>1. c = j * B /\ i * B \in Int /\ k * B \in Int
      BY <2>1, <2>2 DEF c
    <3>2. QED
      BY <2>1, <2>2, <2>3, <2>4, <3>1
  <2>6. c \div B = j
    BY <2>1
  <2>7. c \in Bins
    BY <2>1, <2>4, <2>5 DEF Bins
  <2>8. ArrayOf(c) = j
    BY <2>6 DEF ArrayOf, B
  <2> HIDE DEF c
  <2>9. QED
    BY <2>7, <2>8 DEF ArrayIndexes
<1>5. i \in Int
  <2>1. a \in Int
    BY LadderAssumption DEF Bins
  <2>2. QED
    BY <1>1, <2>1, ArrayDivision
<1>6. QED
  BY <1>3, <1>4, <1>5

LEMMA ArrayIsIndex ==
  ASSUME NEW b \in Bins
  PROVE  b \in Int /\ ArrayOf(b) \in Int /\ ArrayOf(b) \in ArrayIndexes
<1>1. b \in Int
  BY LadderAssumption DEF Bins
<1>2. QED
  BY <1>1, ArrayDivision DEF ArrayIndexes

LEMMA IndexesAreInts == \A i \in ArrayIndexes : i \in Int
<1> SUFFICES ASSUME NEW i \in ArrayIndexes PROVE i \in Int
  OBVIOUS
<1>1. PICK b \in Bins : i = ArrayOf(b)
  BY DEF ArrayIndexes
<1>2. QED
  BY <1>1, ArrayIsIndex

(* b lies ahead of a, or there, in the direction of the swap.              *)
Ahead(b, a, forY) == IF forY THEN b <= a ELSE b >= a

(* An array is reached when it lies ahead and so does nothing missing.     *)
LEMMA ReachedIs ==
  ASSUME market \in Market, present \subseteq ArrayIndexes,
         NEW forY \in BOOLEAN, NEW i \in Int
  PROVE  i \in Reached(forY) <=>
           /\ i \in Fetched /\ Ahead(i, Home(market), forY)
           /\ \A j \in ArrayIndexes :
                Ahead(i, j, forY) /\ Ahead(j, Home(market), forY) => j \in Fetched
<1>1. Home(market) \in Int
  BY ArrayIsIndex DEF Home, Market
<1>2. \A j \in ArrayIndexes : j \in Int
  BY IndexesAreInts
<1> DEFINE h == Home(market)
<1> HIDE DEF h
<1>3. ASSUME NEW j \in ArrayIndexes, Ahead(i, h, forY)
      PROVE  Distance(i, j) + Distance(j, h) = Distance(i, h)
               <=> Ahead(i, j, forY) /\ Ahead(j, h, forY)
  <2>1. i \in Int /\ j \in Int /\ h \in Int
    BY <1>1, <1>2 DEF h
  <2>2. CASE forY
    BY <1>3, <2>1, <2>2 DEF Distance, Ahead
  <2>3. CASE ~forY
    BY <1>3, <2>1, <2>3 DEF Distance, Ahead
  <2>4. QED
    BY <2>2, <2>3
<1>4. i \in Reached(forY) <=>
        /\ i \in Fetched /\ Ahead(i, h, forY)
        /\ \A j \in ArrayIndexes :
             Distance(i, j) + Distance(j, h) = Distance(i, h) => j \in Fetched
  BY DEF Reached, Ahead, h
<1>5. QED
  BY <1>3, <1>4 DEF h

(* A turn stays in its bin, or moves one step on from a bin whose array is *)
(* there.                                                                  *)
LEMMA TurnMoves ==
  ASSUME NEW v \in WalkState, NEW forY \in BOOLEAN, NEW named
  PROVE  LET b == v.market.active
             c == Turn(v, forY, named).market.active
         IN  c = b \/ (c = b + Step(forY) /\ ArrayOf(b) \in named)
<1> DEFINE stopped == [v EXCEPT !.fees = TurnFees(v)]
           filled == FillBin(v, TurnFees(v), TurnFill(v, forY), forY)
<1>1. /\ stopped \in WalkState /\ stopped.market = v.market
      /\ filled \in WalkState /\ filled.market.active = v.market.active
  BY WalkFields, FillBinFields DEF WalkState
<1>2. Turn(v, forY, named) =
        IF Halted(v, named) THEN Stop(v)
        ELSE IF Available(v.market, forY) = 0 THEN MoveOn(v, forY)
        ELSE IF TurnFill(v, forY) = NoSwap THEN Stop(stopped)
        ELSE MoveOn(filled, forY)
  BY TurnCases
<1> HIDE DEF stopped, filled
<1>3. /\ Stop(v).market = v.market /\ Stop(stopped).market = stopped.market
      /\ MoveOn(v, forY).market.active \in {v.market.active, v.market.active + Step(forY)}
      /\ MoveOn(filled, forY).market.active
           \in {v.market.active, v.market.active + Step(forY)}
  BY <1>1, StopFields, MoveOnFields
<1>4. CASE Halted(v, named)
  BY <1>2, <1>3, <1>4
<1>5. CASE ~Halted(v, named)
  <2>1. ArrayOf(v.market.active) \in named
    BY <1>5 DEF Halted
  <2>2. QED
    BY <1>1, <1>2, <1>3, <1>5, <2>1
<1>6. QED
  BY <1>4, <1>5

(* Where a walk from here can be: every bin it has left behind is in an    *)
(* array that was fetched.                                                 *)
OnTheWay(b, forY) ==
  /\ Ahead(b, market.active, forY)
  /\ \A c \in Bins : Ahead(b, c, forY) /\ Ahead(c, market.active, forY) /\ c # b
                       => ArrayOf(c) \in Fetched

LEMMA ReachedOnTheWay ==
  ASSUME market \in Market, present \subseteq ArrayIndexes, NEW forY \in BOOLEAN,
         NEW b \in Bins, OnTheWay(b, forY)
  PROVE  ArrayOf(b) \in Reached(forY) <=> ArrayOf(b) \in Fetched
<1> DEFINE a == market.active
           h == Home(market)
           i == ArrayOf(b)
<1>1. a \in Bins /\ a \in Int /\ b \in Int /\ h = ArrayOf(a) /\ h \in Int /\ i \in Int
  BY ArrayIsIndex DEF Market, Home
<1>2. Ahead(b, a, forY)
  BY DEF OnTheWay
<1>3. Ahead(i, h, forY)
  BY <1>1, <1>2, ArraysInOrder DEF Ahead
<1>4. ASSUME i \in Fetched,
             NEW j \in ArrayIndexes, Ahead(i, j, forY), Ahead(j, h, forY)
      PROVE  j \in Fetched
  <2>1. PICK c \in Bins : j = ArrayOf(c)
    BY DEF ArrayIndexes
  <2>2. c \in Int /\ j \in Int
    BY <2>1, ArrayIsIndex
  <2>3. CASE j = i
    BY <1>4, <2>3
  <2>4. CASE j # i /\ Ahead(c, a, forY)
    <3>1. Ahead(b, c, forY) /\ c # b
      <4>1. CASE ~Ahead(b, c, forY)
        <5>1. Ahead(c, b, forY)
          BY <1>1, <2>2, <4>1 DEF Ahead
        <5>2. Ahead(j, i, forY)
          BY <1>1, <2>1, <2>2, <5>1, ArraysInOrder DEF Ahead
        <5>3. j = i
          BY <1>1, <1>4, <2>2, <5>2 DEF Ahead
        <5>4. QED
          BY <2>4, <5>3
      <4>2. QED
        BY <2>1, <2>4, <4>1
    <3>2. QED
      BY <2>1, <2>4, <3>1 DEF OnTheWay
  <2>5. CASE j # i /\ ~Ahead(c, a, forY)
    <3>1. Ahead(a, c, forY)
      BY <1>1, <2>2, <2>5 DEF Ahead
    <3>2. Ahead(h, j, forY)
      BY <1>1, <2>1, <2>2, <3>1, ArraysInOrder DEF Ahead
    <3>3. j = h
      BY <1>1, <1>4, <2>2, <3>2 DEF Ahead
    <3>4. a # b
      BY <1>1, <2>5, <3>3
    <3>5. Ahead(a, a, forY)
      BY <1>1 DEF Ahead
    <3>6. QED
      BY <1>1, <1>2, <3>3, <3>4, <3>5 DEF OnTheWay
  <2>6. QED
    BY <2>3, <2>4, <2>5
<1> HIDE DEF i, h
<1>5. i \in Reached(forY) <=>
        /\ i \in Fetched /\ Ahead(i, h, forY)
        /\ \A j \in ArrayIndexes :
             Ahead(i, j, forY) /\ Ahead(j, h, forY) => j \in Fetched
  BY <1>1, ReachedIs DEF h
<1>6. QED
  BY <1>3, <1>4, <1>5 DEF i

LEMMA ReachedSuffices ==
  ASSUME HopTyped, NEW forY \in BOOLEAN, NEW budget \in Nat
  PROVE  WalkLadder(market, fees, idle, Reached(forY), budget, forY) =
           WalkLadder(market, fees, idle, Fetched, budget, forY)
<1> DEFINE S == {v \in WalkState : OnTheWay(v.market.active, forY)}
           start == Start(market, fees, idle, budget)
           a == market.active
<1>1. market \in Market /\ present \subseteq ArrayIndexes /\ a \in Bins /\ a \in Int
  BY ArrayIsIndex DEF HopTyped, Market
<1>2. \A b \in Bins : b \in Int
  BY ArrayIsIndex
<1>3. start \in S
  <2>1. start \in WalkState
    BY StartTyped DEF HopTyped
  <2>2. start.market.active = a
    BY DEF Start
  <2>3. OnTheWay(a, forY)
    BY <1>1, <1>2 DEF OnTheWay, Ahead
  <2> HIDE DEF start
  <2>4. QED
    BY <2>1, <2>2, <2>3
<1>4. ASSUME NEW v \in S
      PROVE  /\ Turn(v, forY, Fetched) \in S
             /\ Turn(v, forY, Reached(forY)) = Turn(v, forY, Fetched)
  <2> DEFINE b == v.market.active
             next == Turn(v, forY, Fetched)
             c == next.market.active
  <2>1. v \in WalkState /\ b \in Bins /\ b \in Int /\ OnTheWay(b, forY)
    BY <1>2, WalkFields
  <2>2. next \in WalkState /\ c \in Bins /\ c \in Int
    <3>1. next \in WalkState
      BY <2>1, TurnTyped
    <3> HIDE DEF next
    <3>2. QED
      BY <1>2, <3>1, WalkFields
  <2>3. c = b \/ (c = b + Step(forY) /\ ArrayOf(b) \in Fetched)
    BY <2>1, TurnMoves
  <2> HIDE DEF b, next, c, S, a
  <2>4. c = b => next \in S
    BY <2>1, <2>2 DEF S, c
  <2>5. ASSUME c = b + Step(forY), ArrayOf(b) \in Fetched PROVE next \in S
    <3>1. Ahead(b, a, forY) /\ Ahead(c, a, forY)
      BY <1>1, <2>1, <2>2, <2>5 DEF OnTheWay, Ahead, Step, a
    <3>2. ASSUME NEW d \in Bins, Ahead(c, d, forY), Ahead(d, a, forY), d # c
          PROVE  ArrayOf(d) \in Fetched
      <4>1. d = b \/ (d # b /\ Ahead(b, d, forY))
        BY <1>2, <2>1, <2>2, <2>5, <3>2 DEF Ahead, Step
      <4>2. QED
        BY <2>1, <2>5, <3>2, <4>1 DEF OnTheWay, a
    <3>3. OnTheWay(c, forY)
      BY <3>1, <3>2 DEF OnTheWay, a
    <3>4. QED
      BY <2>1, <2>2, <3>3 DEF S, c
  <2>6. Turn(v, forY, Reached(forY)) = next
    <3>1. ArrayOf(b) \in Reached(forY) <=> ArrayOf(b) \in Fetched
      BY <1>1, <2>1, ReachedOnTheWay
    <3>2. Halted(v, Reached(forY)) <=> Halted(v, Fetched)
      BY <3>1 DEF Halted, b
    <3>3. QED
      BY <3>2, TurnCases, Zenon DEF next
  <2>7. QED
    BY <2>3, <2>4, <2>5, <2>6 DEF next
<1> HIDE DEF S
<1>5. QED
  BY <1>3, <1>4, WalkTellsNotApart

LEMMA LeastMember ==
  ASSUME NEW S \in SUBSET Nat, S # {}
  PROVE  \E n \in S : \A k \in 0 .. n - 1 : k \notin S
<1>1. PICK n \in S : \A k \in S : ~(<<k, n>> \in OpToRel(<, Nat))
  BY NatLessThanWellFounded, WFMin
<1>2. \A k \in S : ~(k < n)
  BY <1>1, Zenon DEF OpToRel
<1>3. QED
  BY <1>2

(* swap_array_indexes names each array reached, and no other.              *)
LEMMA NamedAreReached ==
  ASSUME HopTyped, NEW forY \in BOOLEAN
  PROVE  /\ SwapArrays(forY) \in Seq(Int)
         /\ {SwapArrays(forY)[k] : k \in 1 .. Len(SwapArrays(forY))} = Reached(forY)
<1> DEFINE h == Home(market)
           at(k) == h + Step(forY) * k
           R == Reached(forY)
           S == {k \in Nat : at(k) \notin R}
<1>1. /\ market \in Market /\ present \subseteq ArrayIndexes /\ h \in ArrayIndexes
      /\ h \in Int /\ Reach \in Nat \ {0}
  BY ArrayIsIndex, HopAssumption DEF HopTyped, Market, Home
<1>2. \A k \in Nat : /\ at(k) \in Int /\ Ahead(at(k), h, forY) /\ Distance(at(k), h) = k
  BY <1>1 DEF Step, Ahead, Distance
<1>3. \A i \in R : /\ i \in Fetched /\ i \in ArrayIndexes /\ i \in Int /\ Ahead(i, h, forY)
                   /\ Distance(i, h) \in Nat /\ at(Distance(i, h)) = i
  <2> SUFFICES ASSUME NEW i \in R
               PROVE  /\ i \in Fetched /\ i \in ArrayIndexes /\ i \in Int /\ Ahead(i, h, forY)
                      /\ Distance(i, h) \in Nat /\ at(Distance(i, h)) = i
    OBVIOUS
  <2>1. i \in Fetched /\ i \in ArrayIndexes
    BY <1>1 DEF Reached, Fetched
  <2>2. i \in Int
    BY <2>1, IndexesAreInts
  <2>3. Ahead(i, h, forY)
    BY DEF Reached, Ahead
  <2> HIDE DEF R, h
  <2>4. Distance(i, h) \in Nat /\ at(Distance(i, h)) = i
    BY <1>1, <2>2, <2>3 DEF Distance, Ahead, Step
  <2>5. QED
    BY <2>1, <2>2, <2>3, <2>4
<1>4. Reach \in S
  <2>1. at(Reach) \in Int /\ Distance(at(Reach), h) = Reach
    BY <1>1, <1>2
  <2>2. at(Reach) \notin Fetched
    BY <1>1, <2>1 DEF Fetched, h
  <2> HIDE DEF at, R
  <2>3. QED
    BY <1>1, <1>3, <2>2
<1>5. PICK n \in S : \A k \in 0 .. n - 1 : k \notin S
  <2>1. S \in SUBSET Nat
    OBVIOUS
  <2> HIDE DEF S
  <2>2. QED
    BY <1>4, <2>1, LeastMember
<1>6. n \in Nat /\ at(n) \notin R /\ \A k \in 0 .. n - 1 : at(k) \in R
  <2> HIDE DEF at, R
  <2>1. QED
    BY <1>5
<1>7. ASSUME NEW i \in R PROVE Distance(i, h) \in 0 .. n - 1
  <2> DEFINE k == Distance(i, h)
             j == at(n)
  <2>1. i \in Int /\ k \in Nat /\ at(k) = i /\ i \in ArrayIndexes /\ j \in Int
    BY <1>2, <1>3, <1>6
  <2>2. ASSUME k >= n PROVE FALSE
    <3>1. Ahead(i, j, forY) /\ Ahead(j, h, forY)
      <4> HIDE DEF k, h
      <4>1. QED
        BY <1>1, <1>6, <2>1, <2>2 DEF Step, Ahead
    <3> HIDE DEF at, R, h, k, j
    <3>2. j \in ArrayIndexes
      BY <1>1, <2>1, <3>1, ArraysConvex DEF Ahead
    <3>3. \A l \in ArrayIndexes : Ahead(i, l, forY) /\ Ahead(l, h, forY) => l \in Fetched
      BY <1>1, <2>1, ReachedIs DEF R, h
    <3>4. ASSUME NEW l \in ArrayIndexes, Ahead(j, l, forY), Ahead(l, h, forY)
          PROVE  l \in Fetched
      <4>1. l \in Int
        BY IndexesAreInts
      <4>2. Ahead(i, l, forY)
        BY <2>1, <3>1, <3>4, <4>1 DEF Ahead
      <4>3. QED
        BY <3>3, <3>4, <4>2
    <3>5. j \in Fetched
      BY <3>1, <3>2, <3>3
    <3>6. j \in R
      BY <1>1, <2>1, <3>1, <3>4, <3>5, ReachedIs DEF R, h
    <3>7. QED
      BY <1>6, <3>6 DEF j
  <2> HIDE DEF k
  <2>3. QED
    BY <1>6, <2>1, <2>2 DEF k
<1>8. R = {at(k) : k \in 0 .. n - 1}
  <2> HIDE DEF R
  <2>1. \A i \in R : i \in {at(k) : k \in 0 .. n - 1}
    <3> HIDE DEF at
    <3>1. QED
      BY <1>3, <1>7
  <2>2. QED
    BY <1>6, <2>1
<1>9. Cardinality(R) = n
  <2> DEFINE low == IF forY THEN h - n + 1 ELSE h
             high == IF forY THEN h ELSE h + n - 1
  <2>1. low \in Int /\ high \in Int /\ (IF low > high THEN 0 ELSE high - low + 1) = n
    <3> HIDE DEF h
    <3>1. QED
      BY <1>1, <1>6
  <2>2. R = low .. high
    <3> HIDE DEF h, R
    <3>1. {at(k) : k \in 0 .. n - 1} \subseteq low .. high
      BY <1>1, <1>6 DEF Step
    <3>2. ASSUME NEW i \in low .. high PROVE i \in {at(k) : k \in 0 .. n - 1}
      <4> DEFINE k == IF forY THEN h - i ELSE i - h
      <4>1. k \in 0 .. n - 1 /\ at(k) = i
        BY <1>1, <1>6 DEF Step
      <4> HIDE DEF k, at
      <4>2. QED
        BY <4>1
    <3> HIDE DEF at, low, high
    <3>3. QED
      BY <1>8, <3>1, <3>2
  <2> HIDE DEF low, high, R
  <2>3. QED
    BY <2>1, <2>2, FS_Interval
<1> DEFINE names == SwapArrays(forY)
<1>10. names = [k \in 1 .. n |-> at(k - 1)]
  BY <1>9 DEF SwapArrays
<1> HIDE DEF R, names, h
<1>11. names \in Seq(Int) /\ Len(names) = n
  BY <1>1, <1>6, <1>10 DEF Step
<1>12. {names[k] : k \in 1 .. n} = {at(k) : k \in 0 .. n - 1}
  <2> HIDE DEF at
  <2>1. \A k \in 1 .. n : names[k] = at(k - 1) /\ k - 1 \in 0 .. n - 1
    BY <1>6, <1>10
  <2>2. \A k \in 0 .. n - 1 : k + 1 \in 1 .. n /\ names[k + 1] = at(k)
    BY <1>6, <1>10
  <2>3. QED
    BY <2>1, <2>2
<1>13. QED
  BY <1>8, <1>11, <1>12 DEF R, names

-----------------------------------------------------------------------------
(***************************************************************************)
(* The accounts of a transaction, in the places the program looks in.      *)
(***************************************************************************)
Owners == {"Token", "Token2022"}
Metas ==
  [what : {"user", "pool", "config", "mint", "token", "reserve", "program", "bin array"},
   of : {"signer", "pool", "config", "x", "y", "Token", "Token2022"} \cup Int,
   writable : BOOLEAN]

LEMMA Concatenated ==
  ASSUME NEW s \in Seq(Metas), NEW t \in Seq(Metas)
  PROVE  /\ s \o t \in Seq(Metas) /\ Len(s \o t) = Len(s) + Len(t)
         /\ \A k \in 1 .. Len(s) : (s \o t)[k] = s[k]
         /\ \A k \in 1 .. Len(t) : (s \o t)[Len(s) + k] = t[k]
  OBVIOUS

LEMMA Listed ==
  ASSUME NEW S, NEW n \in Nat, NEW f, \A k \in 1 .. n : f[k] \in S, f = [k \in 1 .. n |-> f[k]]
  PROVE  f \in Seq(S) /\ Len(f) = n
  OBVIOUS

LEMMA Accounts ==
  ASSUME NEW forY \in BOOLEAN, NEW named \in Seq(Int),
         mint["x"].owner \in Owners, mint["y"].owner \in Owners
  PROVE  LET metas == SwapAccountMetas(forY, named)
         IN  /\ Len(metas) = 11 + Len(named)
             /\ metas[4].of = "x" /\ metas[5].of = "y"
             /\ metas[10].of = mint["x"].owner /\ metas[11].of = mint["y"].owner
             /\ \A k \in {2, 6, 7, 8, 9} : metas[k].writable
             /\ \A k \in 1 .. Len(named) : /\ metas[11 + k].writable
                                            /\ metas[11 + k].of = named[k]
<1> DEFINE A == <<Meta("user", "signer", FALSE), Meta("pool", "pool", TRUE),
                  Meta("config", "config", FALSE)>>
           B == MintsBySide(forY)
           C == <<Meta("token", SourceOf(forY), TRUE), Meta("token", SinkOf(forY), TRUE),
                  Meta("reserve", "x", TRUE), Meta("reserve", "y", TRUE),
                  Meta("program", TokenProgram("x"), FALSE),
                  Meta("program", TokenProgram("y"), FALSE)>>
           D == [k \in 1 .. Len(named) |-> Meta("bin array", named[k], TRUE)]
           AB == A \o B
           ABC == AB \o C
           all == ABC \o D
<1>1. A \in Seq(Metas) /\ Len(A) = 3 /\ A[2].writable
  BY DEF Meta, Metas
<1>2. B \in Seq(Metas) /\ Len(B) = 2 /\ B[1].of = "x" /\ B[2].of = "y"
  BY DEF Meta, Metas, MintsBySide
<1>3. /\ C \in Seq(Metas) /\ Len(C) = 6
      /\ C[1].writable /\ C[2].writable /\ C[3].writable /\ C[4].writable
      /\ C[5].of = mint["x"].owner /\ C[6].of = mint["y"].owner
  BY DEF Meta, Metas, SourceOf, SinkOf, TokenProgram, Owners
<1>4. /\ D \in Seq(Metas) /\ Len(D) = Len(named)
      /\ \A k \in 1 .. Len(named) : D[k].writable /\ D[k].of = named[k]
  <2>1. Len(named) \in Nat
    OBVIOUS
  <2>2. \A k \in 1 .. Len(named) : named[k] \in Int
    OBVIOUS
  <2>3. \A k \in 1 .. Len(named) :
          D[k] \in Metas /\ D[k].writable /\ D[k].of = named[k]
    BY <2>2 DEF Meta, Metas
  <2>4. D = [k \in 1 .. Len(named) |-> D[k]]
    BY Zenon
  <2> HIDE DEF D
  <2>5. D \in Seq(Metas) /\ Len(D) = Len(named)
    BY <2>1, <2>3, <2>4, Listed
  <2>6. QED
    BY <2>3, <2>5
<1> HIDE DEF A, B, C, D
<1>5. /\ AB \in Seq(Metas) /\ Len(AB) = Len(A) + Len(B)
      /\ \A k \in 1 .. Len(A) : AB[k] = A[k]
      /\ \A k \in 1 .. Len(B) : AB[Len(A) + k] = B[k]
  BY <1>1, <1>2, Concatenated
<1> HIDE DEF AB
<1>6. Len(AB) = 5 /\ AB[2] = A[2] /\ AB[4] = B[1] /\ AB[5] = B[2]
  BY <1>1, <1>2, <1>5
<1>7. /\ ABC \in Seq(Metas) /\ Len(ABC) = Len(AB) + Len(C)
      /\ \A k \in 1 .. Len(AB) : ABC[k] = AB[k]
      /\ \A k \in 1 .. Len(C) : ABC[Len(AB) + k] = C[k]
  BY <1>3, <1>5, Concatenated
<1> HIDE DEF ABC
<1>8. /\ Len(ABC) = 11 /\ ABC[2] = A[2] /\ ABC[4] = B[1] /\ ABC[5] = B[2]
      /\ ABC[6] = C[1] /\ ABC[7] = C[2] /\ ABC[8] = C[3] /\ ABC[9] = C[4]
      /\ ABC[10] = C[5] /\ ABC[11] = C[6]
  BY <1>3, <1>6, <1>7
<1>9. /\ all \in Seq(Metas) /\ Len(all) = Len(ABC) + Len(D)
      /\ \A k \in 1 .. Len(ABC) : all[k] = ABC[k]
      /\ \A k \in 1 .. Len(D) : all[Len(ABC) + k] = D[k]
  BY <1>4, <1>7, Concatenated
<1>10. SwapAccountMetas(forY, named) = all
  BY DEF SwapAccountMetas, all, ABC, AB, A, B, C, D
<1> HIDE DEF all
<1>11. /\ all[2] = A[2] /\ all[4] = B[1] /\ all[5] = B[2]
       /\ all[6] = C[1] /\ all[7] = C[2] /\ all[8] = C[3] /\ all[9] = C[4]
       /\ all[10] = C[5] /\ all[11] = C[6]
  BY <1>8, <1>9
<1>12. /\ Len(all) = 11 + Len(named)
       /\ \A k \in 1 .. Len(named) : all[11 + k] = D[k]
  BY <1>4, <1>8, <1>9
<1>13. \A k \in {2, 6, 7, 8, 9} : all[k].writable
  <2>1. all[2].writable
    BY <1>1, <1>11
  <2>2. all[6].writable /\ all[7].writable /\ all[8].writable /\ all[9].writable
    BY <1>3, <1>11
  <2>3. QED
    BY <2>1, <2>2
<1>14. all[4].of = "x" /\ all[5].of = "y"
  BY <1>2, <1>11
<1>15. all[10].of = mint["x"].owner /\ all[11].of = mint["y"].owner
  BY <1>3, <1>11
<1>16. \A k \in 1 .. Len(named) : all[11 + k].writable /\ all[11 + k].of = named[k]
  BY <1>4, <1>12
<1>17. QED
  BY <1>10, <1>12, <1>13, <1>14, <1>15, <1>16

-----------------------------------------------------------------------------
(***************************************************************************)
(* What was quoted is what the swap does.                                  *)
(***************************************************************************)
(* The quote held is the one the adapter would give now, but for the time  *)
(* the pool has idled.                                                     *)
Current ==
  LET forY == quote.forY
      inFee == MintFee(SourceOf(forY))
      budget == Received(inFee, quote.offer)
      walk == WalkLadder(market, fees, quote.at, Fetched, budget, forY)
  IN  /\ quote.at \in Nat /\ quote.at <= idle /\ quote.feeIn = inFee
      /\ quote.used = budget - walk.left /\ quote.sold = walk.out /\ quote.fee = walk.fee
      /\ quote.in = Least(ToSend(inFee, quote.used), quote.offer)
      /\ quote.out = Received(MintFee(SinkOf(forY)), walk.out)
      /\ quote.after = walk.market /\ quote.feeInY = FeeInY(forY)
      /\ quote.named = SwapArrays(forY)

Fresh ==
  /\ outcome # Pending => Quoted
  /\ Quoted /\ since \subseteq {"wait"} /\ outcome = Pending =>
       Current /\ (since = {} => quote.at = idle)

LEMMA CurrentStays ==
  ASSUME UNCHANGED <<present, market, fees, mint, epoch, quote>>, Current,
         idle \in Nat, idle' \in Nat, idle <= idle'
  PROVE  Current'
<1>1. quote.at \in Nat /\ quote.at <= idle
  BY Zenon DEF Current
<1>2. quote'.at = quote.at
  OBVIOUS
<1>3. quote'.at \in Nat /\ quote'.at <= idle'
  <2> HIDE DEF Current
  <2>1. QED
    BY <1>1, <1>2
<1>4. QED
  BY <1>3, Zenon DEF Current, MintFee, SwapArrays, Reached, Fetched, Home

(* quote_exact_in gives a current quote, or none.                          *)
LEMMA QuoteIsCurrent ==
  ASSUME HopTyped, Fresh, NEW in \in Tokens \cup {"other"}, NEW out \in Tokens \cup {"other"},
         NEW offer \in Offers, Quote(in, out, offer)
  PROVE  Fresh'
<1>1. quote = NoQuote /\ outcome = Pending /\ outcome' = Pending
      /\ UNCHANGED <<present, market, fees, idle, mint, epoch>>
  BY DEF Quote, Fresh, Quoted, NoQuote, Refused
<1>2. CASE ~IsPair(in, out)
  <2>1. quote' = [kind |-> "WrongMints"]
    BY <1>2 DEF Quote, Refused
  <2>2. QED
    BY <1>1, <2>1 DEF Fresh, Quoted, Pending
<1>3. CASE IsPair(in, out)
  <2> DEFINE forY == SwapForY(in)
             inFee == MintFee(SourceOf(forY))
             outFee == MintFee(SinkOf(forY))
             budget == Received(inFee, offer)
             walk == WalkLadder(market, fees, idle, Fetched, budget, forY)
             used == budget - walk.left
             send == ToSend(inFee, used)
  <2>1. in = SourceOf(forY) /\ out = SinkOf(forY) /\ forY \in BOOLEAN
    <3>1. (in = "x" /\ out = "y") \/ (in = "y" /\ out = "x")
      BY <1>3 DEF IsPair, Tokens
    <3>2. QED
      BY <3>1 DEF SwapForY, SourceOf, SinkOf
  <2>2. quote' = QuoteExactIn(offer, forY, inFee, outFee)
    BY <1>3, <2>1 DEF Quote
  <2>3. \/ quote' = Refused("NoFill") \/ quote' = Refused("PoolDisabled")
        \/ quote' = Refused("TransferFeeOverflow")
        \/ quote' = [kind |-> "quote", forY |-> forY, offer |-> offer,
                     in |-> Least(send, offer), out |-> Received(outFee, walk.out),
                     fee |-> walk.fee, feeInY |-> FeeInY(forY),
                     used |-> used, sold |-> walk.out, after |-> walk.market,
                     named |-> SwapArrays(forY), at |-> idle, feeIn |-> inFee]
    BY <2>2, Zenon DEF QuoteExactIn
  <2>4. ASSUME quote'.kind = "quote" PROVE Current' /\ quote'.at = idle'
    <3>1. /\ quote'.forY = forY /\ quote'.offer = offer /\ quote'.feeIn = inFee
          /\ quote'.used = used /\ quote'.sold = walk.out /\ quote'.fee = walk.fee
          /\ quote'.in = Least(send, offer) /\ quote'.out = Received(outFee, walk.out)
          /\ quote'.after = walk.market /\ quote'.feeInY = FeeInY(forY)
          /\ quote'.named = SwapArrays(forY) /\ quote'.at = idle
      <4> HIDE DEF forY, inFee, outFee, walk, used, send
      <4>1. QED
        BY <2>3, <2>4 DEF Refused
    <3>2. /\ MintFee(SourceOf(forY))' = inFee /\ MintFee(SinkOf(forY))' = outFee
          /\ SwapArrays(forY)' = SwapArrays(forY) /\ Fetched' = Fetched
      BY <1>1, Zenon DEF MintFee, SwapArrays, Reached, Fetched, Home
    <3>3. quote'.at \in Nat /\ quote'.at <= idle' /\ quote'.at = idle'
      BY <1>1, <3>1 DEF HopTyped
    <3>4. QED
      BY <1>1, <3>1, <3>2, <3>3, Zenon DEF Current
  <2>5. QED
    BY <1>1, <2>4 DEF Fresh, Quoted
<1>4. QED
  BY <1>2, <1>3

(* The program finds every account in its place, and the arrays the quote  *)
(* walked.                                                                 *)
LEMMA AccountsAreAccepted ==
  ASSUME HopTyped, NEW forY \in BOOLEAN
  PROVE  LET metas == SwapAccountMetas(forY, SwapArrays(forY))
         IN  /\ Accepts(metas)
             /\ {metas[k].of : k \in FixedAccounts + 1 .. Len(metas)} = Reached(forY)
             /\ metas[IF forY THEN 4 ELSE 5].of = SourceOf(forY)
             /\ metas[IF forY THEN 5 ELSE 4].of = SinkOf(forY)
<1> DEFINE named == SwapArrays(forY)
           metas == SwapAccountMetas(forY, named)
           n == Len(named)
<1>1. named \in Seq(Int) /\ {named[k] : k \in 1 .. n} = Reached(forY)
  BY NamedAreReached
<1>2. mint["x"].owner \in Owners /\ mint["y"].owner \in Owners
  BY MintTyped DEF HopTyped, Owners, Tokens
<1> HIDE DEF named, metas
<1>3. n \in Nat
  BY <1>1
<1>4. /\ Len(metas) = 11 + n
      /\ metas[4].of = "x" /\ metas[5].of = "y"
      /\ metas[10].of = mint["x"].owner /\ metas[11].of = mint["y"].owner
      /\ \A k \in {2, 6, 7, 8, 9} : metas[k].writable
      /\ \A k \in 1 .. n : metas[11 + k].writable /\ metas[11 + k].of = named[k]
  BY <1>1, <1>2, Accounts DEF metas
<1> HIDE DEF n
<1>5. \A k \in FixedAccounts + 1 .. Len(metas) :
        k - 11 \in 1 .. n /\ metas[k].writable /\ metas[k].of = named[k - 11]
  <2> SUFFICES ASSUME NEW k \in FixedAccounts + 1 .. Len(metas)
               PROVE  k - 11 \in 1 .. n /\ metas[k].writable /\ metas[k].of = named[k - 11]
    OBVIOUS
  <2>1. k - 11 \in 1 .. n /\ 11 + (k - 11) = k
    BY <1>3, <1>4 DEF FixedAccounts
  <2>2. QED
    BY <1>4, <2>1
<1>6. \A k \in 1 .. n : 11 + k \in FixedAccounts + 1 .. Len(metas)
  BY <1>3, <1>4 DEF FixedAccounts
<1>7. {metas[k].of : k \in FixedAccounts + 1 .. Len(metas)} = {named[k] : k \in 1 .. n}
  BY <1>4, <1>5, <1>6
<1>8. Accepts(metas)
  BY <1>4, <1>5 DEF Accepts, Tokens
<1>9. /\ metas[IF forY THEN 4 ELSE 5].of = SourceOf(forY)
      /\ metas[IF forY THEN 5 ELSE 4].of = SinkOf(forY)
  BY <1>4 DEF SourceOf, SinkOf
<1>10. {metas[k].of : k \in FixedAccounts + 1 .. Len(metas)} = Reached(forY)
  BY <1>1, <1>7 DEF n
<1>11. QED
  BY <1>8, <1>9, <1>10 DEF metas, named

(* What the quote held says of itself.                                     *)
LEMMA QuoteKnows ==
  ASSUME HopTyped, Sent, Fresh, Quoted, outcome = Pending, since \subseteq {"wait"}
  PROVE  LET forY == quote.forY
             fee == MintFee(SourceOf(forY))
             asked == Received(fee, quote.offer)
             walk == WalkLadder(market, fees, quote.at, Fetched, asked, forY)
         IN  /\ forY \in BOOLEAN /\ quote.offer \in Nat /\ quote.used \in Nat
             /\ fee \in TransferFees /\ MintFee(SinkOf(forY)) \in TransferFees
             /\ asked \in Nat /\ quote.at \in Nat /\ quote.at <= idle
             /\ (since = {} => quote.at = idle)
             /\ quote.used = asked - walk.left /\ quote.named = SwapArrays(forY)
             /\ quote.in = ToSend(fee, quote.used) /\ quote.in <= quote.offer
             /\ Delivers(fee, quote.in, quote.used)
             /\ quote.out = Received(MintFee(SinkOf(forY)), walk.out)
             /\ walk.out \in Nat
<1> DEFINE forY == quote.forY
           offer == quote.offer
           fee == MintFee(SourceOf(forY))
           asked == Received(fee, offer)
           walk == WalkLadder(market, fees, quote.at, Fetched, asked, forY)
           used == quote.used
<1>1. /\ forY \in BOOLEAN /\ offer \in 0 .. U64Max /\ offer \in Nat /\ quote.feeIn = fee
      /\ used \in Nat /\ Delivers(fee, quote.in, used)
      /\ used = asked - walk.left /\ quote.named = SwapArrays(forY)
      /\ quote.in = Least(ToSend(fee, used), offer)
      /\ quote.out = Received(MintFee(SinkOf(forY)), walk.out)
      /\ quote.at \in Nat /\ quote.at <= idle /\ (since = {} => quote.at = idle)
  <2>1. Current /\ (since = {} => quote.at = idle)
    BY DEF Fresh
  <2>2. /\ forY \in BOOLEAN /\ offer \in Offers /\ used \in Nat
        /\ Delivers(quote.feeIn, quote.in, used)
    BY DEF Sent
  <2>3. offer \in 0 .. U64Max
    BY <2>2, HopAssumption
  <2>4. offer \in Nat
    BY <2>3, ScaleAssumption
  <2>5. QED
    BY <2>1, <2>2, <2>3, <2>4 DEF Current
<1>2. SourceOf(forY) \in Tokens /\ SinkOf(forY) \in Tokens
  BY DEF SourceOf, SinkOf, Tokens
<1>3. fee \in TransferFees /\ MintFee(SinkOf(forY)) \in TransferFees
  BY <1>2, MintTyped DEF HopTyped, MintFee
<1>4. asked \in Nat
  BY <1>1, <1>3, ReceivedMonotone
<1>5. walk.left \in 0 .. asked /\ walk.out \in Nat
  <2>1. market \in Market /\ fees \in FeeState /\ quote.at \in Nat
    BY <1>1 DEF HopTyped
  <2> HIDE DEF asked
  <2>2. /\ walk \in WalkState /\ walk.left \in 0 .. asked
    BY <1>1, <1>4, <2>1, WalkResultTyped
  <2>3. QED
    BY <2>2 DEF WalkState
<1> HIDE DEF walk, asked, fee
<1>6. used \in 0 .. asked
  BY <1>1, <1>4, <1>5
<1>7. ToSend(fee, used) <= offer
  BY <1>1, <1>3, <1>6, QuotedInputDelivers DEF asked
<1>8. quote.in = ToSend(fee, used)
  BY <1>1, <1>7 DEF Least
<1>9. QED
  BY <1>1, <1>3, <1>4, <1>5, <1>7, <1>8 DEF walk, asked, fee

(* The swap of a quote in the terms of the quote: the same fees, and the   *)
(* same arrays as far as the walk can tell.                                *)
LEMMA SwapAsQuoted ==
  ASSUME HopTyped, Sent, Fresh, since \subseteq {"wait"}, NEW strict \in BOOLEAN, Swap(strict)
  PROVE  LET forY == quote.forY
             fee == MintFee(SourceOf(forY))
             amount == IF strict THEN quote.in ELSE quote.offer
             budget == Received(fee, amount)
             walk == WalkLadder(market, fees, idle, Fetched, budget, forY)
             delivered == Received(MintFee(SinkOf(forY)), walk.out)
         IN  enabled /\ delivered >= quote.out /\ (strict => walk.left = 0) =>
               outcome' = [kind |-> "settled", strict |-> strict, delivered |-> delivered,
                           taken |-> Least(amount, ToSend(fee, budget - walk.left))]
<1> DEFINE forY == quote.forY
           fee == MintFee(SourceOf(forY))
           outFee == MintFee(SinkOf(forY))
           metas == SwapAccountMetas(forY, quote.named)
           named == {metas[k].of : k \in FixedAccounts + 1 .. Len(metas)}
           inFee == InForce(mint[metas[IF forY THEN 4 ELSE 5].of])
           sinkFee == InForce(mint[metas[IF forY THEN 5 ELSE 4].of])
           amount == IF strict THEN quote.in ELSE quote.offer
           budget == Received(inFee, amount)
           swap == WalkLadder(market, fees, idle, named, budget, forY)
           delivered == Received(sinkFee, swap.out)
           settled == [kind |-> "settled", strict |-> strict, delivered |-> delivered,
                       taken |-> Least(amount, ToSend(inFee, budget - swap.left))]
<1>1. Quoted /\ outcome = Pending
  BY DEF Swap, Quoted
<1>2. /\ forY \in BOOLEAN /\ quote.named = SwapArrays(forY) /\ fee \in TransferFees
      /\ amount \in Nat
  <2>1. /\ forY \in BOOLEAN /\ quote.named = SwapArrays(forY) /\ fee \in TransferFees
        /\ quote.offer \in Nat /\ Delivers(fee, quote.in, quote.used)
    BY <1>1, QuoteKnows
  <2>2. QED
    BY <2>1 DEF Delivers
<1>3. /\ Accepts(metas) /\ named = Reached(forY)
      /\ inFee = fee /\ sinkFee = outFee
  <2>1. /\ Accepts(metas) /\ named = Reached(forY)
        /\ metas[IF forY THEN 4 ELSE 5].of = SourceOf(forY)
        /\ metas[IF forY THEN 5 ELSE 4].of = SinkOf(forY)
    BY <1>2, AccountsAreAccepted
  <2>2. SourceOf(forY) \in Tokens /\ SinkOf(forY) \in Tokens
    BY DEF SourceOf, SinkOf, Tokens
  <2>3. InForce(mint[SourceOf(forY)]) = fee /\ InForce(mint[SinkOf(forY)]) = outFee
    BY <2>2, InForceIsOfMint DEF HopTyped, MintFee
  <2>4. QED
    BY <2>1, <2>3
<1>4. enabled /\ Accepts(metas) /\ delivered >= quote.out /\ (strict => swap.left = 0)
        => outcome' = settled
  BY DEF Swap
<1> HIDE DEF metas, named, inFee, sinkFee, amount, fee, outFee
<1>5. budget \in Nat
  BY <1>2, <1>3, ReceivedMonotone
<1>6. swap = WalkLadder(market, fees, idle, Fetched, budget, forY)
  BY <1>2, <1>3, <1>5, ReachedSuffices
<1> HIDE DEF swap
<1>7. QED
  BY <1>3, <1>4, <1>6 DEF amount, fee, outFee

LEMMA SwapHonours ==
  ASSUME HopTyped, Sent, Fresh, NEW strict \in BOOLEAN, Swap(strict), since = {}, enabled
  PROVE  outcome' = [kind |-> "settled", strict |-> strict,
                     taken |-> quote.in, delivered |-> quote.out]
<1> DEFINE forY == quote.forY
           offer == quote.offer
           fee == MintFee(SourceOf(forY))
           outFee == MintFee(SinkOf(forY))
           walk(n) == WalkLadder(market, fees, idle, Fetched, n, forY)
           asked == Received(fee, offer)
           used == quote.used
           amount == IF strict THEN quote.in ELSE offer
           budget == Received(fee, amount)
           delivered == Received(outFee, walk(budget).out)
<1>1. Quoted /\ outcome = Pending
  BY DEF Swap, Quoted
<1>2. /\ forY \in BOOLEAN /\ offer \in Nat /\ used \in Nat /\ asked \in Nat
      /\ outFee \in TransferFees
      /\ used = asked - walk(asked).left /\ walk(asked).out \in Nat
      /\ quote.in = ToSend(fee, used) /\ quote.in <= offer
      /\ Delivers(fee, quote.in, used)
      /\ quote.out = Received(outFee, walk(asked).out)
  BY <1>1, QuoteKnows
<1>3. enabled /\ delivered >= quote.out /\ (strict => walk(budget).left = 0) =>
        outcome' = [kind |-> "settled", strict |-> strict, delivered |-> delivered,
                    taken |-> Least(amount, ToSend(fee, budget - walk(budget).left))]
  BY SwapAsQuoted
<1> HIDE DEF forY, offer, fee, outFee, walk, asked, used
<1>4. /\ walk(budget).out = walk(asked).out /\ (strict => walk(budget).left = 0)
      /\ budget - walk(budget).left = used
  <2>1. CASE ~strict
    <3>1. budget = asked
      BY <2>1 DEF asked
    <3>2. QED
      BY <1>2, <2>1, <3>1
  <2>2. CASE strict
    <3>1. budget = used
      BY <1>2, <2>2 DEF Delivers
    <3>2. /\ walk(used).left = 0 /\ SameYield(walk(used), walk(asked))
      <4>1. market \in Market /\ fees \in FeeState /\ idle \in Nat
        BY DEF HopTyped
      <4>2. used = asked - walk(asked).left
        BY <1>2
      <4>3. QED
        BY <1>2, <4>1, <4>2, ShorterWalkFills DEF walk
    <3>3. QED
      BY <1>2, <3>1, <3>2 DEF SameYield
  <2>3. QED
    BY <2>1, <2>2
<1>5. delivered = quote.out
  BY <1>2, <1>4
<1>6. quote.out \in Int
  BY <1>2, ReceivedMonotone
<1>7. Least(amount, ToSend(fee, budget - walk(budget).left)) = quote.in
  <2>1. quote.in \in Nat
    BY <1>2 DEF Delivers
  <2>2. amount \in {quote.in, offer}
    BY DEF offer
  <2>3. QED
    BY <1>2, <1>4, <2>1, <2>2 DEF Least
<1> HIDE DEF delivered, amount, budget
<1>8. QED
  BY <1>3, <1>4, <1>5, <1>6, <1>7

(* Nothing but time went by: the same budget buys no less.                 *)
LEMMA WaitedSettles ==
  ASSUME HopTyped, Sent, Fresh, Swap(FALSE), since = {"wait"}, enabled,
         quote.at >= FilterPeriod
  PROVE  outcome'.kind = "settled"
<1> DEFINE forY == quote.forY
           fee == MintFee(SourceOf(forY))
           outFee == MintFee(SinkOf(forY))
           asked == Received(fee, quote.offer)
           walk(elapsed) == WalkLadder(market, fees, elapsed, Fetched, asked, forY)
           delivered == Received(outFee, walk(idle).out)
<1>1. Quoted /\ outcome = Pending
  BY DEF Swap, Quoted
<1>2. /\ forY \in BOOLEAN /\ asked \in Nat /\ outFee \in TransferFees
      /\ quote.at \in Nat /\ quote.at <= idle /\ walk(quote.at).out \in Nat
      /\ quote.out = Received(outFee, walk(quote.at).out)
  BY <1>1, QuoteKnows
<1>3. enabled /\ delivered >= quote.out =>
        outcome' = [kind |-> "settled", strict |-> FALSE, delivered |-> delivered,
                    taken |-> Least(quote.offer, ToSend(fee, asked - walk(idle).left))]
  BY SwapAsQuoted
<1> HIDE DEF outFee, asked
<1>4. walk(idle).out >= walk(quote.at).out /\ walk(idle).out \in Nat
  <2>1. market \in Market /\ fees \in FeeState /\ idle \in Nat /\ FilterPeriod <= quote.at
    BY FeeAssumption, <1>2 DEF HopTyped
  <2>2. walk(idle).out \in Nat
    BY <1>2, WalkFromHere
  <2>3. walk(idle).out >= walk(quote.at).out
    BY <1>2, <2>1, WaitingBuysNoLess
  <2>4. QED
    BY <2>2, <2>3
<1> HIDE DEF walk, fee
<1>5. delivered >= quote.out
  BY <1>2, <1>4, ReceivedMonotone
<1> HIDE DEF delivered
<1>6. QED
  BY <1>3, <1>5

Honest == HopTyped /\ Sent /\ Fresh /\ QuoteHonoured

LEMMA HonestStep == Honest /\ [Next]_vars => Honest'
<1> SUFFICES ASSUME Honest, [Next]_vars PROVE Honest'
  OBVIOUS
<1>1. HopTyped /\ Sent /\ Fresh /\ QuoteHonoured
  BY DEF Honest
<1>2. HopTyped' /\ Sent'
  BY <1>1, SentStep
<1>3. ASSUME NEW in \in Tokens \cup {"other"}, NEW out \in Tokens \cup {"other"},
             NEW offer \in Offers, Quote(in, out, offer)
      PROVE  Fresh' /\ QuoteHonoured'
  <2>1. Fresh'
    BY <1>1, <1>3, QuoteIsCurrent
  <2>2. outcome' = Pending
    BY <1>1, <1>3 DEF Quote, Fresh, Quoted, NoQuote, Refused
  <2>3. QED
    BY <2>1, <2>2 DEF QuoteHonoured
<1>4. ASSUME NEW strict \in BOOLEAN, Swap(strict)
      PROVE  Fresh' /\ QuoteHonoured'
  <2>1. /\ Quoted /\ Quoted' /\ UNCHANGED <<since, enabled, quote>>
        /\ outcome'.kind \in {"settled", "reverted"}
    BY <1>4 DEF Swap, Quoted, Pending
  <2>2. outcome' # Pending
    BY <2>1 DEF Pending
  <2>3. Fresh'
    BY <2>1, <2>2 DEF Fresh
  <2>4. QuoteHonoured'
    <3>1. SUFFICES ASSUME since = {}, enabled
                   PROVE  outcome' = [kind |-> "settled", strict |-> outcome'.strict,
                                      taken |-> quote.in, delivered |-> quote.out]
      BY <2>1 DEF QuoteHonoured
    <3>2. outcome' = [kind |-> "settled", strict |-> strict,
                      taken |-> quote.in, delivered |-> quote.out]
      BY <1>1, <1>4, <3>1, SwapHonours
    <3>3. QED
      BY <3>2
  <2>5. QED
    BY <2>3, <2>4
<1>5. ASSUME NEW what, what # "wait", Happens(what), outcome = Pending,
             UNCHANGED <<quote, outcome>>
      PROVE  Fresh' /\ QuoteHonoured'
  <2>1. Quoted => ~(since' \subseteq {"wait"})
    BY <1>5 DEF Happens, Quoted, NoQuote, Refused
  <2>2. QED
    BY <1>5, <2>1 DEF Fresh, Quoted, QuoteHonoured
<1>6. ASSUME NEW forY \in BOOLEAN, NEW budget \in Trades, Trade(forY, budget)
      PROVE  Fresh' /\ QuoteHonoured'
  BY <1>5, <1>6 DEF Trade
<1>7. ASSUME Wait PROVE Fresh' /\ QuoteHonoured'
  <2>1. /\ UNCHANGED <<present, market, fees, mint, epoch, quote, outcome>>
        /\ outcome = Pending /\ idle' = idle + 1 /\ idle \in Nat
        /\ Happens("wait")
    BY <1>1, <1>7 DEF Wait, HopTyped
  <2>2. Current => Current'
    BY <2>1, CurrentStays
  <2>3. Quoted => since' = since \cup {"wait"}
    BY <2>1 DEF Happens, Quoted, NoQuote, Refused
  <2>4. QED
    BY <1>1, <2>1, <2>2, <2>3 DEF Fresh, Quoted, QuoteHonoured
<1>8. ASSUME EpochTurns PROVE Fresh' /\ QuoteHonoured'
  BY <1>5, <1>8 DEF EpochTurns
<1>9. ASSUME SetStatus PROVE Fresh' /\ QuoteHonoured'
  <2>1. /\ UNCHANGED <<present, market, fees, idle, mint, epoch, quote, since, outcome>>
        /\ outcome = Pending
    BY <1>9 DEF SetStatus
  <2>2. Current => Current'
    BY <1>1, <2>1, CurrentStays DEF HopTyped
  <2>3. QED
    BY <1>1, <2>1, <2>2 DEF Fresh, Quoted, QuoteHonoured
<1>10. ASSUME UNCHANGED vars PROVE Fresh' /\ QuoteHonoured'
  <2>1. UNCHANGED <<present, market, fees, idle, enabled, mint, epoch, quote, since, outcome>>
    BY <1>10 DEF vars
  <2>2. Current => Current'
    BY <1>1, <2>1, CurrentStays DEF HopTyped
  <2>3. QED
    BY <1>1, <2>1, <2>2 DEF Fresh, Quoted, QuoteHonoured
<1>11. Fresh' /\ QuoteHonoured'
  BY <1>3, <1>4, <1>6, <1>7, <1>8, <1>9, <1>10 DEF Next
<1>12. QED
  BY <1>2, <1>11 DEF Honest

LEMMA HonestAlways == Spec => []Honest
<1>1. Init => Honest
  BY TypedInit DEF Init, Honest, Sent, Fresh, QuoteHonoured, Quoted, NoQuote, Refused
<1>2. QED
  BY <1>1, HonestStep, PTL DEF Spec

(* If nothing moved, the swap takes and delivers what was quoted, the      *)
(* plain one and the strict one.                                           *)
THEOREM QuoteIsHonoured == Spec => []QuoteHonoured
<1>1. Honest => QuoteHonoured
  BY DEF Honest
<1>2. QED
  BY <1>1, HonestAlways, PTL

(* The fee a quote names is the difference between what was traded and     *)
(* what the bins hold, on the side it names.                               *)
THEOREM FeeIsAccounted == Spec => []FeeAccounted
<1>1. ASSUME Honest PROVE FeeAccounted
  <2>1. SUFFICES ASSUME Quoted, since = {}, outcome = Pending
                 PROVE  LET dx == TotalOf(quote.after.x) - TotalOf(market.x)
                            dy == TotalOf(quote.after.y) - TotalOf(market.y)
                            feeX == IF quote.feeInY THEN 0 ELSE quote.fee
                            feeY == IF quote.feeInY THEN quote.fee ELSE 0
                        IN  IF quote.forY
                            THEN dx = quote.used - feeX /\ dy = -(quote.sold + feeY)
                            ELSE dy = quote.used - feeY /\ dx = -(quote.sold + feeX)
    BY Zenon DEF FeeAccounted
  <2> DEFINE forY == quote.forY
             inFee == MintFee(SourceOf(forY))
             budget == Received(inFee, quote.offer)
             walk == WalkLadder(market, fees, idle, Fetched, budget, forY)
  <2>2. Current /\ quote.at = idle /\ HopTyped /\ Sent
    BY <1>1, <2>1 DEF Honest, Fresh
  <2>3. /\ quote.used = budget - walk.left /\ quote.sold = walk.out /\ quote.fee = walk.fee
        /\ quote.after = walk.market /\ quote.feeInY = FeeInY(forY) /\ forY \in BOOLEAN
        /\ quote.offer \in Offers
    BY <2>1, <2>2 DEF Current, Sent
  <2>4. budget \in Nat
    <3>1. quote.offer \in 0 .. U64Max
      BY <2>3, HopAssumption
    <3>2. quote.offer \in Nat
      BY <3>1, ScaleAssumption
    <3>3. SourceOf(forY) \in Tokens
      BY DEF SourceOf, Tokens
    <3>4. inFee \in TransferFees
      BY <2>2, <3>3, MintTyped DEF HopTyped, MintFee
    <3> HIDE DEF inFee
    <3>5. QED
      BY <3>2, <3>4, ReceivedMonotone
  <2> HIDE DEF budget
  <2>5. Settled(walk, market, budget, forY)
    BY <2>2, <2>3, <2>4, WalkIsAccounted DEF HopTyped
  <2>6. /\ walk.market \in Market /\ walk.left \in Nat /\ walk.out \in Nat /\ walk.fee \in Nat
    BY <2>2, <2>3, <2>4, WalkFromHere
  <2>7. /\ TotalOf(market.x) \in Nat /\ TotalOf(market.y) \in Nat
        /\ TotalOf(walk.market.x) \in Nat /\ TotalOf(walk.market.y) \in Nat
    <3>1. ASSUME NEW m \in Market PROVE TotalOf(m.x) \in Nat /\ TotalOf(m.y) \in Nat
      <4>1. m.x \in [Bins -> Nat] /\ m.y \in [Bins -> Nat] /\ m.active \in Bins
        BY DEF Market
      <4>2. QED
        BY <4>1, TotalChanges
    <3>2. QED
      BY <2>2, <2>6, <3>1 DEF HopTyped
  <2>8. FeeOnOutput(forY) \in BOOLEAN /\ (FeeOnOutput(forY) => forY)
    BY ScaleAssumption DEF FeeOnOutput
  <2> DEFINE dx == TotalOf(quote.after.x) - TotalOf(market.x)
             dy == TotalOf(quote.after.y) - TotalOf(market.y)
  <2>9. /\ TotalOf(walk.market.x) = TotalOf(quote.after.x)
        /\ TotalOf(walk.market.y) = TotalOf(quote.after.y)
    BY <2>3
  <2>10. /\ dx \in Int /\ dy \in Int
         /\ TotalOf(market.x) - TotalOf(walk.market.x) = -dx
         /\ TotalOf(market.y) - TotalOf(walk.market.y) = -dy
    <3> HIDE DEF walk
    <3>1. QED
      BY <2>7, <2>9
  <2>11. IF FeeOnOutput(forY)
         THEN /\ IF forY THEN dx = quote.used ELSE dy = quote.used
              /\ IF forY THEN -dy = quote.sold + quote.fee ELSE -dx = quote.sold + quote.fee
         ELSE /\ IF forY THEN dx = quote.used - quote.fee ELSE dy = quote.used - quote.fee
              /\ IF forY THEN -dy = quote.sold ELSE -dx = quote.sold
    <3> HIDE DEF walk, dx, dy
    <3>1. QED
      BY <2>3, <2>5, <2>9, <2>10 DEF Settled, dx, dy
  <2>12. quote.used \in Int /\ quote.sold \in Nat /\ quote.fee \in Nat
    <3> HIDE DEF walk
    <3>1. QED
      BY <2>3, <2>4, <2>6
  <2> HIDE DEF walk, dx, dy
  <2>13. quote.feeInY = (FeeOnOutput(forY) \/ ~forY)
    BY <2>3 DEF FeeInY
  <2>14. IF forY THEN /\ dx = quote.used - (IF quote.feeInY THEN 0 ELSE quote.fee)
                      /\ dy = -(quote.sold + (IF quote.feeInY THEN quote.fee ELSE 0))
         ELSE /\ dy = quote.used - (IF quote.feeInY THEN quote.fee ELSE 0)
              /\ dx = -(quote.sold + (IF quote.feeInY THEN 0 ELSE quote.fee))
    <3>1. CASE FeeOnOutput(forY)
      <4>1. forY /\ quote.feeInY
        BY <2>8, <2>13, <3>1, Zenon
      <4>2. dx = quote.used /\ -dy = quote.sold + quote.fee
        BY <2>11, <3>1, <4>1
      <4>3. quote.used - 0 = quote.used /\ dy = -(quote.sold + quote.fee)
        BY <2>10, <2>12, <4>2
      <4>4. QED
        BY <4>1, <4>2, <4>3
    <3>2. CASE ~FeeOnOutput(forY) /\ forY
      <4>1. ~quote.feeInY
        BY <2>13, <3>2, Zenon
      <4>2. dx = quote.used - quote.fee /\ -dy = quote.sold
        BY <2>11, <3>2
      <4>3. dy = -(quote.sold + 0)
        BY <2>10, <2>12, <4>2
      <4>4. QED
        BY <3>2, <4>1, <4>2, <4>3
    <3>3. CASE ~FeeOnOutput(forY) /\ ~forY
      <4>1. quote.feeInY
        BY <2>13, <3>3, Zenon
      <4>2. dy = quote.used - quote.fee /\ -dx = quote.sold
        BY <2>11, <3>3
      <4>3. dx = -(quote.sold + 0)
        BY <2>10, <2>12, <4>2
      <4>4. QED
        BY <3>3, <4>1, <4>2, <4>3
    <3>4. QED
      BY <2>3, <2>8, <3>1, <3>2, <3>3
  <2>15. QED
    BY <2>14, Zenon DEF dx, dy
<1>2. QED
  BY <1>1, HonestAlways, PTL

(* Once the references have moved, waiting costs nothing: if only time     *)
(* went by, the plain swap settles.                                        *)
THEOREM WaitingIsFree == Spec => []SettledWaitIsFree
<1>1. Init => SettledWaitIsFree
  BY DEF Init, SettledWaitIsFree, OnlyWaited
<1>2. ASSUME Honest, SettledWaitIsFree, [Next]_vars PROVE SettledWaitIsFree'
  <2>1. HopTyped /\ Sent /\ Fresh
    BY <1>2 DEF Honest
  <2>2. ASSUME NEW strict \in BOOLEAN, Swap(strict) PROVE SettledWaitIsFree'
    <3>1. SUFFICES ASSUME since = {"wait"}, enabled, ~outcome'.strict,
                          quote.at >= FilterPeriod
                   PROVE  outcome'.kind = "settled"
      BY <2>2 DEF SettledWaitIsFree, OnlyWaited, Swap
    <3>2. outcome'.strict = strict
      BY <2>2 DEF Swap, Pending
    <3>3. Swap(FALSE)
      BY <2>2, <3>1, <3>2
    <3>4. QED
      BY <2>1, <3>1, <3>3, WaitedSettles
  <2>3. ASSUME outcome' = Pending PROVE SettledWaitIsFree'
    BY <2>3 DEF SettledWaitIsFree, OnlyWaited
  <2>4. ASSUME NEW in \in Tokens \cup {"other"}, NEW out \in Tokens \cup {"other"},
               NEW offer \in Offers, Quote(in, out, offer)
        PROVE  SettledWaitIsFree'
    BY <2>1, <2>3, <2>4 DEF Quote, Fresh, Quoted, NoQuote, Refused
  <2>5. ASSUME NEW forY \in BOOLEAN, NEW budget \in Trades, Trade(forY, budget)
        PROVE  SettledWaitIsFree'
    BY <2>3, <2>5 DEF Trade
  <2>6. ASSUME Wait \/ EpochTurns \/ SetStatus PROVE SettledWaitIsFree'
    BY <2>3, <2>6 DEF Wait, EpochTurns, SetStatus
  <2>7. ASSUME UNCHANGED vars PROVE SettledWaitIsFree'
    BY <1>2, <2>7 DEF vars, SettledWaitIsFree, OnlyWaited, Quoted
  <2>8. QED
    BY <1>2, <2>2, <2>4, <2>5, <2>6, <2>7 DEF Next
<1>3. QED
  BY <1>1, <1>2, HonestAlways, PTL DEF Spec

-----------------------------------------------------------------------------
(***************************************************************************)
(* The adapter between quotes: JupiterAmm, for every ladder, reach and     *)
(* length of a walk.  After an update that succeeded, a quote stays within *)
(* the arrays its transaction names and, until one has failed, over arrays *)
(* as they are now.                                                        *)
(***************************************************************************)

(* What the router remembers of any delivery is typed.                     *)
LEMMA RememberTyped ==
  ASSUME AmmTypeOK, Remember(Delivered)
  PROVE  sent' \in [Indexes -> Nat \cup {NotSent}]
<1>1. \A i \in Indexes : version[i] \in Nat /\ sent[i] \in Nat \cup {NotSent}
  BY DEF AmmTypeOK
<1> QED  BY <1>1 DEF Remember

LEMMA AmmStepTyped == AmmTypeOK /\ [AmmNext]_ammVars => AmmTypeOK'
<1> SUFFICES ASSUME AmmTypeOK, [AmmNext]_ammVars
             PROVE  AmmTypeOK'
  OBVIOUS
<1> USE AmmAssumption
<1>1. ASSUME NEW i \in Indexes, TradeTo(i)
      PROVE  AmmTypeOK'
  <2>1. version' \in [Indexes -> Nat]
    BY <1>1 DEF TradeTo, AmmTypeOK
  <2> QED  BY <1>1, <2>1 DEF TradeTo, cache, AmmTypeOK
<1>2. ASSUME NEW i \in Indexes, Modify(i)
      PROVE  AmmTypeOK'
  <2>1. version' \in [Indexes -> Nat]
    BY <1>2 DEF Modify, AmmTypeOK
  <2>2. occupied' \subseteq Indexes
    BY <1>2 DEF Modify, AmmTypeOK
  <2> QED  BY <1>2, <2>1, <2>2 DEF Modify, cache, AmmTypeOK
<1>3. ChainPool \in [home : Indexes, occupied : SUBSET Indexes]
  BY DEF ChainPool, AmmTypeOK
<1>4. CASE Update
  <2>1. DOMAIN arrays' \subseteq Indexes /\ \A i \in DOMAIN arrays' : arrays'[i] \in Nat
    BY <1>4 DEF Update, Rebuilt, ArraysToFetch, Delivered, AmmTypeOK
  <2> QED  BY <1>3, <1>4, <2>1, RememberTyped DEF Update, onChain, AmmTypeOK
<1>5. CASE UpdateFailsOnConfig
  BY <1>3, <1>5, RememberTyped DEF UpdateFailsOnConfig, onChain, AmmTypeOK
<1>8. CASE UpdateFailsOnPool
  BY <1>8, RememberTyped DEF UpdateFailsOnPool, onChain, cache, AmmTypeOK
<1>6. ASSUME NEW i \in Indexes, UpdateFailsOnArray(i)
      PROVE  AmmTypeOK'
  <2>1. DOMAIN arrays' \subseteq DOMAIN arrays /\ \A j \in DOMAIN arrays' : arrays'[j] = arrays[j]
    BY <1>6 DEF UpdateFailsOnArray, Restrict
  <2> QED  BY <1>3, <1>6, <2>1, RememberTyped DEF UpdateFailsOnArray, onChain, AmmTypeOK
<1>7. CASE UNCHANGED ammVars
  BY <1>7 DEF ammVars, onChain, cache, AmmTypeOK
<1> QED  BY <1>1, <1>2, <1>4, <1>5, <1>6, <1>7, <1>8 DEF AmmNext

(* Every variable keeps its type, through failed updates too.              *)
THEOREM TypeCorrect == AmmSpec => []AmmTypeOK
<1>1. ASSUME AmmInit
      PROVE  AmmTypeOK
  <2>1. 0 \in 0 .. MaxChanges /\ NotSent \in Nat \cup {NotSent}
    BY AmmAssumption
  <2>2. pool \in [home : Indexes, occupied : SUBSET Indexes]
    BY <1>1 DEF AmmInit, ChainPool
  <2>3. DOMAIN arrays = {}
    BY <1>1 DEF AmmInit, NoArrays
  <2>4. version \in [Indexes -> Nat]
    BY <1>1 DEF AmmInit
  <2>5. sent \in [Indexes -> Nat \cup {NotSent}]
    BY <1>1, <2>1 DEF AmmInit
  <2> QED  BY <1>1, <2>1, <2>2, <2>3, <2>4, <2>5 DEF AmmInit, AmmTypeOK
<1> QED  BY <1>1, AmmStepTyped, PTL DEF AmmSpec

-----------------------------------------------------------------------------
(* What the rebuild in update gives: nothing out of the new pool's reach.  *)
CacheInReach == updated = "ok" => DOMAIN arrays \subseteq ArraysToFetch(pool)

(* An array that is walked is cached; cached arrays in reach are near      *)
(* enough to be named.                                                     *)
LEMMA InReachIsNamed ==
  ASSUME DOMAIN arrays \subseteq ArraysToFetch(pool), NEW forY \in BOOLEAN
  PROVE  Walked(forY) \subseteq Named(forY)
<1> SUFFICES ASSUME NEW i \in Walked(forY)
             PROVE  i \in Named(forY)
  OBVIOUS
<1>1. \A j \in Indexes :
        Between(j, i, pool.home) => j \in DOMAIN arrays
  BY DEF Walked, Run
<1>2. /\ i \in Indexes
      /\ IF forY THEN i <= pool.home ELSE i >= pool.home
  BY DEF Walked, Run
<1>3. i \in DOMAIN arrays
  <2>1. CASE forY
    BY <1>1, <1>2, <2>1, AmmAssumption DEF Indexes, Between
  <2>2. CASE ~forY
    BY <1>1, <1>2, <2>2, AmmAssumption DEF Indexes, Between
  <2> QED  BY <2>1, <2>2
<1>4. Gap(i, pool.home) < SwapReach
  BY <1>3 DEF ArraysToFetch
<1> QED  BY <1>1, <1>2, <1>4 DEF Named, Run

LEMMA InitInReach == AmmInit => CacheInReach
  BY DEF AmmInit, CacheInReach

LEMMA StepInReach == CacheInReach /\ [AmmNext]_ammVars => CacheInReach'
<1> SUFFICES ASSUME CacheInReach, [AmmNext]_ammVars
             PROVE  CacheInReach'
  OBVIOUS
<1>1. ASSUME NEW i \in Indexes, TradeTo(i)
      PROVE  CacheInReach'
  BY <1>1 DEF TradeTo, cache, CacheInReach, ArraysToFetch
<1>2. ASSUME NEW i \in Indexes, Modify(i)
      PROVE  CacheInReach'
  BY <1>2 DEF Modify, cache, CacheInReach, ArraysToFetch
<1>3. CASE Update
  <2>1. DOMAIN arrays' = ArraysToFetch(ChainPool) \cap (Delivered \cup DOMAIN arrays)
    BY <1>3 DEF Update, Rebuilt
  <2>2. pool' = ChainPool
    BY <1>3 DEF Update
  <2> QED  BY <2>1, <2>2 DEF CacheInReach, ArraysToFetch
<1>4. CASE UpdateFailsOnConfig
  BY <1>4 DEF UpdateFailsOnConfig, CacheInReach
<1>7. CASE UpdateFailsOnPool
  BY <1>7 DEF UpdateFailsOnPool, CacheInReach
<1>5. ASSUME NEW i \in Indexes, UpdateFailsOnArray(i)
      PROVE  CacheInReach'
  BY <1>5 DEF UpdateFailsOnArray, CacheInReach
<1>6. CASE UNCHANGED ammVars
  BY <1>6 DEF ammVars, cache, CacheInReach, ArraysToFetch
<1> QED  BY <1>1, <1>2, <1>3, <1>4, <1>5, <1>6, <1>7 DEF AmmNext

(* One update that succeeds puts every later quote back within reach,      *)
(* whatever failed before it.                                              *)
THEOREM ReachIsRestored == AmmSpec => []ReachRestored
<1>1. CacheInReach => ReachRestored
  BY InReachIsNamed DEF CacheInReach, ReachRestored, WalksWithinNamed
<1> QED  BY <1>1, InitInReach, StepInReach, PTL DEF AmmSpec

-----------------------------------------------------------------------------
(* What makes an update's leftovers current: until one fails, the adapter  *)
(* holds of every cached array the version the router last delivered, and  *)
(* asks for that array again.                                              *)
HeldAsSent ==
  /\ changes \in Nat
  /\ ~failed => \A i \in DOMAIN arrays : i \in Requested /\ sent[i] = arrays[i]

LEMMA InitHeld == AmmInit => HeldAsSent
  BY DEF AmmInit, HeldAsSent, NoArrays

(* A rebuilt array was delivered in its version, or was held, asked for    *)
(* and not delivered, which is when the router has nothing newer.          *)
LEMMA RebuiltIsCurrent ==
  ASSUME HeldAsSent, ~failed, Update, NEW i \in DOMAIN arrays'
  PROVE  i \in Requested' /\ sent'[i] = version[i] /\ arrays'[i] = version[i]
<1>1. arrays' = Rebuilt(Delivered, ChainPool) /\ pool' = ChainPool
  BY DEF Update
<1>2. i \in ArraysToFetch(ChainPool) \cap (Delivered \cup DOMAIN arrays)
  BY <1>1 DEF Rebuilt
<1>3. arrays'[i] = IF i \in Delivered THEN version[i] ELSE arrays[i]
  BY <1>1, <1>2 DEF Rebuilt
<1>4. i \in Requested'
  BY <1>1, <1>2 DEF Requested, ArraysToFetch
<1>5. i \in Indexes
  BY <1>2 DEF ArraysToFetch
<1>6. sent'[i] = IF i \in Delivered THEN version[i]
                 ELSE IF i \in Requested THEN sent[i] ELSE NotSent
  BY <1>5 DEF Update, Remember
<1>7. CASE i \in Delivered
  BY <1>3, <1>4, <1>6, <1>7
<1>8. CASE i \notin Delivered
  <2>1. i \in Requested /\ sent[i] = arrays[i]
    BY <1>2, <1>8 DEF HeldAsSent
  <2>2. sent[i] = version[i]
    BY <1>8, <2>1 DEF Delivered
  <2> QED  BY <1>3, <1>4, <1>6, <1>8, <2>1, <2>2
<1> QED  BY <1>7, <1>8

LEMMA StepHeld == HeldAsSent /\ [AmmNext]_ammVars => HeldAsSent'
<1> SUFFICES ASSUME HeldAsSent, [AmmNext]_ammVars
             PROVE  HeldAsSent'
  OBVIOUS
<1>1. ASSUME NEW i \in Indexes, TradeTo(i)
      PROVE  HeldAsSent'
  BY <1>1 DEF TradeTo, cache, HeldAsSent, Requested, ArraysToFetch
<1>2. ASSUME NEW i \in Indexes, Modify(i)
      PROVE  HeldAsSent'
  BY <1>2 DEF Modify, cache, HeldAsSent, Requested, ArraysToFetch
<1>3. CASE Update
  <2>1. changes' \in Nat /\ version' = version /\ failed' = failed
    BY <1>3 DEF Update, HeldAsSent, onChain
  <2>2. ~failed => \A i \in DOMAIN arrays' :
                     i \in Requested' /\ sent'[i] = version[i] /\ arrays'[i] = version[i]
    BY <1>3, RebuiltIsCurrent
  <2> QED  BY <2>1, <2>2 DEF HeldAsSent
<1>4. CASE UpdateFailsOnConfig
  BY <1>4 DEF UpdateFailsOnConfig, HeldAsSent, onChain
<1>7. CASE UpdateFailsOnPool
  BY <1>7 DEF UpdateFailsOnPool, HeldAsSent, onChain
<1>5. ASSUME NEW i \in Indexes, UpdateFailsOnArray(i)
      PROVE  HeldAsSent'
  BY <1>5 DEF UpdateFailsOnArray, HeldAsSent, onChain
<1>6. CASE UNCHANGED ammVars
  BY <1>6 DEF ammVars, onChain, cache, HeldAsSent, Requested, ArraysToFetch
<1> QED  BY <1>1, <1>2, <1>3, <1>4, <1>5, <1>6, <1>7 DEF AmmNext

(* Every other step either changes the chain or fails.                     *)
LEMMA OnlyUpdateIsQuiet ==
  ASSUME HeldAsSent, AmmNext, UNCHANGED onChain, updated' = "ok"
  PROVE  Update
<1>1. changes + 1 # changes
  BY DEF HeldAsSent
<1>2. ASSUME NEW i \in Indexes, TradeTo(i) \/ Modify(i)
      PROVE  FALSE
  BY <1>1, <1>2 DEF TradeTo, Modify, onChain
<1>3. ASSUME NEW i \in Indexes, UpdateFailsOnConfig \/ UpdateFailsOnArray(i)
      PROVE  FALSE
  BY <1>3 DEF UpdateFailsOnConfig, UpdateFailsOnArray
<1>4. ~UpdateFailsOnConfig /\ ~UpdateFailsOnPool
  BY DEF UpdateFailsOnConfig, UpdateFailsOnPool
<1> QED  BY <1>2, <1>3, <1>4 DEF AmmNext

(* While no update has failed, one that succeeds leaves nothing in the     *)
(* cache that is older than the pool beside it.                            *)
THEOREM UpdatesAreFresh == AmmSpec => FreshAfterUpdate
<1>1. HeldAsSent /\ [AmmNext]_ammVars =>
        [updated' = "ok" /\ ~failed /\ UNCHANGED onChain =>
           \A i \in DOMAIN arrays' : arrays'[i] = version[i]]_ammVars
  BY OnlyUpdateIsQuiet, RebuiltIsCurrent
<1> QED  BY <1>1, InitHeld, StepHeld, PTL DEF AmmSpec, FreshAfterUpdate

-----------------------------------------------------------------------------
(***************************************************************************)
(* The adapter's other reading, of a mint's extension list: MintTlv, for   *)
(* every layout, list of entries and cut.                                  *)
(***************************************************************************)

(* s holds where the first N entries start.                                *)
Starts(s, N) ==
  s = [n \in 1 .. N |-> IF n = 1 THEN TlvStart
                        ELSE s[n - 1] + HeaderLen + tlv[n - 1].length]

LEMMA StartsExist == \A N \in Nat : \E s : Starts(s, N)
<1> DEFINE S == {N \in Nat : \E s : Starts(s, N)}
<1>1. 0 \in S
  <2>1. Starts([n \in 1 .. 0 |-> 0], 0)
    BY DEF Starts
  <2>2. QED
    BY <2>1
<1>2. ASSUME NEW N \in S PROVE N + 1 \in S
  <2>1. N \in Nat
    OBVIOUS
  <2>2. PICK s : Starts(s, N)
    OBVIOUS
  <2> DEFINE last == IF N = 0 THEN TlvStart ELSE s[N] + HeaderLen + tlv[N].length
             t == [n \in 1 .. N + 1 |-> IF n \in 1 .. N THEN s[n] ELSE last]
  <2>3. \A n \in 1 .. N : s[n] = IF n = 1 THEN TlvStart
                                 ELSE s[n - 1] + HeaderLen + tlv[n - 1].length
    BY <2>2 DEF Starts
  <2>4. \A n \in 1 .. N + 1 : t[n] = IF n = 1 THEN TlvStart
                                     ELSE t[n - 1] + HeaderLen + tlv[n - 1].length
    <3> SUFFICES ASSUME NEW n \in 1 .. N + 1
                 PROVE  t[n] = IF n = 1 THEN TlvStart
                               ELSE t[n - 1] + HeaderLen + tlv[n - 1].length
      OBVIOUS
    <3>1. CASE n = N + 1
      BY <2>1, <3>1
    <3>2. CASE n # N + 1
      BY <2>1, <2>3, <3>2
    <3>3. QED
      BY <3>1, <3>2
  <2>5. t = [n \in 1 .. N + 1 |-> IF n = 1 THEN TlvStart
                                  ELSE t[n - 1] + HeaderLen + tlv[n - 1].length]
    <3> HIDE DEF t
    <3>1. t = [n \in 1 .. N + 1 |-> t[n]]
      BY DEF t
    <3>2. QED
      BY <2>4, <3>1, Zenon
  <2>6. Starts(t, N + 1)
    <3> HIDE DEF t
    <3>1. QED
      BY <2>5, Zenon DEF Starts
  <2>7. QED
    BY <2>1, <2>6
<1>3. S \in SUBSET Nat
  OBVIOUS
<1> HIDE DEF S
<1>4. S = Nat
  BY <1>1, <1>2, <1>3, Induction
<1>5. QED
  BY <1>4 DEF S

LEMMA ListFacts ==
  ASSUME tlv \in EntryLists
  PROVE  /\ Len(tlv) \in Nat /\ DOMAIN tlv = 1 .. Len(tlv)
         /\ \A k \in 1 .. Len(tlv) : tlv[k].length \in Nat
<1>1. PICK n \in 0 .. MaxEntries : tlv \in [1 .. n -> Entries]
  BY DEF EntryLists
<1>2. n \in Nat
  BY LayoutAssumption
<1>3. tlv \in Seq(Entries) /\ Len(tlv) = n
  BY <1>1, <1>2
<1>4. \A e \in Entries : e.length \in Nat
  BY LayoutAssumption DEF Entries
<1>5. QED
  BY <1>1, <1>2, <1>3, <1>4

(* Each entry starts where the one before it ends.                         *)
LEMMA StartSteps ==
  ASSUME tlv \in EntryLists
  PROVE  /\ StartOf(1) = TlvStart
         /\ \A k \in 1 .. Len(tlv) :
              StartOf(k + 1) = StartOf(k) + HeaderLen + tlv[k].length
<1> DEFINE N == Len(tlv) + 1
           s == CHOOSE s : Starts(s, N)
<1>1. Len(tlv) \in Nat /\ N \in Nat
  BY ListFacts
<1>2. Starts(s, N)
  BY <1>1, StartsExist, Zenon
<1>3. \A k : StartOf(k) = s[k]
  BY Zenon DEF StartOf, Starts
<1> HIDE DEF s
<1>4. \A n \in 1 .. N : s[n] = IF n = 1 THEN TlvStart
                               ELSE s[n - 1] + HeaderLen + tlv[n - 1].length
  BY <1>2 DEF Starts
<1>5. s[1] = TlvStart
  BY <1>1, <1>4
<1>6. ASSUME NEW k \in 1 .. Len(tlv) PROVE s[k + 1] = s[k] + HeaderLen + tlv[k].length
  <2>1. k + 1 \in 1 .. N /\ k + 1 # 1 /\ (k + 1) - 1 = k
    BY <1>1
  <2>2. QED
    BY <1>4, <2>1
<1>7. QED
  BY <1>3, <1>5, <1>6

(* Entries start one after another, a header apart at least.               *)
LEMMA StartsRise ==
  ASSUME tlv \in EntryLists
  PROVE  \A k \in 1 .. Len(tlv) + 1 :
           /\ StartOf(k) \in Nat
           /\ \A j \in 1 .. k - 1 : StartOf(j) + HeaderLen <= StartOf(k)
<1> DEFINE at(k) == StartOf(k)
           Good(k) == at(k) \in Nat /\ \A j \in 1 .. k - 1 : at(j) + HeaderLen <= at(k)
           S == {n \in Nat : n <= Len(tlv) => \A k \in 1 .. n + 1 : Good(k)}
<1>1. /\ Len(tlv) \in Nat /\ HeaderLen \in Nat /\ TlvStart \in Nat
      /\ \A k \in 1 .. Len(tlv) : tlv[k].length \in Nat
  BY ListFacts, LayoutAssumption
<1>2. at(1) = TlvStart /\ \A k \in 1 .. Len(tlv) : at(k + 1) = at(k) + HeaderLen + tlv[k].length
  BY StartSteps
<1> HIDE DEF at
<1>3. 0 \in S
  BY <1>1, <1>2
<1>4. ASSUME NEW n \in S PROVE n + 1 \in S
  <2> SUFFICES ASSUME n + 1 <= Len(tlv), NEW k \in 1 .. (n + 1) + 1
               PROVE  Good(k)
    OBVIOUS
  <2>1. n \in Nat /\ n + 1 \in 1 .. Len(tlv)
    BY <1>1
  <2>2. \A m \in 1 .. n + 1 : Good(m)
    BY <1>1, <2>1
  <2>3. CASE k \in 1 .. n + 1
    BY <2>2, <2>3
  <2>4. CASE k = (n + 1) + 1
    <3>1. at(k) = at(n + 1) + HeaderLen + tlv[n + 1].length
      BY <1>2, <2>1, <2>4
    <3>2. at(n + 1) \in Nat /\ tlv[n + 1].length \in Nat
      BY <1>1, <2>1, <2>2
    <3>3. ASSUME NEW j \in 1 .. k - 1 PROVE at(j) + HeaderLen <= at(k)
      <4>1. j \in 1 .. n + 1 /\ (j = n + 1 \/ j \in 1 .. (n + 1) - 1)
        BY <2>1, <2>4
      <4>2. at(j) \in Nat /\ (j = n + 1 \/ at(j) + HeaderLen <= at(n + 1))
        BY <2>1, <2>2, <4>1
      <4>3. QED
        BY <1>1, <3>1, <3>2, <4>2
    <3>4. QED
      BY <1>1, <3>1, <3>2, <3>3
  <2>5. QED
    BY <2>1, <2>3, <2>4
<1>5. S \in SUBSET Nat
  OBVIOUS
<1> HIDE DEF S
<1>6. S = Nat
  BY <1>3, <1>4, <1>5, Induction
<1>7. Len(tlv) \in S
  BY <1>1, <1>6
<1> USE DEF S
<1>8. QED
  BY <1>1, <1>7 DEF at

-----------------------------------------------------------------------------
(***************************************************************************)
(* The walk stands at the head of an entry, or at the end, and has passed  *)
(* no fee configuration on the way; what it has touched is data.           *)
(***************************************************************************)
ListTyped ==
  /\ isMint \in BOOLEAN /\ tlv \in EntryLists /\ size \in Nat
  /\ cursor \in Nat /\ touched \in Nat

PassedNoConfig(n) == \A j \in 1 .. n - 1 : tlv[j].kind # "TransferFeeConfig"

AtHead ==
  /\ phase \in {"start", "walking", "done"}
  /\ phase # "done" => result = NotFound
  /\ phase = "walking" =>
       /\ isMint
       /\ \E n \in 1 .. Len(tlv) + 1 : cursor = StartOf(n) /\ PassedNoConfig(n)

TlvInv == ListTyped /\ AtHead /\ InBounds /\ FeeIsRead

(* Only the entry at the cursor is at the cursor.                          *)
LEMMA OneAtCursor ==
  ASSUME tlv \in EntryLists,
         NEW n \in 1 .. Len(tlv) + 1, NEW k \in 1 .. Len(tlv) + 1,
         StartOf(n) = StartOf(k)
  PROVE  n = k
<1> DEFINE at(i) == StartOf(i)
<1>1. Len(tlv) \in Nat /\ HeaderLen \in Nat \ {0}
  BY ListFacts, LayoutAssumption
<1>2. \A i \in 1 .. Len(tlv) + 1 :
        at(i) \in Nat /\ \A j \in 1 .. i - 1 : at(j) + HeaderLen <= at(i)
  BY StartsRise
<1>3. at(n) = at(k)
  OBVIOUS
<1> HIDE DEF at
<1>4. n < k => at(n) + HeaderLen <= at(k)
  BY <1>1, <1>2
<1>5. k < n => at(k) + HeaderLen <= at(n)
  BY <1>1, <1>2
<1>6. QED
  BY <1>1, <1>2, <1>3, <1>4, <1>5

(* A walk that reads k as the first configuration, or gives up with a      *)
(* reason no whole mint gives it, has read the fee.                        *)
LEMMA FoundIsRead ==
  ASSUME ListTyped, NEW k \in 1 .. Len(tlv), PassedNoConfig(k),
         tlv[k].kind = "TransferFeeConfig", result = k
  PROVE  FeeIsRead
<1>1. DOMAIN tlv = 1 .. Len(tlv) /\ Len(tlv) \in Nat
  BY ListFacts DEF ListTyped
<1>2. k # NotFound
  BY <1>1 DEF NotFound
<1>3. \A j \in Configs : k <= j
  BY <1>1 DEF Configs, PassedNoConfig
<1>4. k \in Configs
  BY <1>1 DEF Configs
<1>5. QED
  BY <1>2, <1>3, <1>4 DEF FeeIsRead, FailsClosed, FeeIsFound

LEMMA NothingIsRead ==
  ASSUME result = NotFound,
         phase = "done" /\ isMint /\ size = Whole =>
           \A k \in Configs : \E j \in Configs : j <= k /\ tlv[j].length < ConfigNeeds
  PROVE  FeeIsRead
  BY DEF FeeIsRead, FailsClosed, FeeIsFound

LEMMA InitReads == TlvInit => TlvInv
<1> SUFFICES ASSUME TlvInit PROVE TlvInv
  OBVIOUS
<1>1. /\ isMint \in BOOLEAN /\ tlv \in EntryLists /\ size \in Nat
      /\ phase = "start" /\ cursor = 0 /\ touched = 0 /\ result = NotFound
  BY DEF TlvInit
<1>2. ListTyped
  BY <1>1 DEF ListTyped
<1>3. AtHead
  BY <1>1 DEF AtHead
<1>4. InBounds
  BY <1>1 DEF InBounds
<1>5. FeeIsRead
  BY <1>1, NothingIsRead
<1>6. QED
  BY <1>2, <1>3, <1>4, <1>5 DEF TlvInv

LEMMA OpenReads == TlvInv /\ Open => TlvInv'
<1> SUFFICES ASSUME TlvInv, Open PROVE TlvInv'
  OBVIOUS
<1>1. /\ phase = "start" /\ result = NotFound
      /\ isMint' = isMint /\ tlv' = tlv /\ size' = size /\ result' = result
      /\ isMint \in BOOLEAN /\ size \in Nat /\ touched \in Nat /\ cursor \in Nat
      /\ touched <= size
      /\ tlv \in EntryLists
  BY DEF TlvInv, ListTyped, AtHead, InBounds, Open, data, Finish
<1>2. TypeIndex \in Nat /\ TlvStart \in Nat /\ TypeIndex < TlvStart /\ HeaderLen \in Nat \ {0}
  BY LayoutAssumption
<1>3. touched' \in Nat /\ touched' <= size
  BY <1>1, <1>2 DEF Open, Touch
<1>4. \/ NoList /\ phase' = "done" /\ cursor' = cursor
      \/ ~NoList /\ phase' = "walking" /\ cursor' = TlvStart
  BY <1>1 DEF Open, Finish
<1>5. ListTyped'
  BY <1>1, <1>2, <1>3, <1>4 DEF ListTyped, EntryLists, Entries
<1>6. InBounds'
  BY <1>1, <1>3 DEF InBounds
<1>7. Len(tlv) \in Nat /\ DOMAIN tlv = 1 .. Len(tlv)
  BY <1>1, ListFacts
<1>8. AtHead'
  <2>1. 1 \in 1 .. Len(tlv) + 1 /\ PassedNoConfig(1)
    BY <1>7 DEF PassedNoConfig
  <2>2. StartOf(1) = TlvStart
    BY <1>1, StartSteps
  <2>3. StartOf(1)' = TlvStart /\ PassedNoConfig(1)'
    BY <1>1, <2>1, <2>2 DEF StartOf, PassedNoConfig
  <2>4. NotFound' = NotFound
    BY DEF NotFound
  <2>5. CASE phase' = "done"
    BY <2>5 DEF AtHead
  <2>6. CASE phase' = "walking"
    <3>1. isMint' /\ cursor' = TlvStart
      BY <1>1, <1>4, <2>6 DEF NoList
    <3>2. 1 \in 1 .. Len(tlv') + 1
      BY <1>1, <2>1
    <3>3. QED
      BY <1>1, <2>3, <2>4, <2>6, <3>1, <3>2 DEF AtHead
  <2>7. QED
    BY <1>4, <2>5, <2>6
<1>9. FeeIsRead'
  <2>1. NotFound' = NotFound /\ Whole' = Whole /\ Configs' = Configs
    BY <1>1 DEF NotFound, Whole, Configs, StartOf
  <2>2. isMint /\ size = Whole /\ phase' = "done" => Configs = {}
    <3> SUFFICES ASSUME isMint, size = Whole, phase' = "done", NEW k \in Configs
                 PROVE  FALSE
      OBVIOUS
    <3>1. k \in 1 .. Len(tlv)
      BY <1>7 DEF Configs
    <3>2. size <= TlvStart
      BY <1>4 DEF NoList
    <3>3. StartOf(Len(tlv) + 1) = size /\ StartOf(1) = TlvStart
      BY <1>1, StartSteps DEF Whole
    <3>4. StartOf(1) + HeaderLen <= StartOf(Len(tlv) + 1)
      <4>1. Len(tlv) + 1 \in 1 .. Len(tlv) + 1 /\ 1 \in 1 .. (Len(tlv) + 1) - 1
        BY <1>7, <3>1
      <4>2. QED
        BY <1>1, <4>1, StartsRise
    <3>5. QED
      BY <1>1, <1>2, <3>2, <3>3, <3>4
  <2>3. QED
    BY <1>1, <2>1, <2>2, NothingIsRead DEF FeeIsRead, FailsClosed, FeeIsFound
<1>10. QED
  BY <1>5, <1>6, <1>8, <1>9 DEF TlvInv

(* What a turn of the walk has before it.                                  *)
LEMMA WalkingFacts ==
  ASSUME TlvInv, phase = "walking"
  PROVE  /\ tlv \in EntryLists /\ isMint
         /\ size \in Nat /\ cursor \in Nat /\ touched \in Nat /\ touched <= size
         /\ result = NotFound
         /\ HeaderLen \in Nat \ {0} /\ ConfigNeeds \in Nat
         /\ Len(tlv) \in Nat /\ DOMAIN tlv = 1 .. Len(tlv)
         /\ \A k \in 1 .. Len(tlv) : tlv[k].length \in Nat
         /\ \A k \in 1 .. Len(tlv) + 1 : StartOf(k) \in Nat
<1>1. ListTyped /\ AtHead /\ InBounds
  BY DEF TlvInv
<1>2. tlv \in EntryLists
  BY <1>1 DEF ListTyped
<1>3. QED
  BY <1>1, <1>2, ListFacts, StartsRise, LayoutAssumption DEF ListTyped, AtHead, InBounds

(* A whole mint ends with its last entry.                                  *)
LEMMA WholeHolds ==
  ASSUME TlvInv, phase = "walking", size = Whole, NEW n \in 1 .. Len(tlv),
         cursor = StartOf(n)
  PROVE  cursor + HeaderLen + tlv[n].length <= size
<1>1. /\ HeaderLen \in Nat \ {0} /\ Len(tlv) \in Nat /\ tlv[n].length \in Nat
      /\ \A k \in 1 .. Len(tlv) + 1 : StartOf(k) \in Nat
      /\ tlv \in EntryLists
  BY WalkingFacts
<1>2. StartOf(n + 1) = cursor + HeaderLen + tlv[n].length
  BY <1>1, StartSteps
<1>3. size = StartOf(Len(tlv) + 1)
  BY DEF Whole
<1>4. CASE n = Len(tlv)
  BY <1>1, <1>2, <1>3, <1>4
<1>5. CASE n # Len(tlv)
  <2>1. n + 1 \in 1 .. (Len(tlv) + 1) - 1 /\ Len(tlv) + 1 \in 1 .. Len(tlv) + 1
    BY <1>1, <1>5
  <2>2. StartOf(n + 1) + HeaderLen <= StartOf(Len(tlv) + 1)
    BY <1>1, <2>1, StartsRise
  <2>3. StartOf(n + 1) \in Nat /\ StartOf(Len(tlv) + 1) \in Nat
    BY <1>1
  <2>4. QED
    BY <1>1, <1>2, <1>3, <2>2, <2>3
<1>6. QED
  BY <1>4, <1>5

LEMMA EndReads == TlvInv /\ EndOfData => TlvInv'
<1> SUFFICES ASSUME TlvInv, EndOfData PROVE TlvInv'
  OBVIOUS
<1>1. /\ phase = "walking" /\ phase' = "done" /\ cursor + HeaderLen > size
      /\ isMint' = isMint /\ tlv' = tlv /\ size' = size /\ touched' = touched
      /\ cursor' = cursor /\ result' = NotFound
  BY DEF EndOfData, Finish, data
<1>2. /\ isMint /\ size \in Nat /\ cursor \in Nat /\ result = NotFound
      /\ HeaderLen \in Nat \ {0} /\ Len(tlv) \in Nat /\ DOMAIN tlv = 1 .. Len(tlv)
      /\ \A k \in 1 .. Len(tlv) : tlv[k].length \in Nat
  BY <1>1, WalkingFacts
<1>3. ListTyped'
  BY <1>1 DEF TlvInv, ListTyped, EntryLists, Entries
<1>4. AtHead'
  BY <1>1 DEF AtHead
<1>5. InBounds'
  BY <1>1 DEF TlvInv, InBounds
<1>6. PICK n \in 1 .. Len(tlv) + 1 : cursor = StartOf(n) /\ PassedNoConfig(n)
  BY <1>1 DEF TlvInv, AtHead
<1>7. size = Whole => Configs = {}
  <2> SUFFICES ASSUME size = Whole, NEW k \in Configs PROVE FALSE
    OBVIOUS
  <2>1. k \in 1 .. Len(tlv) /\ tlv[k].kind = "TransferFeeConfig"
    BY <1>2 DEF Configs
  <2>2. n \in 1 .. Len(tlv)
    BY <1>2, <1>6, <2>1 DEF PassedNoConfig
  <2>3. cursor + HeaderLen + tlv[n].length <= size
    BY <1>1, <1>6, <2>2, WholeHolds
  <2>4. QED
    BY <1>1, <1>2, <2>2, <2>3
<1>8. NotFound' = NotFound /\ Whole' = Whole /\ Configs' = Configs
  BY <1>1 DEF NotFound, Whole, Configs, StartOf
<1>9. FeeIsRead'
  BY <1>1, <1>7, <1>8 DEF FeeIsRead, FailsClosed, FeeIsFound
<1>10. QED
  BY <1>3, <1>4, <1>5, <1>9 DEF TlvInv

LEMMA EntryReads ==
  ASSUME TlvInv, NEW k \in DOMAIN tlv, ReadEntry(k)
  PROVE  TlvInv'
<1> DEFINE body == cursor + HeaderLen
           length == tlv[k].length
           cut == body + length > size
           config == tlv[k].kind = "TransferFeeConfig"
           short == length < ConfigNeeds
<1>1. /\ phase = "walking" /\ body <= size /\ cursor = StartOf(k)
      /\ isMint' = isMint /\ tlv' = tlv /\ size' = size
  BY DEF ReadEntry, AtEntry, data
<1>2. /\ isMint /\ size \in Nat /\ cursor \in Nat /\ touched \in Nat /\ touched <= size
      /\ HeaderLen \in Nat \ {0} /\ ConfigNeeds \in Nat
      /\ Len(tlv) \in Nat /\ DOMAIN tlv = 1 .. Len(tlv) /\ k \in 1 .. Len(tlv)
      /\ length \in Nat /\ body \in Nat
      /\ tlv \in EntryLists
  BY <1>1, WalkingFacts
<1>3. result = NotFound
  BY <1>1, WalkingFacts
<1>4. PassedNoConfig(k)
  <2>1. PICK n \in 1 .. Len(tlv) + 1 : cursor = StartOf(n) /\ PassedNoConfig(n)
    BY <1>1 DEF TlvInv, AtHead
  <2>2. k \in 1 .. Len(tlv) + 1
    BY <1>2
  <2>3. n = k
    BY <1>1, <1>2, <2>1, <2>2, OneAtCursor
  <2>4. QED
    BY <2>1, <2>3
<1>5. \/ /\ cut \/ (config /\ short)
         /\ phase' = "done" /\ result' = NotFound /\ cursor' = cursor
         /\ Touch(body)
      \/ /\ ~cut /\ config /\ ~short
         /\ phase' = "done" /\ result' = k /\ cursor' = cursor
         /\ Touch(body + ConfigNeeds)
      \/ /\ ~cut /\ ~config
         /\ phase' = phase /\ result' = result /\ cursor' = body + length
         /\ Touch(body)
  BY DEF ReadEntry, Truncated, IsConfig, TooShort, Finish, Following
<1>6. touched' \in Nat /\ touched' <= size
  <2>1. \E end \in Nat : end <= size /\ Touch(end)
    <3>1. CASE Touch(body)
      BY <1>1, <1>2, <3>1
    <3>2. CASE ~cut /\ ~short /\ Touch(body + ConfigNeeds)
      <4>1. body + ConfigNeeds \in Nat /\ body + ConfigNeeds <= size
        BY <1>2, <3>2
      <4>2. QED
        BY <3>2, <4>1
    <3>3. QED
      BY <1>5, <3>1, <3>2
  <2>2. QED
    BY <1>2, <2>1 DEF Touch
<1>7. ListTyped'
  <2>1. cursor' \in Nat
    BY <1>2, <1>5
  <2>2. EntryLists' = EntryLists
    BY DEF EntryLists, Entries
  <2>3. ListTyped
    BY DEF TlvInv
  <2>4. QED
    BY <1>1, <1>6, <2>1, <2>2, <2>3 DEF ListTyped
<1>8. InBounds'
  BY <1>1, <1>6 DEF InBounds
<1>9. AtHead'
  <2>1. NotFound' = NotFound
    BY DEF NotFound
  <2>2. CASE phase' = "done"
    BY <2>2 DEF AtHead
  <2>3. CASE phase' # "done"
    <3>1. ~config /\ phase' = "walking" /\ result' = result /\ cursor' = body + length
      BY <1>1, <1>5, <2>3
    <3>2. k + 1 \in 1 .. Len(tlv) + 1
      BY <1>2
    <3>3. StartOf(k + 1) = cursor'
      BY <1>1, <1>2, <3>1, StartSteps
    <3>4. PassedNoConfig(k + 1)
      BY <1>2, <1>4, <3>1 DEF PassedNoConfig
    <3>5. StartOf(k + 1)' = StartOf(k + 1) /\ PassedNoConfig(k + 1)'
      BY <1>1, <3>4 DEF StartOf, PassedNoConfig
    <3>6. k + 1 \in 1 .. Len(tlv') + 1
      BY <1>1, <3>2
    <3> HIDE DEF body, length, config
    <3>7. QED
      BY <1>1, <1>2, <1>3, <2>1, <3>1, <3>3, <3>5, <3>6 DEF AtHead
  <2>4. QED
    BY <2>2, <2>3
<1>10. FeeIsRead'
  <2>1. NotFound' = NotFound /\ Whole' = Whole /\ Configs' = Configs
    BY <1>1 DEF NotFound, Whole, Configs, StartOf
  <2>2. CASE result' = k
    <3>1. k # NotFound
      BY <1>2 DEF NotFound
    <3>2. config
      BY <1>2, <1>3, <1>5, <2>2, <3>1
    <3>3. k \in Configs
      BY <3>2 DEF Configs
    <3>4. \A j \in Configs : k <= j
      BY <1>2, <1>4 DEF Configs, PassedNoConfig
    <3>5. QED
      BY <2>1, <2>2, <3>1, <3>3, <3>4 DEF FeeIsRead, FailsClosed, FeeIsFound
  <2>3. CASE result' = NotFound
    <3>1. phase' = "done" /\ size = Whole =>
            \A j \in Configs : \E i \in Configs : i <= j /\ tlv[i].length < ConfigNeeds
      <4> SUFFICES ASSUME phase' = "done", size = Whole, NEW j \in Configs
                   PROVE  \E i \in Configs : i <= j /\ tlv[i].length < ConfigNeeds
        OBVIOUS
      <4>1. ~cut
        <5>1. cursor + HeaderLen + tlv[k].length <= size
          BY <1>1, <1>2, WholeHolds
        <5>2. QED
          BY <1>2, <5>1
      <4>2. k # NotFound
        BY <1>2 DEF NotFound
      <4>3. config /\ short
        BY <1>1, <1>5, <2>3, <4>1, <4>2
      <4>4. k \in Configs /\ k <= j
        BY <1>2, <1>4, <4>3 DEF Configs, PassedNoConfig
      <4>5. QED
        BY <4>3, <4>4
    <3>2. QED
      BY <1>1, <2>1, <2>3, <3>1 DEF FeeIsRead, FailsClosed, FeeIsFound
  <2>4. QED
    BY <1>3, <1>5, <2>2, <2>3
<1>11. QED
  BY <1>7, <1>8, <1>9, <1>10 DEF TlvInv

LEMMA StepReads == TlvInv /\ [TlvNext]_tlvVars => TlvInv'
<1> SUFFICES ASSUME TlvInv, [TlvNext]_tlvVars PROVE TlvInv'
  OBVIOUS
<1>1. CASE UNCHANGED tlvVars
  <2>1. /\ isMint' = isMint /\ tlv' = tlv /\ size' = size /\ phase' = phase
        /\ cursor' = cursor /\ touched' = touched /\ result' = result
    BY <1>1 DEF tlvVars
  <2>2. ListTyped'
    BY <2>1 DEF TlvInv, ListTyped, EntryLists, Entries
  <2>3. \A k : StartOf(k)' = StartOf(k)
    BY <2>1, Zenon DEF StartOf
  <2>4. \A n : PassedNoConfig(n)' = PassedNoConfig(n)
    BY <2>1 DEF PassedNoConfig
  <2>5. AtHead'
    <3>1. AtHead
      BY DEF TlvInv
    <3>2. QED
      BY <2>1, <2>3, <2>4, <3>1 DEF AtHead
  <2>6. InBounds'
    BY <2>1 DEF TlvInv, InBounds
  <2>7. FeeIsRead'
    BY <2>1, <2>3 DEF TlvInv, FeeIsRead, FailsClosed, FeeIsFound, NotFound,
                      Whole, Configs
  <2>8. QED
    BY <2>2, <2>5, <2>6, <2>7 DEF TlvInv
<1>2. QED
  BY <1>1, OpenReads, EndReads, EntryReads DEF TlvNext

(* Wherever the data stops and whatever entries it holds, no byte past its *)
(* end is read.                                                            *)
THEOREM ReadsInBounds == TlvSpec => []InBounds
<1>1. TlvInv => InBounds
  BY DEF TlvInv
<1>2. QED
  BY <1>1, InitReads, StepReads, PTL DEF TlvSpec

(* A mint cut short reads as no fee or as the fee it has, and the fee of a *)
(* whole mint is found, whatever entries come before it.                   *)
THEOREM FeeIsNotMissed == TlvSpec => []FeeIsRead
<1>1. TlvInv => FeeIsRead
  BY DEF TlvInv
<1>2. QED
  BY <1>1, InitReads, StepReads, PTL DEF TlvSpec
=============================================================================
