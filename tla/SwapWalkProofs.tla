---------------------------- MODULE SwapWalkProofs ----------------------------
(***************************************************************************)
(* For every ladder, fee schedule and budget, a walk stays inside the band,*)
(* never overdraws a bin or its budget, and leaves every bin it passed     *)
(* sold out: only the active bin ever holds both tokens.                   *)
(*                                                                         *)
(* The invariant is proved together with the bound of the budget below     *)
(* u64::MAX, where swap_in_bin's saturated requirement means what it says. *)
(*                                                                         *)
(* From there: a burst charges a bin one rate, because its references are  *)
(* those it began with; the walk taken bin by bin is the recursive one,    *)
(* turn for turn; a size that was advised fills; and no sequence of swaps  *)
(* takes inventory for nothing, because every fill leaves the pool worth   *)
(* no less at the prices it trades at and the sides stay sorted.           *)
(***************************************************************************)
EXTENDS SwapWalk, LadderWalkProofs

(* What a swap may bring.                                                  *)
Sizes == 0 .. U64Max - 1

BudgetsBounded ==
  /\ order.budget \in Sizes
  /\ advice \in [forY : BOOLEAN, size : Sizes \cup {-1}]
IInv == TypeOK /\ SidesKept /\ BudgetsBounded

-----------------------------------------------------------------------------
(***************************************************************************)
(* One bin of the walk.                                                    *)
(***************************************************************************)
LEMMA CopyTyped ==
  ASSUME IInv, CanVisit
  PROVE  /\ copy.active \in Bins /\ order.forY \in BOOLEAN
         /\ copy.x \in [Bins -> Nat] /\ copy.y \in [Bins -> Nat]
         /\ copy.x[copy.active] \in Nat /\ copy.y[copy.active] \in Nat
         /\ Available(copy, order.forY) \in Nat
         /\ left \in Sizes /\ left \in Nat /\ left <= order.budget
         /\ visits \in 0 .. MaxBinsPerSwap - 1 /\ visits + 1 \in 0 .. MaxBinsPerSwap
         /\ BinFees \in FeeState
         /\ BinRate \in 0 .. FeePrecision - 1
<1>1. copy \in Market /\ copyFees \in FeeState /\ order \in Orders
  BY DEF IInv, TypeOK
<1>2. copy.active \in Bins /\ order.forY \in BOOLEAN
  BY <1>1 DEF Market, Orders
<1>3. /\ copy.x \in [Bins -> Nat] /\ copy.y \in [Bins -> Nat]
      /\ copy.x[copy.active] \in Nat /\ copy.y[copy.active] \in Nat
      /\ Available(copy, order.forY) \in Nat
  BY <1>1, <1>2 DEF Market, Available
<1>4. left \in Sizes /\ left \in Nat /\ left <= order.budget
  BY ScaleAssumption DEF IInv, TypeOK, BudgetsBounded, Sizes
<1>5. visits \in 0 .. MaxBinsPerSwap - 1 /\ visits + 1 \in 0 .. MaxBinsPerSwap
  BY LadderAssumption DEF IInv, TypeOK, CanVisit
<1>6. BinFees \in FeeState
  BY <1>1, <1>2, AccumulatorTyped DEF BinFees
<1>7. StepOf[copy.active] \in Nat
  BY <1>2, LadderAssumption
<1>8. BinRate \in 0 .. FeePrecision - 1
  BY <1>6, <1>7, RateTyped DEF BinRate
<1>9. QED
  BY <1>2, <1>3, <1>4, <1>5, <1>6, <1>8

LEMMA FillTyped ==
  ASSUME IInv, CanVisit
  PROVE  /\ Fill.amountIn \in Nat /\ Fill.binIn \in Nat /\ Fill.binOut \in Nat
         /\ Fill.amountIn <= left /\ Fill.binOut <= Available(copy, order.forY)
         /\ Fill # NoSwap /\ Remaining(Fill) > 0 => Fill.binOut = Available(copy, order.forY)
<1>1. PriceOf[copy.active] \in Nat \ {0} /\ (QuoteOnly /\ order.forY) \in BOOLEAN
  BY CopyTyped, LadderAssumption
<1>2. FairFill(Fill, Available(copy, order.forY), PriceOf[copy.active], left, order.forY,
               QuoteOnly /\ order.forY)
  BY <1>1, CopyTyped, SwapIsFair DEF Fill, FeeOnOutput
<1>3. ASSUME Fill # NoSwap, Remaining(Fill) > 0
      PROVE  Fill.binOut = Available(copy, order.forY)
  <2>1. /\ Available(copy, order.forY) \in Nat /\ left \in Nat
        /\ order.forY \in BOOLEAN
    BY CopyTyped
  <2> DEFINE available == Available(copy, order.forY)
             price == PriceOf[copy.active]
             onOutput == QuoteOnly /\ order.forY
  <2>2. Fill = SwapInBin(available, price, left, order.forY, BinRate, onOutput)
    BY DEF Fill, FeeOnOutput
  <2>3. price \in Nat \ {0} /\ onOutput \in BOOLEAN
    BY <1>1
  <2>4. left - Fill.amountIn > 0
    BY <1>3 DEF Remaining
  <2> HIDE DEF available, price, onOutput
  <2>5. available \in Nat
    BY <2>1 DEF available
  <2>6. Fill.binOut = available
    BY <1>3, <2>1, <2>2, <2>3, <2>4, <2>5, LeftoverMeansDrained
  <2>7. QED
    BY <2>6 DEF available
<1>4. QED
  BY <1>2, <1>3 DEF FairFill

-----------------------------------------------------------------------------
(***************************************************************************)
(* The invariant.                                                          *)
(***************************************************************************)
LEMMA InitInv == Init => IInv
<1> SUFFICES ASSUME Init PROVE IInv
  OBVIOUS
<1>1. market \in Market
  BY WalkAssumption DEF Init, Market
<1>2. fees \in FeeState
  BY <1>1 DEF Init, Market, FeeState
<1>3. TypeOK
  BY <1>1, <1>2, LadderAssumption, FeeAssumption DEF Init, TypeOK, NoOrder, Orders, Kinds
<1>4. SidesKept
  BY DEF Init, SidesKept
<1>5. BudgetsBounded
  BY ScaleAssumption DEF Init, BudgetsBounded, NoOrder, NoAdvice, Sizes
<1>6. QED
  BY <1>3, <1>4, <1>5 DEF IInv

(* A bin left behind holds none of the token the walk buys.                *)
LEMMA LeaveInv ==
  ASSUME IInv, CanVisit, NEW x \in [Bins -> Nat], NEW y \in [Bins -> Nat],
         NEW remaining \in 0 .. left, Leave(x, y, remaining),
         Sided([active |-> copy.active, x |-> x, y |-> y]),
         remaining > 0 => (IF order.forY THEN y[copy.active] ELSE x[copy.active]) = 0
  PROVE  /\ copy' \in Market /\ Sided(copy')
         /\ phase' \in {"ready", "walking", "ended"}
         /\ left' \in 0 .. order.budget /\ visits' \in 0 .. MaxBinsPerSwap
<1>1. left \in Nat /\ left <= order.budget /\ order.budget \in Nat
  BY CopyTyped DEF IInv, TypeOK, Orders
<1>2. left' \in 0 .. order.budget /\ visits' \in 0 .. MaxBinsPerSwap
  BY <1>1, CopyTyped DEF Leave
<1>3. phase' \in {"ready", "walking", "ended"}
  BY DEF Leave
<1> DEFINE next == copy.active + Step(order.forY)
           onward == remaining > 0 /\ next \in Bins
<1>4. copy' = [active |-> IF onward THEN next ELSE copy.active, x |-> x, y |-> y]
  BY DEF Leave
<1>5. copy.active \in Bins /\ copy.active \in Int /\ order.forY \in BOOLEAN
  BY CopyTyped, LadderAssumption DEF Bins
<1>6. copy' \in Market
  BY <1>4, <1>5 DEF Market
<1>7. CASE ~onward
  BY <1>2, <1>3, <1>4, <1>6, <1>7
<1>8. CASE onward
  <2>1. copy'.active = next /\ copy'.x = x /\ copy'.y = y
    BY <1>4, <1>8
  <2>2. \A b \in Bins : b \in Int
    BY LadderAssumption DEF Bins
  <2>3. CASE order.forY
    <3>1. next = copy.active - 1 /\ y[copy.active] = 0
      BY <1>8, <2>3 DEF Step
    <3>2. ASSUME NEW b \in Bins
          PROVE  /\ b > next => y[b] = 0
                 /\ b < next => x[b] = 0
      BY <1>5, <2>2, <3>1 DEF Sided
    <3>3. QED
      BY <1>2, <1>3, <1>6, <2>1, <3>2 DEF Sided
  <2>4. CASE ~order.forY
    <3>1. next = copy.active + 1 /\ x[copy.active] = 0
      BY <1>8, <2>4 DEF Step
    <3>2. ASSUME NEW b \in Bins
          PROVE  /\ b > next => y[b] = 0
                 /\ b < next => x[b] = 0
      BY <1>5, <2>2, <3>1 DEF Sided
    <3>3. QED
      BY <1>2, <1>3, <1>6, <2>1, <3>2 DEF Sided
  <2>5. QED
    BY <2>3, <2>4
<1>9. QED
  BY <1>7, <1>8

LEMMA SkipInv == IInv /\ SkipEmptyBin => IInv'
<1> SUFFICES ASSUME IInv, SkipEmptyBin PROVE IInv'
  OBVIOUS
<1>1. CanVisit /\ Leave(copy.x, copy.y, left) /\ Available(copy, order.forY) = 0
  BY DEF SkipEmptyBin
<1>2. left \in 0 .. left
  BY <1>1, CopyTyped
<1>3. Sided([active |-> copy.active, x |-> copy.x, y |-> copy.y])
  BY DEF IInv, SidesKept, Sided
<1>4. (IF order.forY THEN copy.y[copy.active] ELSE copy.x[copy.active]) = 0
  BY <1>1 DEF Available
<1>5. /\ copy' \in Market /\ Sided(copy')
      /\ phase' \in {"ready", "walking", "ended"}
      /\ left' \in 0 .. order.budget /\ visits' \in 0 .. MaxBinsPerSwap
  BY <1>1, <1>2, <1>3, <1>4, CopyTyped, LeaveInv
<1>6. QED
  BY <1>5 DEF IInv, TypeOK, SidesKept, Sided, BudgetsBounded, SkipEmptyBin

LEMMA DustInv == IInv /\ StopAtDust => IInv'
<1> SUFFICES ASSUME IInv, StopAtDust PROVE IInv'
  OBVIOUS
<1>1. CanVisit /\ visits' = visits + 1 /\ copyFees' = BinFees
  BY DEF StopAtDust
<1>2. visits' \in 0 .. MaxBinsPerSwap /\ copyFees' \in FeeState
  BY <1>1, CopyTyped
<1>3. QED
  BY <1>2 DEF IInv, TypeOK, SidesKept, Sided, BudgetsBounded, StopAtDust

LEMMA FillInv == IInv /\ FillFromBin => IInv'
<1> SUFFICES ASSUME IInv, FillFromBin PROVE IInv'
  OBVIOUS
<1> DEFINE b == copy.active
           newX == IF order.forY THEN copy.x[b] + Fill.binIn ELSE copy.x[b] - Fill.binOut
           newY == IF order.forY THEN copy.y[b] - Fill.binOut ELSE copy.y[b] + Fill.binIn
           x == [copy.x EXCEPT ![b] = newX]
           y == [copy.y EXCEPT ![b] = newY]
<1>1. /\ CanVisit /\ Fill # NoSwap /\ copyFees' = BinFees
      /\ Leave(x, y, Remaining(Fill))
  BY DEF FillFromBin
<1>2. /\ Fill.amountIn \in Nat /\ Fill.binIn \in Nat /\ Fill.binOut \in Nat
      /\ Fill.amountIn <= left /\ Fill.binOut <= Available(copy, order.forY)
      /\ Remaining(Fill) > 0 => Fill.binOut = Available(copy, order.forY)
  BY <1>1, FillTyped
<1>3. /\ b \in Bins /\ order.forY \in BOOLEAN
      /\ copy.x \in [Bins -> Nat] /\ copy.y \in [Bins -> Nat]
      /\ copy.x[b] \in Nat /\ copy.y[b] \in Nat
      /\ left \in Nat /\ BinFees \in FeeState
  BY <1>1, CopyTyped
<1>4. newX \in Nat /\ newY \in Nat
  BY <1>2, <1>3 DEF Available
<1>5. Remaining(Fill) > 0 => (IF order.forY THEN newY ELSE newX) = 0
  BY <1>2, <1>3 DEF Available
<1> HIDE DEF newX, newY
<1>6. x \in [Bins -> Nat] /\ y \in [Bins -> Nat] /\ x[b] = newX /\ y[b] = newY
  BY <1>3, <1>4
<1>7. Sided([active |-> b, x |-> x, y |-> y])
  <2>1. Sided(copy)
    BY DEF IInv, SidesKept
  <2>2. \A c \in Bins : c # b => x[c] = copy.x[c] /\ y[c] = copy.y[c]
    BY <1>3
  <2>3. \A c \in Bins : c \in Int
    BY LadderAssumption DEF Bins
  <2>4. QED
    BY <1>3, <2>1, <2>2, <2>3 DEF Sided
<1>8. Remaining(Fill) \in 0 .. left
  BY <1>2, <1>3 DEF Remaining
<1>9. Remaining(Fill) > 0 => (IF order.forY THEN y[b] ELSE x[b]) = 0
  BY <1>5, <1>6
<1> HIDE DEF x, y
<1>10. /\ copy' \in Market /\ Sided(copy')
       /\ phase' \in {"ready", "walking", "ended"}
       /\ left' \in 0 .. order.budget /\ visits' \in 0 .. MaxBinsPerSwap
  BY <1>1, <1>6, <1>7, <1>8, <1>9, LeaveInv
<1>11. QED
  BY <1>1, <1>3, <1>10 DEF IInv, TypeOK, SidesKept, Sided, BudgetsBounded, FillFromBin

LEMMA BeginInv ==
  ASSUME IInv, NEW kind \in Kinds, NEW forY \in BOOLEAN,
         NEW budget \in Budgets \cup ({advice.size} \ {-1, 0}), Begin(kind, forY, budget)
  PROVE  IInv'
<1>1. budget \in Sizes /\ budget \in Nat
  BY WalkAssumption, ScaleAssumption DEF IInv, BudgetsBounded, Sizes
<1>2. fees \in FeeState /\ market.active \in Bins /\ idle \in Nat
  BY FeeAssumption DEF IInv, TypeOK, Market
<1>3. copyFees' \in FeeState
  BY <1>2, ReferencesTyped DEF Begin
<1>4. order' \in Orders /\ order'.budget = budget
  BY <1>1 DEF Begin, Orders
<1>5. TypeOK'
  BY <1>1, <1>3, <1>4, FeeAssumption, LadderAssumption DEF IInv, TypeOK, Begin
<1>6. QED
  BY <1>1, <1>4, <1>5 DEF IInv, SidesKept, Sided, BudgetsBounded, Begin

(* A walk that is over leaves its copies in step with the pool.            *)
LEMMA RestInv ==
  ASSUME IInv, AtRest, arrays' = arrays, market' \in Market, fees' \in FeeState,
         Sided(market'), idle' \in 0 .. DecayPeriod,
         advice' \in [forY : BOOLEAN, size : Sizes \cup {-1}]
  PROVE  IInv'
<1>1. order' \in Orders /\ order'.budget = 0 /\ 0 \in Sizes
  BY ScaleAssumption DEF AtRest, NoOrder, Orders, Kinds, Sizes
<1>2. TypeOK'
  BY <1>1, LadderAssumption DEF IInv, TypeOK, AtRest
<1>3. SidesKept'
  BY DEF SidesKept, Sided, AtRest
<1>4. QED
  BY <1>1, <1>2, <1>3 DEF IInv, BudgetsBounded

LEMMA CommitInv == IInv /\ Commit => IInv'
<1> SUFFICES ASSUME IInv, Commit PROVE IInv'
  OBVIOUS
<1>1. market' \in Market /\ fees' \in FeeState /\ Sided(market')
  BY DEF Commit, IInv, TypeOK, SidesKept, Sided
<1>2. idle' \in 0 .. DecayPeriod
  BY FeeAssumption DEF Commit
<1>3. advice' \in [forY : BOOLEAN, size : Sizes \cup {-1}]
  BY DEF Commit, NoAdvice
<1>4. QED
  BY <1>1, <1>2, <1>3, RestInv DEF Commit

LEMMA DiscardInv == IInv /\ Discard => IInv'
<1> SUFFICES ASSUME IInv, Discard PROVE IInv'
  OBVIOUS
<1>1. market' \in Market /\ fees' \in FeeState /\ Sided(market') /\ idle' \in 0 .. DecayPeriod
  BY DEF Discard, IInv, TypeOK, SidesKept, Sided
<1>2. order.budget - left \in Sizes /\ order.forY \in BOOLEAN
  BY ScaleAssumption DEF IInv, TypeOK, Orders, BudgetsBounded, Sizes
<1>3. advice' \in [forY : BOOLEAN, size : Sizes \cup {-1}]
  BY <1>2 DEF Discard, IInv, BudgetsBounded
<1>4. QED
  BY <1>1, <1>3, RestInv DEF Discard

LEMMA StepInv == IInv /\ [Next]_vars => IInv'
<1> SUFFICES ASSUME IInv, [Next]_vars PROVE IInv'
  OBVIOUS
<1>1. CASE UNCHANGED vars
  BY <1>1 DEF vars, walkVars, IInv, TypeOK, SidesKept, Sided, BudgetsBounded
<1>2. CASE Wait
  <2>1. idle' \in 0 .. DecayPeriod
    BY <1>2, FeeAssumption DEF Wait, IInv, TypeOK
  <2>2. advice' \in [forY : BOOLEAN, size : Sizes \cup {-1}]
    BY <1>2 DEF Wait, NoAdvice
  <2>3. QED
    BY <1>2, <2>1, <2>2
       DEF Wait, walkVars, IInv, TypeOK, SidesKept, Sided, BudgetsBounded
<1>3. QED
  BY <1>1, <1>2, BeginInv, SkipInv, DustInv, FillInv, CommitInv, DiscardInv DEF Next

(* The strengthening holds in every reachable state.                       *)
THEOREM WalkInvariance == Spec => []IInv
  BY InitInv, StepInv, PTL DEF Spec

(* No walk leaves the band, overdraws a bin or spends more than its budget.*)
THEOREM WalkTyped == Spec => []TypeOK
<1>1. IInv => TypeOK
  BY DEF IInv
<1>2. QED
  BY <1>1, WalkInvariance, PTL

(* Only the active bin ever holds both tokens.                             *)
THEOREM SidesAreKept == Spec => []SidesKept
<1>1. IInv => SidesKept
  BY DEF IInv
<1>2. QED
  BY <1>1, WalkInvariance, PTL

-----------------------------------------------------------------------------
(***************************************************************************)
(* The fee of a burst.  A bin's rate depends on the references alone, the  *)
(* accumulator of the moment being overwritten on the way; so the rates of *)
(* a walk, and those of the swaps before it that moved no reference, are   *)
(* the ones the references give.                                           *)
(***************************************************************************)
RateAt(f, b) == FeeRateForStep(UpdateAccumulator(f, b), StepOf[b])
SameReferences(f, g) == f.index = g.index /\ f.reference = g.reference

BurstInv ==
  /\ rates \in [Bins -> Nat \cup {NotCharged}]
  /\ phase # "ready" =>
       /\ SameReferences(copyFees, UpdateReferences(fees, market.active, idle))
       /\ \A b \in Bins : rates[b] # NotCharged => rates[b] = RateAt(copyFees, b)
  /\ \A b \in Bins : charged[b] # NotCharged => charged[b] = RateAt(fees, b)

LEMMA RateByReferences ==
  ASSUME NEW f \in FeeState, NEW g \in FeeState, SameReferences(f, g)
  PROVE  \A b \in Bins : RateAt(f, b) = RateAt(g, b)
<1> SUFFICES ASSUME NEW b \in Bins PROVE RateAt(f, b) = RateAt(g, b)
  OBVIOUS
<1>1. UpdateAccumulator(f, b).accumulator = UpdateAccumulator(g, b).accumulator
  BY DEF UpdateAccumulator, FeeState, SameReferences
<1>2. QED
  BY <1>1 DEF RateAt, FeeRateForStep

LEMMA ReferencesKept ==
  ASSUME NEW f \in FeeState, NEW b \in Bins
  PROVE  SameReferences(UpdateAccumulator(f, b), f)
  BY DEF UpdateAccumulator, FeeState, SameReferences

LEMMA BurstInit == Init => BurstInv
<1> SUFFICES ASSUME Init PROVE BurstInv
  OBVIOUS
<1>1. rates = [b \in Bins |-> NotCharged] /\ charged = [b \in Bins |-> NotCharged]
  BY DEF Init, Uncharged
<1>2. phase = "ready"
  BY DEF Init
<1>3. QED
  BY <1>1, <1>2 DEF BurstInv

LEMMA BurstStep == IInv /\ BurstInv /\ [Next]_vars => BurstInv'
<1> SUFFICES ASSUME IInv, BurstInv, [Next]_vars PROVE BurstInv'
  OBVIOUS
<1> USE DEF BurstInv
<1>1. fees \in FeeState /\ copyFees \in FeeState /\ market.active \in Bins /\ idle \in Nat
  BY FeeAssumption DEF IInv, TypeOK, Market
<1>2. UpdateReferences(fees, market.active, idle) \in FeeState
  BY <1>1, ReferencesTyped
<1>3. CASE UNCHANGED vars
  BY <1>3 DEF vars, walkVars
<1>4. ASSUME NEW kind \in Kinds, NEW forY \in BOOLEAN,
             NEW budget \in Budgets \cup ({advice.size} \ {-1, 0}), Begin(kind, forY, budget)
      PROVE  BurstInv'
  <2>1. rates' = [b \in Bins |-> NotCharged]
    BY <1>4 DEF Begin, Uncharged
  <2>2. /\ copyFees' = UpdateReferences(fees, market.active, idle)
        /\ fees' = fees /\ market' = market /\ idle' = idle /\ charged' = charged
    BY <1>4 DEF Begin
  <2>3. QED
    BY <2>1, <2>2 DEF SameReferences
<1>5. CASE SkipEmptyBin
  BY <1>5 DEF SkipEmptyBin, CanVisit
<1>6. CASE StopAtDust
  <2>1. CanVisit /\ copyFees' = BinFees /\ phase = "walking"
    BY <1>6 DEF StopAtDust, CanVisit
  <2>2. BinFees \in FeeState /\ SameReferences(BinFees, copyFees)
    BY <1>1, <2>1, CopyTyped, ReferencesKept DEF BinFees
  <2>3. \A b \in Bins : RateAt(copyFees', b) = RateAt(copyFees, b)
    BY <1>1, <2>1, <2>2, RateByReferences
  <2>4. SameReferences(copyFees', UpdateReferences(fees, market.active, idle))
    BY <2>1, <2>2 DEF SameReferences
  <2>5. QED
    BY <1>6, <2>1, <2>3, <2>4 DEF StopAtDust
<1>7. CASE FillFromBin
  <2>1. /\ CanVisit /\ copyFees' = BinFees /\ phase = "walking"
        /\ rates' = [rates EXCEPT ![copy.active] = BinRate]
        /\ fees' = fees /\ market' = market /\ idle' = idle /\ charged' = charged
    BY <1>7 DEF FillFromBin, CanVisit
  <2>2. BinFees \in FeeState /\ SameReferences(BinFees, copyFees)
    BY <1>1, <2>1, CopyTyped, ReferencesKept DEF BinFees
  <2>3. \A b \in Bins : RateAt(copyFees', b) = RateAt(copyFees, b)
    BY <1>1, <2>1, <2>2, RateByReferences
  <2>4. SameReferences(copyFees', UpdateReferences(fees, market.active, idle))
    BY <2>1, <2>2 DEF SameReferences
  <2>5. BinRate = RateAt(copyFees, copy.active) /\ BinRate \in Nat
    BY <2>1, CopyTyped, ScaleAssumption DEF BinRate, BinFees, RateAt
  <2>6. /\ rates' \in [Bins -> Nat \cup {NotCharged}]
        /\ \A b \in Bins : rates'[b] # NotCharged => rates'[b] = RateAt(copyFees, b)
    BY <2>1, <2>5
  <2>7. QED
    BY <2>1, <2>3, <2>4, <2>6
<1>8. CASE Commit
  <2>1. /\ phase # "ready" /\ fees' = copyFees /\ phase' = "ready"
        /\ rates' = [b \in Bins |-> NotCharged]
        /\ charged' = [b \in Bins |-> IF rates[b] # NotCharged THEN rates[b]
                                      ELSE IF idle < FilterPeriod THEN charged[b]
                                      ELSE NotCharged]
    BY <1>8 DEF Commit, WalkOver, AtRest, Uncharged
  <2>2. idle < FilterPeriod => SameReferences(copyFees, fees)
    BY <2>1 DEF UpdateReferences
  <2>3. ASSUME NEW b \in Bins, charged'[b] # NotCharged PROVE charged'[b] = RateAt(fees', b)
    <3>1. CASE rates[b] # NotCharged
      BY <2>1, <3>1
    <3>2. CASE rates[b] = NotCharged
      <4>1. idle < FilterPeriod /\ charged'[b] = charged[b] /\ charged[b] # NotCharged
        BY <2>1, <2>3, <3>2
      <4>2. RateAt(copyFees, b) = RateAt(fees, b)
        BY <1>1, <2>2, <4>1, RateByReferences
      <4>3. QED
        BY <2>1, <4>1, <4>2
    <3>3. QED
      BY <3>1, <3>2
  <2>4. QED
    BY <2>1, <2>3
<1>9. CASE Discard
  <2>1. /\ fees' = fees /\ phase' = "ready" /\ charged' = charged
        /\ rates' = [b \in Bins |-> NotCharged]
    BY <1>9 DEF Discard, AtRest, Uncharged
  <2>2. QED
    BY <2>1
<1>10. CASE Wait
  BY <1>10 DEF Wait, walkVars
<1>11. QED
  BY <1>3, <1>4, <1>5, <1>6, <1>7, <1>8, <1>9, <1>10 DEF Next

(* In a burst, a bin charges every swap the rate it charged the first.     *)
THEOREM BurstIsFlat == Spec => []SameFeeWithinBurst
<1>1. IInv /\ BurstInv => SameFeeWithinBurst
  <2> SUFFICES ASSUME IInv, BurstInv, phase # "ready", idle < FilterPeriod,
                      NEW b \in Bins, rates[b] # NotCharged, charged[b] # NotCharged
               PROVE  rates[b] = charged[b]
    BY DEF SameFeeWithinBurst
  <2>1. fees \in FeeState /\ copyFees \in FeeState
    BY DEF IInv, TypeOK
  <2>2. SameReferences(copyFees, fees)
    BY DEF BurstInv, UpdateReferences
  <2>3. QED
    BY <2>1, <2>2, RateByReferences DEF BurstInv
<1>2. QED
  BY <1>1, BurstInit, BurstStep, WalkInvariance, PTL DEF Spec

-----------------------------------------------------------------------------
(***************************************************************************)
(* The walk bin by bin and the walk as a function.                         *)
(***************************************************************************)
(* The function's own sequence of states, at the order being walked, and   *)
(* what it says will be left of a budget.                                  *)
Walked == Turns(market, fees, idle, arrays, order.budget, order.forY)
LeftOf(budget, forY) == WalkLadder(market, fees, idle, arrays, budget, forY).left

InStep ==
  phase # "ready" =>
    /\ Walked[visits].market = copy /\ Walked[visits].fees = copyFees
    /\ Walked[visits].left = left /\ (Walked[visits].over <=> phase = "ended")
AdviceHolds == advice.size > 0 => LeftOf(advice.size, advice.forY) = 0
WalkInv == InStep /\ AdviceHolds

LEMMA WalkedTyped ==
  ASSUME IInv
  PROVE  /\ Walks(Walked, MaxBinsPerSwap,
                  Start(market, fees, idle, order.budget), order.forY, arrays)
         /\ WalkLadder(market, fees, idle, arrays, order.budget, order.forY)
              = Walked[MaxBinsPerSwap]
         /\ Start(market, fees, idle, order.budget) \in WalkState
         /\ order.forY \in BOOLEAN /\ MaxBinsPerSwap \in Nat
         /\ \A n \in 0 .. MaxBinsPerSwap : Walked[n] \in WalkState
<1>1. /\ market \in Market /\ fees \in FeeState /\ idle \in Nat
      /\ order.forY \in BOOLEAN /\ order.budget \in Nat
      /\ MaxBinsPerSwap \in Nat
  BY FeeAssumption, LadderAssumption DEF IInv, TypeOK, Orders
<1> DEFINE start == Start(market, fees, idle, order.budget)
<1>2. /\ Walks(Walked, MaxBinsPerSwap, start, order.forY, arrays)
      /\ WalkLadder(market, fees, idle, arrays, order.budget, order.forY)
           = Walked[MaxBinsPerSwap]
  BY WalkIsItsTurns DEF Walked
<1>3. start \in WalkState /\ start.left = order.budget
  BY <1>1, StartTyped
<1> HIDE DEF start
<1>4. \A n \in 0 .. MaxBinsPerSwap : Walked[n] \in WalkState /\ Walked[n].left <= start.left
  BY <1>1, <1>2, <1>3, WalkTurnsTyped
<1>5. QED
  BY <1>1, <1>2, <1>3, <1>4 DEF start

(* A visit is the next turn of the function.                               *)
LEMMA NextTurn ==
  ASSUME IInv, InStep, CanVisit
  PROVE  /\ Walked[visits] \in WalkState
         /\ ~Walked[visits].over
         /\ Walked[visits].market = copy /\ Walked[visits].fees = copyFees
         /\ Walked[visits].left = left
         /\ Walked[visits + 1] = Turn(Walked[visits], order.forY, arrays)
         /\ ~Halted(Walked[visits], arrays)
<1>1. visits \in 0 .. MaxBinsPerSwap - 1 /\ visits \in 0 .. MaxBinsPerSwap
  BY CopyTyped, LadderAssumption
<1>2. /\ Walked[visits].market = copy /\ Walked[visits].fees = copyFees
      /\ Walked[visits].left = left /\ ~Walked[visits].over
  BY DEF InStep, CanVisit
<1>3. Walked[visits] \in WalkState
  BY <1>1, WalkedTyped
<1>4. Walked[visits + 1] = After(Walked[visits], order.forY, arrays)
  BY <1>1, WalkedTyped, WalkSteps
<1>5. ~Halted(Walked[visits], arrays)
  BY <1>2, CopyTyped DEF Halted, CanVisit
<1>6. QED
  BY <1>2, <1>3, <1>4, <1>5 DEF After

(* The tail of the loop is the tail of the turn.                           *)
LEMMA LeaveMovesOn ==
  ASSUME NEW w \in WalkState, order.forY \in BOOLEAN, w.market.active = copy.active, ~w.over,
         Leave(w.market.x, w.market.y, w.left)
  PROVE  LET v == MoveOn(w, order.forY)
         IN  /\ v.market = copy' /\ v.left = left' /\ (v.over <=> phase' = "ended")
             /\ v.fees = w.fees
<1> DEFINE v == MoveOn(w, order.forY)
           next == copy.active + Step(order.forY)
<1>1. /\ v \in WalkState
      /\ v.market.x = w.market.x /\ v.market.y = w.market.y
      /\ v.market.active = IF w.left = 0 \/ next \notin Bins THEN copy.active ELSE next
      /\ v.fees = w.fees /\ v.left = w.left
      /\ v.over = (w.left = 0 \/ next \notin Bins)
  BY MoveOnFields
<1>2. w.left > 0 <=> w.left # 0
  BY DEF WalkState
<1>3. /\ copy' = [active |-> v.market.active, x |-> v.market.x, y |-> v.market.y]
      /\ left' = v.left /\ (v.over <=> phase' = "ended")
  BY <1>1, <1>2 DEF Leave
<1>4. v.market = [active |-> v.market.active, x |-> v.market.x, y |-> v.market.y]
  BY <1>1 DEF WalkState, Market
<1>5. QED
  BY <1>1, <1>3, <1>4

LEMMA SkipInStep == IInv /\ InStep /\ SkipEmptyBin => InStep'
<1> SUFFICES ASSUME IInv, InStep, SkipEmptyBin PROVE InStep'
  OBVIOUS
<1> DEFINE w == Walked[visits]
<1>1. /\ CanVisit /\ Available(copy, order.forY) = 0 /\ Leave(copy.x, copy.y, left)
      /\ Walked' = Walked /\ visits' = visits + 1 /\ copyFees' = copyFees
  BY DEF SkipEmptyBin, Walked, Leave
<1>2. /\ w \in WalkState /\ ~w.over /\ w.market = copy /\ w.fees = copyFees /\ w.left = left
      /\ Walked[visits + 1] = Turn(w, order.forY, arrays) /\ ~Halted(w, arrays)
  BY <1>1, NextTurn
<1> HIDE DEF w
<1>3. Turn(w, order.forY, arrays) = MoveOn(w, order.forY)
  BY <1>1, <1>2, TurnCases
<1>4. Leave(w.market.x, w.market.y, w.left) /\ order.forY \in BOOLEAN
  BY <1>1, <1>2, CopyTyped
<1> DEFINE v == MoveOn(w, order.forY)
<1>5. /\ v.market = copy' /\ v.left = left' /\ (v.over <=> phase' = "ended")
      /\ v.fees = w.fees
  BY <1>2, <1>4, LeaveMovesOn
<1> HIDE DEF v
<1>6. Walked'[visits'] = v
  BY <1>1, <1>2, <1>3 DEF v
<1>7. QED
  BY <1>1, <1>2, <1>5, <1>6 DEF InStep

LEMMA DustInStep == IInv /\ InStep /\ StopAtDust => InStep'
<1> SUFFICES ASSUME IInv, InStep, StopAtDust PROVE InStep'
  OBVIOUS
<1> DEFINE w == Walked[visits]
           stopped == [w EXCEPT !.fees = TurnFees(w)]
<1>1. /\ CanVisit /\ Available(copy, order.forY) # 0 /\ Fill = NoSwap
      /\ Walked' = Walked /\ visits' = visits + 1 /\ copyFees' = BinFees
      /\ copy' = copy /\ left' = left /\ phase' = "ended"
  BY CopyTyped DEF StopAtDust, Walked
<1>2. /\ w \in WalkState /\ ~w.over /\ w.market = copy /\ w.fees = copyFees /\ w.left = left
      /\ Walked[visits + 1] = Turn(w, order.forY, arrays) /\ ~Halted(w, arrays)
  BY <1>1, NextTurn
<1> HIDE DEF w
<1>3. TurnFees(w) = BinFees /\ TurnFill(w, order.forY) = Fill
  BY <1>2 DEF TurnFees, TurnFill, BinFees, Fill, BinRate
<1>4. Turn(w, order.forY, arrays) = Stop(stopped)
  BY <1>1, <1>2, <1>3, TurnCases
<1>5. TurnFees(w) \in FeeState
  BY <1>2, WalkFields, CopyTyped
<1>6. /\ stopped \in WalkState /\ stopped.market = copy /\ stopped.left = left
      /\ stopped.fees = BinFees
  BY <1>2, <1>3, <1>5 DEF WalkState
<1> HIDE DEF stopped
<1>7. /\ Stop(stopped).market = copy /\ Stop(stopped).left = left
      /\ Stop(stopped).fees = BinFees /\ Stop(stopped).over
  BY <1>6, StopFields
<1>8. Walked'[visits'] = Stop(stopped)
  BY <1>1, <1>2, <1>4
<1>9. QED
  BY <1>1, <1>7, <1>8 DEF InStep

LEMMA FillInStep == IInv /\ InStep /\ FillFromBin => InStep'
<1> SUFFICES ASSUME IInv, InStep, FillFromBin PROVE InStep'
  OBVIOUS
<1> DEFINE w == Walked[visits]
           b == copy.active
           x == [copy.x EXCEPT ![b] = IF order.forY THEN copy.x[b] + Fill.binIn
                                      ELSE copy.x[b] - Fill.binOut]
           y == [copy.y EXCEPT ![b] = IF order.forY THEN copy.y[b] - Fill.binOut
                                      ELSE copy.y[b] + Fill.binIn]
           filled == FillBin(w, TurnFees(w), TurnFill(w, order.forY), order.forY)
<1>1. /\ CanVisit /\ Available(copy, order.forY) > 0 /\ Fill # NoSwap
      /\ Leave(x, y, Remaining(Fill))
      /\ Walked' = Walked /\ visits' = visits + 1 /\ copyFees' = BinFees
  BY DEF FillFromBin, Walked, Leave
<1>2. /\ w \in WalkState /\ ~w.over
      /\ w.market = copy /\ w.fees = copyFees /\ w.left = left
      /\ Walked[visits + 1] = Turn(w, order.forY, arrays) /\ ~Halted(w, arrays)
  BY <1>1, NextTurn
<1> HIDE DEF w
<1>3. TurnFees(w) = BinFees /\ TurnFill(w, order.forY) = Fill
  BY <1>2 DEF TurnFees, TurnFill, BinFees, Fill, BinRate
<1>4. order.forY \in BOOLEAN /\ Available(copy, order.forY) # 0
  BY <1>1, CopyTyped
<1>5. Turn(w, order.forY, arrays) = MoveOn(filled, order.forY)
  BY <1>1, <1>2, <1>3, <1>4, TurnCases
<1>6. /\ filled \in WalkState /\ ~filled.over /\ filled.fees = BinFees
      /\ filled.market.active = b /\ filled.market.x = x /\ filled.market.y = y
      /\ filled.left = Remaining(Fill)
  <2>1. /\ filled \in WalkState /\ filled.over = w.over /\ filled.fees = TurnFees(w)
        /\ filled.market.active = w.market.active
        /\ filled.left = w.left - TurnFill(w, order.forY).amountIn
    BY <1>2, <1>4, FillBinFields
  <2>2. filled.market.x = [w.market.x EXCEPT ![w.market.active] =
           IF order.forY THEN w.market.x[w.market.active] + TurnFill(w, order.forY).binIn
           ELSE w.market.x[w.market.active] - TurnFill(w, order.forY).binOut]
    BY <1>2, <1>4, FillBinFields
  <2>3. filled.market.y = [w.market.y EXCEPT ![w.market.active] =
           IF order.forY THEN w.market.y[w.market.active] - TurnFill(w, order.forY).binOut
           ELSE w.market.y[w.market.active] + TurnFill(w, order.forY).binIn]
    BY <1>2, <1>4, FillBinFields
  <2> HIDE DEF filled
  <2>4. filled.market.x = x
    BY <1>2, <1>3, <2>2
  <2>5. filled.market.y = y
    BY <1>2, <1>3, <2>3
  <2>6. QED
    BY <1>2, <1>3, <2>1, <2>4, <2>5 DEF Remaining
<1> HIDE DEF filled, x, y
<1>7. Leave(filled.market.x, filled.market.y, filled.left)
  BY <1>1, <1>6
<1> DEFINE v == MoveOn(filled, order.forY)
<1>8. /\ v.market = copy' /\ v.left = left' /\ (v.over <=> phase' = "ended")
      /\ v.fees = filled.fees
  BY <1>4, <1>6, <1>7, LeaveMovesOn
<1> HIDE DEF v
<1>9. Walked'[visits'] = v
  BY <1>1, <1>2, <1>5 DEF v
<1>10. QED
  BY <1>1, <1>6, <1>8, <1>9 DEF InStep

(* A walk that is over has got where the function gets.                    *)
LEMMA OverMeansDone ==
  ASSUME IInv, InStep, WalkOver
  PROVE  LET w == WalkLadder(market, fees, idle, arrays, order.budget, order.forY)
         IN  w.market = copy /\ w.fees = copyFees /\ w.left = left
<1> DEFINE N == MaxBinsPerSwap
           Agrees(v) == v.market = copy /\ v.fees = copyFees /\ v.left = left
<1>1. /\ visits \in 0 .. N /\ N \in Nat /\ copy.active \in Bins /\ left \in Nat
  BY LadderAssumption DEF IInv, TypeOK, Market, Orders
<1>2. Agrees(Walked[visits]) /\ (Walked[visits].over <=> phase = "ended")
  BY DEF InStep, WalkOver
<1>3. \A i \in 0 .. N : Walked[i].over => Walked[N] = Walked[i]
  <2> SUFFICES ASSUME NEW i \in 0 .. N, Walked[i].over PROVE Walked[N] = Walked[i]
    OBVIOUS
  <2>1. N \in i .. N
    BY <1>1
  <2>2. \A n \in i .. N : /\ Walked[n].left <= Walked[i].left
                          /\ Walked[i].over => Walked[n] = Walked[i]
    BY WalkedTyped, WalkSettles
  <2>3. QED
    BY <2>1, <2>2
<1>4. Agrees(Walked[N])
  <2>1. CASE phase = "ended"
    BY <1>1, <1>2, <1>3, <2>1
  <2>2. CASE phase # "ended" /\ visits = N
    BY <1>2, <2>2
  <2>3. CASE phase # "ended" /\ visits # N
    <3> DEFINE w == Walked[visits]
    <3>1. visits \in 0 .. N - 1 /\ visits < N /\ visits + 1 \in 0 .. N
      BY <1>1, <2>3
    <3>2. left = 0 \/ copy.active \notin Bins \/ ArrayOf(copy.active) \notin arrays
      BY <1>1, <2>3, <3>1 DEF WalkOver, CanVisit
    <3>3. w \in WalkState /\ ~w.over /\ Agrees(w)
      BY <1>1, <1>2, <2>3, WalkedTyped
    <3>4. Walked[visits + 1] = After(w, order.forY, arrays)
      BY <3>1, WalkedTyped, WalkSteps
    <3> HIDE DEF w
    <3>5. Walked[visits + 1] = Stop(w)
      BY <3>2, <3>3, <3>4, TurnCases DEF After, Halted
    <3>6. Agrees(Walked[visits + 1]) /\ Walked[visits + 1].over
      BY <3>3, <3>5, StopFields
    <3>7. QED
      BY <1>3, <3>1, <3>6
  <2>4. QED
    BY <2>1, <2>2, <2>3
<1>5. QED
  BY <1>4, WalkedTyped

(* What a short quote advises is a size the pool fills.                    *)
LEMMA DiscardAdvises == IInv /\ WalkInv /\ Discard => AdviceHolds'
<1> SUFFICES ASSUME IInv, WalkInv, Discard PROVE AdviceHolds'
  OBVIOUS
<1>1. /\ UNCHANGED <<market, fees, idle, arrays>> /\ WalkOver
      /\ advice' = IF order.kind = "quote" /\ Short
                   THEN [forY |-> order.forY, size |-> order.budget - left]
                   ELSE advice
  BY DEF Discard
<1>2. CASE advice' = advice
  BY <1>1, <1>2 DEF WalkInv, AdviceHolds, LeftOf
<1>3. CASE advice' = [forY |-> order.forY, size |-> order.budget - left]
  <2>1. LeftOf(order.budget, order.forY) = left
    BY <1>1, OverMeansDone DEF LeftOf, WalkInv
  <2>2. /\ market \in Market /\ fees \in FeeState /\ idle \in Nat
        /\ order.budget \in Nat /\ order.forY \in BOOLEAN
    BY FeeAssumption DEF IInv, TypeOK, Orders
  <2>3. LeftOf(order.budget - left, order.forY) = 0
    BY <2>1, <2>2, ShorterWalkFills DEF LeftOf
  <2>4. QED
    BY <1>1, <1>3, <2>3 DEF AdviceHolds, LeftOf
<1>4. QED
  BY <1>1, <1>2, <1>3

LEMMA BeginInStep ==
  ASSUME IInv, NEW kind \in Kinds, NEW forY \in BOOLEAN,
         NEW budget \in Budgets \cup ({advice.size} \ {-1, 0}), Begin(kind, forY, budget)
  PROVE  InStep'
<1>1. /\ UNCHANGED <<market, fees, idle, arrays>>
      /\ order' = [kind |-> kind, forY |-> forY, budget |-> budget]
      /\ copy' = market /\ copyFees' = UpdateReferences(fees, market.active, idle)
      /\ left' = budget /\ visits' = 0 /\ phase' = "walking"
  BY DEF Begin
<1> DEFINE w == Turns(market, fees, idle, arrays, budget, forY)
           start == Start(market, fees, idle, budget)
<1>2. Walked' = w
  BY <1>1 DEF Walked
<1>3. Walks(w, MaxBinsPerSwap, start, forY, arrays) /\ MaxBinsPerSwap \in Nat
  BY WalkIsItsTurns, LadderAssumption
<1>4. w[0] = start
  BY <1>3, WalkSteps
<1>5. /\ start.market = market /\ start.fees = UpdateReferences(fees, market.active, idle)
      /\ start.left = budget /\ ~start.over
  BY DEF Start
<1> HIDE DEF w, start
<1>6. QED
  BY <1>1, <1>2, <1>4, <1>5 DEF InStep

LEMMA WalkInit == Init => WalkInv
  BY DEF Init, NoAdvice, WalkInv, InStep, AdviceHolds

LEMMA WalkStep == IInv /\ WalkInv /\ [Next]_vars => WalkInv'
<1> SUFFICES ASSUME IInv, WalkInv, [Next]_vars PROVE WalkInv'
  OBVIOUS
<1>1. CASE UNCHANGED vars
  BY <1>1 DEF vars, walkVars, WalkInv, InStep, AdviceHolds, Walked, LeftOf
<1>2. ASSUME NEW kind \in Kinds, NEW forY \in BOOLEAN,
             NEW budget \in Budgets \cup ({advice.size} \ {-1, 0}), Begin(kind, forY, budget)
      PROVE  WalkInv'
  BY <1>2, BeginInStep DEF Begin, WalkInv, AdviceHolds, LeftOf
<1>3. CASE SkipEmptyBin
  BY <1>3, SkipInStep DEF SkipEmptyBin, WalkInv, AdviceHolds, LeftOf
<1>4. CASE StopAtDust
  BY <1>4, DustInStep DEF StopAtDust, WalkInv, AdviceHolds, LeftOf
<1>5. CASE FillFromBin
  BY <1>5, FillInStep DEF FillFromBin, WalkInv, AdviceHolds, LeftOf
<1>6. CASE Commit
  BY <1>6 DEF Commit, AtRest, NoAdvice, WalkInv, InStep, AdviceHolds
<1>7. CASE Discard
  BY <1>7, DiscardAdvises DEF Discard, AtRest, WalkInv, InStep
<1>8. CASE Wait
  BY <1>8 DEF Wait, walkVars, NoAdvice, WalkInv, InStep, AdviceHolds
<1>9. QED
  BY <1>1, <1>2, <1>3, <1>4, <1>5, <1>6, <1>7, <1>8 DEF Next

(* At every turn what is left of a walk is what walk_ladder as one         *)
(* function does from there, and what a quote advises fills.               *)
THEOREM WalkKeepsStep == Spec => []WalkInv
  BY WalkInit, WalkStep, WalkInvariance, PTL DEF Spec

(* The walk taken bin by bin ends where the function its caller sees says. *)
THEOREM WalkEndsAsWalked == Spec => []EndsAsWalked
<1>1. IInv /\ WalkInv => EndsAsWalked
  BY OverMeansDone DEF WalkInv, EndsAsWalked
<1>2. QED
  BY <1>1, WalkInvariance, WalkKeepsStep, PTL

(* A size a short quote advised is one the pool fills completely.          *)
THEOREM AdviceIsGood == Spec => []AdviceFills
<1>1. IInv /\ WalkInv => AdviceFills
  <2> SUFFICES ASSUME IInv, WalkInv, WalkOver, FollowsAdvice PROVE ~Short
    BY DEF AdviceFills
  <2>1. left = LeftOf(order.budget, order.forY)
    BY OverMeansDone DEF WalkInv, LeftOf
  <2>2. left \in 0 .. order.budget /\ order.budget \in Nat
    BY DEF IInv, TypeOK, Orders
  <2>3. CASE order.budget = 0
    BY <2>2, <2>3 DEF Short
  <2>4. CASE order.budget # 0
    <3>1. advice.size > 0 /\ LeftOf(order.budget, order.forY) = 0
      BY <2>2, <2>4 DEF FollowsAdvice, WalkInv, AdviceHolds
    <3>2. QED
      BY <2>1, <3>1 DEF Short
  <2>5. QED
    BY <2>3, <2>4
<1>2. QED
  BY <1>1, WalkInvariance, WalkKeepsStep, PTL

-----------------------------------------------------------------------------
(***************************************************************************)
(* No free lunch.  At its own price no bin is ever worth less than it was. *)
(* That alone is not enough, for bins have different prices; but a pool    *)
(* keeps its sides, and of two pools that keep them one holds no less X in *)
(* every bin, or no less Y in every bin.                                   *)
(***************************************************************************)
Worth(m, b) == BinLiquidity(m.x[b], m.y[b], PriceOf[b])
NoLess(m, n) == \A b \in Bins : Worth(m, b) <= Worth(n, b)

ValueInv ==
  /\ \E m \in Market : /\ Sided(m) /\ NoLess(m, market)
                       /\ opening = [x |-> TotalOf(m.x), y |-> TotalOf(m.y)]
  /\ NoLess(market, copy)

LEMMA MarketFields ==
  ASSUME NEW m \in Market, NEW b \in Bins
  PROVE  /\ m.active \in Int /\ m.active \in Bins /\ b \in Int
         /\ m.x \in [Bins -> Nat] /\ m.y \in [Bins -> Nat]
         /\ m.x[b] \in Nat /\ m.y[b] \in Nat /\ PriceOf[b] \in Nat \ {0}
         /\ Worth(m, b) = PriceOf[b] * m.x[b] + One * m.y[b]
         /\ Worth(m, b) \in Nat
<1>1. /\ m.active \in Int /\ m.active \in Bins /\ b \in Int
      /\ m.x \in [Bins -> Nat] /\ m.y \in [Bins -> Nat]
      /\ m.x[b] \in Nat /\ m.y[b] \in Nat /\ PriceOf[b] \in Nat \ {0}
  <2>1. m.active \in Bins /\ m.x \in [Bins -> Nat] /\ m.y \in [Bins -> Nat]
    BY DEF Market
  <2>2. \A c \in Bins : c \in Int /\ PriceOf[c] \in Nat \ {0}
    BY LadderAssumption DEF Bins
  <2>3. QED
    BY <2>1, <2>2
<1>2. Worth(m, b) = PriceOf[b] * m.x[b] + One * m.y[b]
  BY DEF Worth, BinLiquidity
<1>3. PriceOf[b] * m.x[b] \in Nat /\ One * m.y[b] \in Nat
  BY <1>1, Products, ScaleAssumption
<1>4. QED
  BY <1>1, <1>2, <1>3

LEMMA NoLessTransitive ==
  ASSUME NEW l \in Market, NEW m \in Market, NEW n \in Market, NoLess(l, m), NoLess(m, n)
  PROVE  NoLess(l, n)
<1>1. \A b \in Bins : Worth(l, b) \in Nat /\ Worth(m, b) \in Nat /\ Worth(n, b) \in Nat
  BY MarketFields
<1>2. QED
  BY <1>1 DEF NoLess

LEMMA NoLessReflexive == \A m \in Market : NoLess(m, m)
<1>1. \A m \in Market : \A b \in Bins : Worth(m, b) \in Nat
  BY MarketFields
<1>2. QED
  BY <1>1 DEF NoLess

(* A bin that is worth no less and has no more of one token has no less of *)
(* the other.                                                              *)
LEMMA OneTokenMakesUp ==
  ASSUME NEW p \in Nat \ {0}, NEW q \in Nat \ {0},
         NEW a \in Nat, NEW b \in Nat, NEW c \in Nat, NEW d \in Nat,
         p * a + q * b <= p * c + q * d, c <= a
  PROVE  b <= d
<1>1. /\ p * a \in Nat /\ p * c \in Nat /\ q * b \in Nat /\ q * d \in Nat
      /\ c * p <= a * p
  BY Products, Monotone
<1>2. p * c <= p * a
  BY <1>1
<1>3. b * q <= d * q
  BY <1>1, <1>2
<1>4. QED
  BY <1>3, Monotone

LEMMA BinMakesUp ==
  ASSUME NEW m \in Market, NEW n \in Market, NoLess(m, n), NEW b \in Bins
  PROVE  /\ n.x[b] <= m.x[b] => m.y[b] <= n.y[b]
         /\ n.y[b] <= m.y[b] => m.x[b] <= n.x[b]
<1> DEFINE p == PriceOf[b]
           mx == m.x[b]
           my == m.y[b]
           nx == n.x[b]
           ny == n.y[b]
<1>1. /\ p \in Nat \ {0} /\ One \in Nat \ {0}
      /\ mx \in Nat /\ my \in Nat /\ nx \in Nat /\ ny \in Nat
  BY MarketFields, ScaleAssumption
<1>2. p * mx + One * my <= p * nx + One * ny
  BY MarketFields DEF NoLess
<1> HIDE DEF p, mx, my, nx, ny
<1>3. ASSUME nx <= mx PROVE my <= ny
  BY <1>1, <1>2, <1>3, OneTokenMakesUp
<1>4. ASSUME ny <= my PROVE mx <= nx
  <2>1. /\ p * mx \in Nat /\ p * nx \in Nat /\ One * my \in Nat /\ One * ny \in Nat
    BY <1>1, Products
  <2>2. One * my + p * mx <= One * ny + p * nx
    BY <1>2, <2>1
  <2>3. QED
    BY <1>1, <1>4, <2>2, OneTokenMakesUp
<1>5. QED
  BY <1>3, <1>4 DEF mx, my, nx, ny

LEMMA OneSideGrows ==
  ASSUME NEW m \in Market, NEW n \in Market, Sided(m), Sided(n), NoLess(m, n)
  PROVE  (\A b \in Bins : m.x[b] <= n.x[b]) \/ (\A b \in Bins : m.y[b] <= n.y[b])
<1>1. \A b \in Bins : /\ n.x[b] <= m.x[b] => m.y[b] <= n.y[b]
                      /\ n.y[b] <= m.y[b] => m.x[b] <= n.x[b]
  BY BinMakesUp
<1>2. \A b \in Bins : /\ b \in Int
                      /\ m.x[b] \in Nat /\ m.y[b] \in Nat
                      /\ n.x[b] \in Nat /\ n.y[b] \in Nat
  BY MarketFields
<1>3. m.active \in Bins /\ n.active \in Bins /\ m.active \in Int /\ n.active \in Int
  BY LadderAssumption DEF Market, Bins
<1>4. \A b \in Bins : /\ b > m.active => m.y[b] = 0
                      /\ b < m.active => m.x[b] = 0
                      /\ b > n.active => n.y[b] = 0
                      /\ b < n.active => n.x[b] = 0
  BY DEF Sided
<1>5. CASE m.active < n.active
  <2>1. ASSUME NEW b \in Bins PROVE m.y[b] <= n.y[b]
    <3>1. b > m.active \/ b < n.active
      BY <1>2, <1>3, <1>5
    <3>2. m.y[b] = 0 \/ n.x[b] = 0
      BY <1>4, <3>1
    <3>3. QED
      BY <1>1, <1>2, <3>2
  <2>2. QED
    BY <2>1
<1>6. CASE n.active < m.active
  <2>1. ASSUME NEW b \in Bins PROVE m.x[b] <= n.x[b]
    <3>1. b > n.active \/ b < m.active
      BY <1>2, <1>3, <1>6
    <3>2. n.y[b] = 0 \/ m.x[b] = 0
      BY <1>4, <3>1
    <3>3. QED
      BY <1>1, <1>2, <3>2
  <2>2. QED
    BY <2>1
<1>7. CASE m.active = n.active
  <2> DEFINE a == m.active
  <2>1. ASSUME NEW b \in Bins, b # a PROVE m.x[b] <= n.x[b] /\ m.y[b] <= n.y[b]
    <3>1. (m.x[b] = 0 /\ n.x[b] = 0) \/ (m.y[b] = 0 /\ n.y[b] = 0)
      BY <1>2, <1>3, <1>4, <1>7, <2>1
    <3>2. QED
      BY <1>1, <1>2, <3>1
  <2>2. m.x[a] <= n.x[a] \/ m.y[a] <= n.y[a]
    BY <1>1, <1>2, <1>3
  <2> HIDE DEF a
  <2>3. QED
    BY <2>1, <2>2
<1>8. QED
  BY <1>3, <1>5, <1>6, <1>7

LEMMA NoLunch ==
  ASSUME NEW m \in Market, NEW n \in Market, Sided(m), Sided(n), NoLess(m, n),
         TotalOf(n.x) <= TotalOf(m.x), TotalOf(n.y) <= TotalOf(m.y)
  PROVE  TotalOf(n.x) = TotalOf(m.x) /\ TotalOf(n.y) = TotalOf(m.y)
<1>1. /\ m.x \in [Bins -> Nat] /\ m.y \in [Bins -> Nat]
      /\ n.x \in [Bins -> Nat] /\ n.y \in [Bins -> Nat]
      /\ \A b \in Bins : /\ m.x[b] \in Nat /\ m.y[b] \in Nat
                         /\ n.x[b] \in Nat /\ n.y[b] \in Nat
  BY DEF Market
<1>2. \A b \in Bins : /\ n.x[b] <= m.x[b] => m.y[b] <= n.y[b]
                      /\ n.y[b] <= m.y[b] => m.x[b] <= n.x[b]
  BY BinMakesUp
<1>3. CASE \A b \in Bins : m.x[b] <= n.x[b]
  <2>1. /\ TotalOf(m.x) \in Nat /\ TotalOf(n.x) \in Nat /\ TotalOf(m.x) <= TotalOf(n.x)
        /\ TotalOf(m.x) = TotalOf(n.x) => \A b \in Bins : m.x[b] = n.x[b]
    BY <1>1, <1>3, TotalsCompare
  <2>2. TotalOf(m.x) = TotalOf(n.x)
    BY <2>1
  <2>3. \A b \in Bins : n.x[b] <= m.x[b]
    BY <1>1, <2>1, <2>2
  <2>4. \A b \in Bins : m.y[b] <= n.y[b]
    BY <1>2, <2>3
  <2>5. TotalOf(m.y) \in Nat /\ TotalOf(n.y) \in Nat /\ TotalOf(m.y) <= TotalOf(n.y)
    BY <1>1, <2>4, TotalsCompare
  <2>6. QED
    BY <2>2, <2>5
<1>4. CASE \A b \in Bins : m.y[b] <= n.y[b]
  <2>1. /\ TotalOf(m.y) \in Nat /\ TotalOf(n.y) \in Nat /\ TotalOf(m.y) <= TotalOf(n.y)
        /\ TotalOf(m.y) = TotalOf(n.y) => \A b \in Bins : m.y[b] = n.y[b]
    BY <1>1, <1>4, TotalsCompare
  <2>2. TotalOf(m.y) = TotalOf(n.y)
    BY <2>1
  <2>3. \A b \in Bins : n.y[b] <= m.y[b]
    BY <1>1, <2>1, <2>2
  <2>4. \A b \in Bins : m.x[b] <= n.x[b]
    BY <1>2, <2>3
  <2>5. TotalOf(m.x) \in Nat /\ TotalOf(n.x) \in Nat /\ TotalOf(m.x) <= TotalOf(n.x)
    BY <1>1, <2>4, TotalsCompare
  <2>6. QED
    BY <2>2, <2>5
<1>5. QED
  BY <1>3, <1>4, OneSideGrows

LEMMA ValueInit == IInv /\ Init => ValueInv
<1> SUFFICES ASSUME IInv, Init PROVE ValueInv
  OBVIOUS
<1>1. market \in Market /\ Sided(market) /\ copy = market
  BY DEF IInv, TypeOK, Init
<1>2. opening = [x |-> TotalOf(market.x), y |-> TotalOf(market.y)]
  BY DEF Init
<1>3. QED
  BY <1>1, <1>2, NoLessReflexive DEF ValueInv

(* A fill takes out no more, at the bin's price, than it puts in.          *)
LEMMA FillKeepsWorth ==
  ASSUME IInv, FillFromBin
  PROVE  NoLess(copy, copy')
<1> DEFINE b == copy.active
           p == PriceOf[b]
           x == copy.x[b]
           y == copy.y[b]
           newX == IF order.forY THEN x + Fill.binIn ELSE x - Fill.binOut
           newY == IF order.forY THEN y - Fill.binOut ELSE y + Fill.binIn
<1>1. CanVisit
  BY DEF FillFromBin
<1>2. copy'.x = [copy.x EXCEPT ![b] = newX] /\ copy'.y = [copy.y EXCEPT ![b] = newY]
  BY DEF FillFromBin, Leave
<1>3. /\ copy \in Market /\ b \in Bins /\ order.forY \in BOOLEAN
      /\ copy.x \in [Bins -> Nat] /\ copy.y \in [Bins -> Nat] /\ x \in Nat /\ y \in Nat
      /\ p \in Nat \ {0} /\ One \in Nat \ {0} /\ left \in Sizes
      /\ Available(copy, order.forY) \in Nat /\ BinRate \in 0 .. FeePrecision - 1
  BY <1>1, CopyTyped, LadderAssumption, ScaleAssumption DEF IInv, TypeOK
<1>4. /\ Fill.binIn \in Nat /\ Fill.binOut \in Nat
      /\ Fill.binOut <= Available(copy, order.forY)
      /\ Covers(Fill.binIn, Fill.binOut, p, order.forY)
  <2>1. FeeOnOutput(order.forY) \in BOOLEAN
    BY <1>3, ScaleAssumption DEF FeeOnOutput
  <2>2. left \in Nat /\ left < U64Max
    BY <1>3, ScaleAssumption DEF Sizes
  <2>3. FairFill(Fill, Available(copy, order.forY), p, left, order.forY,
                 FeeOnOutput(order.forY))
    BY <1>3, <2>1, <2>2, SwapIsFair DEF Fill
  <2>4. QED
    BY <2>2, <2>3 DEF FairFill
<1>5. newX \in Nat /\ newY \in Nat
  BY <1>3, <1>4 DEF Available
<1>6. p * x + One * y <= p * newX + One * newY
  <2> DEFINE in == Fill.binIn
             out == Fill.binOut
  <2>1. in \in Nat /\ out \in Nat
    BY <1>4
  <2>2. CASE order.forY
    <3>1. newX = x + in /\ newY = y - out /\ out * One <= in * p /\ out <= y
      BY <1>4, <2>2 DEF Covers, Available
    <3> HIDE DEF in, out, newX, newY, x, y, p
    <3>2. p * newX = p * x + in * p /\ One * newY = One * y - out * One
      BY <1>3, <2>1, <3>1
    <3>3. /\ p * x \in Nat /\ in * p \in Nat /\ One * y \in Nat /\ out * One \in Nat
      BY <1>3, <2>1, Products
    <3>4. QED
      BY <3>1, <3>2, <3>3
  <2>3. CASE ~order.forY
    <3>1. newX = x - out /\ newY = y + in /\ out * p <= in * One /\ out <= x
      BY <1>4, <2>3 DEF Covers, Available
    <3> HIDE DEF in, out, newX, newY, x, y, p
    <3>2. p * newX = p * x - out * p /\ One * newY = One * y + in * One
      BY <1>3, <2>1, <3>1
    <3>3. /\ p * x \in Nat /\ in * One \in Nat /\ One * y \in Nat /\ out * p \in Nat
      BY <1>3, <2>1, Products
    <3>4. QED
      BY <3>1, <3>2, <3>3
  <2>4. QED
    BY <2>2, <2>3
<1> HIDE DEF newX, newY, x, y
<1>7. ASSUME NEW c \in Bins PROVE Worth(copy, c) <= Worth(copy', c)
  <2>1. CASE c = b
    <3>1. copy'.x[c] = newX /\ copy'.y[c] = newY
      BY <1>2, <1>3, <2>1
    <3>2. Worth(copy, c) = p * x + One * y /\ Worth(copy', c) = p * newX + One * newY
      BY <2>1, <3>1 DEF Worth, BinLiquidity, x, y
    <3>3. QED
      BY <1>6, <3>2
  <2>2. CASE c # b
    <3>1. copy'.x[c] = copy.x[c] /\ copy'.y[c] = copy.y[c]
      BY <1>2, <1>3, <2>2
    <3>2. Worth(copy', c) = Worth(copy, c)
      BY <3>1 DEF Worth
    <3>3. Worth(copy, c) \in Nat
      BY <1>3, MarketFields
    <3>4. QED
      BY <3>2, <3>3
  <2>3. QED
    BY <2>1, <2>2
<1>8. QED
  BY <1>7 DEF NoLess, Worth

LEMMA ValueStep == IInv /\ IInv' /\ ValueInv /\ [Next]_vars => ValueInv'
<1> SUFFICES ASSUME IInv, IInv', ValueInv, [Next]_vars PROVE ValueInv'
  OBVIOUS
<1>1. /\ market \in Market /\ copy \in Market /\ market' \in Market /\ copy' \in Market
  BY DEF IInv, TypeOK
<1>2. PICK m \in Market : /\ Sided(m) /\ NoLess(m, market)
                          /\ opening = [x |-> TotalOf(m.x), y |-> TotalOf(m.y)]
  BY DEF ValueInv
<1>3. NoLess(market, copy)
  BY DEF ValueInv
<1>4. ASSUME market' = market, opening' = opening, NoLess(market, copy')
      PROVE  ValueInv'
  <2>1. NoLess(m, market') /\ NoLess(market', copy')
    BY <1>2, <1>4
  <2>2. QED
    BY <1>2, <1>4, <2>1 DEF ValueInv, NoLess, Worth
<1>5. CASE UNCHANGED vars
  BY <1>3, <1>4, <1>5 DEF vars, walkVars
<1>6. ASSUME NEW kind \in Kinds, NEW forY \in BOOLEAN,
             NEW budget \in Budgets \cup ({advice.size} \ {-1, 0}), Begin(kind, forY, budget)
      PROVE  ValueInv'
  <2>1. market' = market /\ opening' = opening /\ copy' = market
    BY <1>6 DEF Begin
  <2>2. QED
    BY <1>1, <1>4, <2>1, NoLessReflexive
<1>7. CASE SkipEmptyBin
  <2>1. /\ market' = market /\ opening' = opening
        /\ copy'.x = copy.x /\ copy'.y = copy.y
    BY <1>7 DEF SkipEmptyBin, Leave
  <2>2. NoLess(market, copy')
    BY <1>3, <2>1 DEF NoLess, Worth
  <2>3. QED
    BY <1>4, <2>1, <2>2
<1>8. CASE StopAtDust
  BY <1>3, <1>4, <1>8 DEF StopAtDust
<1>9. CASE FillFromBin
  <2>1. market' = market /\ opening' = opening /\ NoLess(copy, copy')
    BY <1>9, FillKeepsWorth DEF FillFromBin
  <2>2. NoLess(market, copy')
    BY <1>1, <1>3, <2>1, NoLessTransitive
  <2>3. QED
    BY <1>4, <2>1, <2>2
<1>10. CASE Commit
  <2>1. market' = copy /\ copy' = market' /\ opening' = opening
    BY <1>10 DEF Commit, AtRest
  <2>2. NoLess(m, market') /\ NoLess(market', copy')
    BY <1>1, <1>2, <1>3, <2>1, NoLessTransitive, NoLessReflexive
  <2>3. QED
    BY <1>2, <2>1, <2>2 DEF ValueInv, NoLess, Worth
<1>11. CASE Discard
  <2>1. market' = market /\ copy' = market' /\ opening' = opening
    BY <1>11 DEF Discard, AtRest
  <2>2. QED
    BY <1>1, <1>4, <2>1, NoLessReflexive
<1>12. CASE Wait
  BY <1>3, <1>4, <1>12 DEF Wait, walkVars
<1>13. QED
  BY <1>5, <1>6, <1>7, <1>8, <1>9, <1>10, <1>11, <1>12 DEF Next

(* However the swaps go back and forth, the pool never has less of one     *)
(* token and no more of the other than it opened with.                     *)
THEOREM LunchIsNotFree == Spec => []NoFreeLunch
<1>1. IInv /\ ValueInv => NoFreeLunch
  <2> SUFFICES ASSUME IInv, ValueInv,
                      TotalOf(market.x) <= opening.x, TotalOf(market.y) <= opening.y
               PROVE  TotalOf(market.x) = opening.x /\ TotalOf(market.y) = opening.y
    BY DEF NoFreeLunch
  <2>1. PICK m \in Market : /\ Sided(m) /\ NoLess(m, market)
                            /\ opening = [x |-> TotalOf(m.x), y |-> TotalOf(m.y)]
    BY DEF ValueInv
  <2>2. market \in Market /\ Sided(market)
    BY DEF IInv, TypeOK, SidesKept
  <2>3. opening.x = TotalOf(m.x) /\ opening.y = TotalOf(m.y)
    BY <2>1
  <2>4. QED
    BY <2>1, <2>2, <2>3, NoLunch
<1>2. QED
  BY <1>1, InitInv, ValueInit, ValueStep, WalkInvariance, PTL DEF Spec
=============================================================================
