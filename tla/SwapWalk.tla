------------------------------- MODULE SwapWalk -------------------------------
(***************************************************************************)
(* A swap walks the pool's bins one at a time, from the active bin down    *)
(* (X for Y) or up (Y for X), until its input is spent, it meets a bin it  *)
(* cannot buy from, or the ladder ends.  The walk works on a copy of the   *)
(* pool and of its bins, as walk_ladder does; a quote throws the copy away *)
(* and the program's swap instruction, which runs the same walk, writes it *)
(* back.  swap_strict moves nothing unless the whole input was filled.     *)
(*                                                                         *)
(* Time is the idle time since the pool was last stamped: beyond           *)
(* DecayPeriod every length of it has the same effect.                     *)
(***************************************************************************)
EXTENDS LadderWalk

CONSTANTS
  Amounts,               \* what a bin may hold at first, per token
  Budgets,               \* inputs a swap may bring
  MaxTotal               \* bound on the inventory traders build up, per token

ASSUME WalkAssumption ==
  /\ MaxTotal \in Nat
  /\ Amounts \subseteq Nat /\ Budgets \subseteq 1 .. U64Max - 1

VARIABLES
  arrays,   \* the bin arrays that exist
  market,   \* [active, x, y]: the active bin and every bin's inventory
  fees,     \* [index, reference, accumulator]: the pool's volatility state
  idle,     \* seconds since last_update_timestamp
  phase,    \* "ready", "walking" or "ended"
  order,    \* [kind, forY, budget]: what is being walked
  copy,     \* the walk's own copy of market
  copyFees, \* the walk's own copy of fees
  left,     \* amount_left
  visits,   \* iterations of the walk so far
  rates,    \* the fee rate each bin charged in this walk (BinFill.feeRate)
  advice,   \* what the last short quote told its caller, or NoAdvice
  opening,  \* history: total inventory at the start
  charged   \* history: rates charged by swaps since the references moved

walkVars == <<phase, order, copy, copyFees, left, visits, rates>>
vars == <<arrays, market, fees, idle, walkVars, advice, opening, charged>>

Kinds == {"quote", "swap", "strict"}
Orders == [kind : Kinds, forY : BOOLEAN, budget : Nat]
NoAdvice == [forY |-> FALSE, size |-> -1]
NoOrder == [kind |-> "quote", forY |-> FALSE, budget |-> 0]
NotCharged == -1
Uncharged == [b \in Bins |-> NotCharged]

-----------------------------------------------------------------------------
Init ==
  /\ arrays \in SUBSET ArrayIndexes
  /\ market \in [active : Bins, x : [Bins -> Amounts], y : [Bins -> Amounts]]
  /\ Sided(market)
  /\ \A b \in Bins : market.x[b] + market.y[b] > 0 => ArrayOf(b) \in arrays
  /\ fees = [index |-> market.active, reference |-> 0, accumulator |-> 0]
  /\ idle = 0
  /\ phase = "ready" /\ left = 0 /\ visits = 0 /\ order = NoOrder
  /\ copy = market /\ copyFees = fees
  /\ advice = NoAdvice
  /\ opening = [x |-> TotalOf(market.x), y |-> TotalOf(market.y)]
  /\ rates = Uncharged /\ charged = Uncharged

-----------------------------------------------------------------------------
(* A walk starts on copies, the volatility references brought up to date.  *)
(* A caller may come back with the size a short quote advised.             *)
Begin(kind, forY, budget) ==
  /\ phase = "ready"
  /\ TotalOf(IF forY THEN market.x ELSE market.y) + budget <= MaxTotal
  /\ phase' = "walking"
  /\ order' = [kind |-> kind, forY |-> forY, budget |-> budget]
  /\ copy' = market
  /\ copyFees' = UpdateReferences(fees, market.active, idle)
  /\ left' = budget /\ visits' = 0
  /\ rates' = Uncharged
  /\ UNCHANGED <<arrays, market, fees, idle, advice, opening, charged>>

(* The head of the loop; a missing array ends the walk.                    *)
CanVisit ==
  /\ phase = "walking"
  /\ left > 0 /\ visits < MaxBinsPerSwap
  /\ copy.active \in Bins /\ ArrayOf(copy.active) \in arrays

(* The tail of the loop: on to the next bin, or the end of the ladder.     *)
Leave(x, y, remaining) ==
  LET next == copy.active + Step(order.forY)
      onward == remaining > 0 /\ next \in Bins
  IN  /\ copy' = [active |-> IF onward THEN next ELSE copy.active, x |-> x, y |-> y]
      /\ phase' = IF onward THEN "walking" ELSE "ended"
      /\ left' = remaining
      /\ visits' = visits + 1

SkipEmptyBin ==
  /\ CanVisit /\ Available(copy, order.forY) = 0
  /\ Leave(copy.x, copy.y, left)
  /\ UNCHANGED <<arrays, market, fees, idle, order, copyFees, rates, advice, opening, charged>>

(* What the bin at hand would do, at the accumulator its distance gives.   *)
BinFees == UpdateAccumulator(copyFees, copy.active)
BinRate == FeeRateForStep(BinFees, StepOf[copy.active])
Fill ==
  SwapInBin(Available(copy, order.forY), PriceOf[copy.active], left, order.forY,
            BinRate, FeeOnOutput(order.forY))

(* Mutant: dust is carried on to the next bin.                             *)
CarryDustOn ==
  /\ CanVisit /\ Available(copy, order.forY) > 0 /\ Fill = NoSwap
  /\ Leave(copy.x, copy.y, left)
  /\ copyFees' = BinFees
  /\ UNCHANGED <<arrays, market, fees, idle, order, rates, advice, opening, charged>>

(* Inventory the remaining input cannot buy a lamport of.                  *)
StopAtDust ==
  /\ CanVisit /\ Available(copy, order.forY) > 0 /\ Fill = NoSwap
  /\ phase' = "ended"
  /\ copyFees' = BinFees
  /\ visits' = visits + 1
  /\ UNCHANGED <<arrays, market, fees, idle, order, copy, left, rates, advice,
                 opening, charged>>

(* Mutant: the fee is not taken off the input still to be spent.           *)
BudgetAfter(fill) == left - fill.binIn

Remaining(fill) == left - fill.amountIn

FillFromBin ==
  LET b == copy.active
      x == copy.x[b]
      y == copy.y[b]
      newX == IF order.forY THEN x + Fill.binIn ELSE x - Fill.binOut
      newY == IF order.forY THEN y - Fill.binOut ELSE y + Fill.binIn
  IN  /\ CanVisit /\ Available(copy, order.forY) > 0 /\ Fill # NoSwap
      /\ Leave([copy.x EXCEPT ![b] = newX], [copy.y EXCEPT ![b] = newY], Remaining(Fill))
      /\ copyFees' = BinFees
      /\ rates' = [rates EXCEPT ![b] = BinRate]
      /\ UNCHANGED <<arrays, market, fees, idle, order, advice, opening, charged>>

-----------------------------------------------------------------------------
WalkOver == phase = "ended" \/ (phase = "walking" /\ ~CanVisit)
Short == left > 0
Moves == order.kind = "swap" \/ (order.kind = "strict" /\ ~Short)

(* The walk's copies are dropped.                                          *)
AtRest ==
  /\ phase' = "ready" /\ order' = NoOrder
  /\ left' = 0 /\ visits' = 0 /\ rates' = Uncharged
  /\ copy' = market' /\ copyFees' = fees'

(* The program writes back what the walk left, and stamps the pool whether *)
(* or not anything filled.                                                 *)
Commit ==
  /\ WalkOver /\ Moves
  /\ market' = copy /\ fees' = copyFees
  /\ idle' = 0
  /\ charged' = [b \in Bins |-> IF rates[b] # NotCharged THEN rates[b]
                                ELSE IF idle < FilterPeriod THEN charged[b]
                                ELSE NotCharged]
  /\ advice' = NoAdvice
  /\ AtRest
  /\ UNCHANGED <<arrays, opening>>

(* A quote, or a strict swap that fell short, leaves nothing behind but    *)
(* what the quote told its caller: the input the pool did consume.         *)
Discard ==
  /\ WalkOver /\ ~Moves
  /\ UNCHANGED <<arrays, market, fees, idle, opening, charged>>
  /\ advice' = IF order.kind = "quote" /\ Short
               THEN [forY |-> order.forY, size |-> order.budget - left]
               ELSE advice
  /\ AtRest

(* The clock runs on; a quote is only good for the time it was made at.    *)
Wait ==
  /\ phase = "ready" /\ idle < DecayPeriod
  /\ idle' = idle + 1
  /\ advice' = NoAdvice
  /\ UNCHANGED <<arrays, market, fees, walkVars, opening, charged>>

Next ==
  \/ \E kind \in Kinds, forY \in BOOLEAN :
       \E budget \in Budgets \cup ({advice.size} \ {-1, 0}) : Begin(kind, forY, budget)
  \/ SkipEmptyBin \/ StopAtDust \/ FillFromBin
  \/ Commit \/ Discard
  \/ Wait

Spec == Init /\ [][Next]_vars

-----------------------------------------------------------------------------
(***************************************************************************)
(* Properties.                                                             *)
(***************************************************************************)
(* Inventories and the remaining input never go below zero, and the active *)
(* bin never leaves the config's band.                                     *)
TypeOK ==
  /\ arrays \subseteq ArrayIndexes
  /\ market \in Market /\ copy \in Market
  /\ fees \in FeeState /\ copyFees \in FeeState
  /\ idle \in 0 .. DecayPeriod
  /\ phase \in {"ready", "walking", "ended"}
  /\ order \in Orders
  /\ left \in 0 .. order.budget /\ visits \in 0 .. MaxBinsPerSwap

(* Only the active bin ever holds both tokens: a walk moves on only from a *)
(* bin it has emptied, so it never passes liquidity it could have bought,  *)
(* not even at the edge of the ladder, at a gap or at the bin limit.       *)
SidesKept == Sided(market) /\ Sided(copy)

(* However the swaps go back and forth, the pool's inventory never ends up *)
(* with less of one token and no more of the other: no round trip takes    *)
(* out more than it brings in, fees aside.                                 *)
NoFreeLunch ==
  LET x == TotalOf(market.x)
      y == TotalOf(market.y)
  IN  x <= opening.x /\ y <= opening.y => x = opening.x /\ y = opening.y

(* While the references hold still, a bin charges every swap of the burst  *)
(* the rate it charged the first: crossing bins, coming back, quoting and  *)
(* reverting in between change no fee.                                     *)
SameFeeWithinBurst ==
  phase # "ready" /\ idle < FilterPeriod =>
    \A b \in Bins :
      rates[b] # NotCharged /\ charged[b] # NotCharged => rates[b] = charged[b]

(* A size a short quote advised is one the pool fills completely, which is *)
(* what lets a caller of swap_strict come back with it.                    *)
FollowsAdvice == order.forY = advice.forY /\ order.budget = advice.size
AdviceFills == WalkOver /\ FollowsAdvice => ~Short

(* Whatever the order, the walk taken bin by bin ends where the function   *)
(* its caller sees says: same inventory, same fees, same input left.       *)
EndsAsWalked ==
  WalkOver =>
    LET w == WalkLadder(market, fees, idle, arrays, order.budget, order.forY)
    IN  copy = w.market /\ copyFees = w.fees /\ left = w.left
=============================================================================
