------------------------------ MODULE PriceBook ------------------------------
(***************************************************************************)
(* What the bin arrays and the bitmap of a pool promise together: a bin    *)
(* gets a price once, for good, in the order of the bins; and a set of     *)
(* array indexes that changes by one index at a time.                      *)
(***************************************************************************)
EXTENDS Integers

CONSTANTS
  Ids,        \* the bins that can have a price
  Indexes     \* the arrays that can be marked

VARIABLES
  prices,     \* the bins that have a price, with it
  occupied    \* the arrays marked as holding liquidity

vars == <<prices, occupied>>

Init == prices = [id \in {} |-> 0] /\ occupied = {}

InOrder(book) ==
  \A low, high \in DOMAIN book : low < high => book[low] <= book[high]

(* Some price for a bin without one, in order with all the known ones.     *)
Learn(id) ==
  /\ id \notin DOMAIN prices
  /\ DOMAIN prices' = DOMAIN prices \union {id}
  /\ \A known \in DOMAIN prices : prices'[known] = prices[known]
  /\ prices'[id] \in Nat \ {0}
  /\ InOrder(prices')
  /\ UNCHANGED occupied

Mark(index) == occupied' = occupied \union {index} /\ UNCHANGED prices

Unmark(index) == occupied' = occupied \ {index} /\ UNCHANGED prices

Next ==
  \/ \E id \in Ids : Learn(id)
  \/ \E index \in Indexes : Mark(index) \/ Unmark(index)

Spec == Init /\ [][Next]_vars
=============================================================================
