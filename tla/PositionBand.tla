---------------------------- MODULE PositionBand ----------------------------
(***************************************************************************)
(* What a liquidity position promises its owner, with no word on how it is *)
(* stored: a contiguous band of bins, a share in each of them, and every   *)
(* fee those shares earned, still unclaimed or already paid.               *)
(*                                                                         *)
(* Bins outside the band hold nothing.  Moving the band keeps every bin    *)
(* both bands contain exactly as it was, and no bin that still holds a     *)
(* share or a fee may leave.  PositionSlots shows that the slot arithmetic *)
(* of taper-core's state/position.rs implements this.                      *)
(***************************************************************************)
EXTENDS Integers

CONSTANTS
  MinBin, MaxBin,  \* the bins a position may cover, inclusive
  MaxWidth,        \* the widest band a position may declare
  Amounts          \* the share amounts and per-share fee increments in play

VARIABLES
  open,      \* whether the position's account exists
  lower,     \* first bin of the band
  upper,     \* last bin of the band
  share,     \* share[b]: the position's liquidity shares in bin b
  unclaimed, \* unclaimed[b]: fees earned in bin b and not yet paid out
  paid       \* paid[b]: fees earned in bin b and paid out

bandVars == <<open, lower, upper, share, unclaimed, paid>>

Bins == MinBin .. MaxBin
ValidBand(l, u) == l \in Bins /\ u \in Bins /\ l <= u /\ u - l + 1 <= MaxWidth

Init ==
  /\ open = FALSE
  /\ lower = MinBin
  /\ upper = MinBin
  /\ share = [b \in Bins |-> 0]
  /\ unclaimed = [b \in Bins |-> 0]
  /\ paid = [b \in Bins |-> 0]

(* Opening declares a band and starts a fresh payment record. *)
Open(l, u) ==
  /\ ~open
  /\ ValidBand(l, u)
  /\ open' = TRUE
  /\ lower' = l
  /\ upper' = u
  /\ paid' = [b \in Bins |-> 0]
  /\ UNCHANGED <<share, unclaimed>>

Deposit(b, n) ==
  /\ open
  /\ b \in lower .. upper
  /\ share' = [share EXCEPT ![b] = @ + n]
  /\ UNCHANGED <<open, lower, upper, unclaimed, paid>>

Withdraw(b, n) ==
  /\ open
  /\ b \in lower .. upper
  /\ n <= share[b]
  /\ share' = [share EXCEPT ![b] = @ - n]
  /\ UNCHANGED <<open, lower, upper, unclaimed, paid>>

(* Bin b earns d per share: the position earns on the shares it has now.   *)
Earn(b, d) ==
  /\ unclaimed' = [unclaimed EXCEPT ![b] = @ + share[b] * d]
  /\ UNCHANGED <<open, lower, upper, share, paid>>

Claim ==
  /\ open
  /\ paid' = [b \in Bins |-> paid[b] + unclaimed[b]]
  /\ unclaimed' = [b \in Bins |-> 0]
  /\ UNCHANGED <<open, lower, upper, share>>

(* A bin leaving the band must hold nothing; nothing else changes.         *)
Resize(l, u) ==
  /\ open
  /\ ValidBand(l, u)
  /\ \A b \in Bins \ (l .. u) : share[b] = 0 /\ unclaimed[b] = 0
  /\ lower' = l
  /\ upper' = u
  /\ UNCHANGED <<open, share, unclaimed, paid>>

Close ==
  /\ open
  /\ \A b \in Bins : share[b] = 0 /\ unclaimed[b] = 0
  /\ open' = FALSE
  /\ UNCHANGED <<lower, upper, share, unclaimed, paid>>

Next ==
  \/ \E l, u \in Bins : Open(l, u) \/ Resize(l, u)
  \/ \E b \in Bins, n \in Amounts : Deposit(b, n) \/ Withdraw(b, n) \/ Earn(b, n)
  \/ Claim
  \/ Close

Spec == Init /\ [][Next]_bandVars
=============================================================================
