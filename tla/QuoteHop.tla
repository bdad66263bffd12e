------------------------------- MODULE QuoteHop -------------------------------
(***************************************************************************)
(* One hop of a route: the adapter quotes an amount at the trader's wallet *)
(* (TaperAmm::quote, quote_exact_in), names the arrays of the transaction  *)
(* (swap_account_metas), and some time later the program swaps.  Until     *)
(* then others trade, the clock runs, an epoch turns the mints' transfer   *)
(* fees over, and the pool may be disabled.                                *)
(*                                                                         *)
(* The adapter's cache is up to date when it quotes: JupiterAmm says when  *)
(* it is.  The program is not in the repository; quote.rs says of its swap *)
(* what is used here.                                                      *)
(***************************************************************************)
EXTENDS LadderWalk, TransferFee, Sequences, FiniteSets

CONSTANTS
  Reach,            \* REACH: arrays a swap names
  Amounts,          \* what a bin may hold at first, per token
  Offers,           \* amounts a trader may offer, at his wallet
  MintPairs,        \* what the two mints' schedules may be
  LastEpoch,        \* bound on the epochs that turn
  Trades,           \* budgets of the trades of others
  MaxTrades         \* bound on the trades of others

ASSUME HopAssumption ==
  /\ Reach \in Nat \ {0} /\ Offers \subseteq 0 .. U64Max
  /\ Amounts \subseteq Nat /\ Trades \subseteq 0 .. U64Max
  /\ MintPairs \subseteq
       [{"x", "y"} -> [owner : {"Token", "Token2022"}, older : TransferFees,
                       newer : TransferFees, turns : Nat]]

VARIABLES
  present,   \* Pool.bin_array_bitmap: the arrays that exist
  market,    \* [active, x, y]
  fees,      \* the pool's volatility state
  idle,      \* seconds since the pool was last stamped
  enabled,   \* Pool.status
  mint,      \* [x, y]: the two mints
  epoch,
  trades,    \* how many trades others made
  quote,     \* the quote the trader holds, or NoQuote
  since,     \* history: what happened since it was made
  outcome    \* what became of the swap: [kind, strict, taken, delivered]

vars == <<present, market, fees, idle, enabled, mint, epoch, trades, quote, since, outcome>>

Tokens == {"x", "y"}
Refused(why) == [kind |-> why]
NoQuote == Refused("none")
Pending == [kind |-> "pending", strict |-> FALSE, taken |-> 0, delivered |-> 0]

-----------------------------------------------------------------------------
(* arrays_to_fetch, and swap_array_indexes over what was fetched.          *)
Home(m) == ArrayOf(m.active)
Fetched == {i \in present : Distance(i, Home(market)) < Reach}

(* Mutant: the array in the direction of travel left out.                  *)
OnlyHome(forY) == Fetched \cap {Home(market)}

Reached(forY) ==
  {i \in Fetched :
     /\ IF forY THEN i <= Home(market) ELSE i >= Home(market)
     /\ \A j \in ArrayIndexes :
          Distance(i, j) + Distance(j, Home(market)) = Distance(i, Home(market))
            => j \in Fetched}

SwapArrays(forY) ==
  [k \in 1 .. Cardinality(Reached(forY)) |-> Home(market) + Step(forY) * (k - 1)]

(* The accounts a transaction names: the pair by side, whichever way the   *)
(* swap goes, and the arrays in the order of the walk.                     *)
Meta(what, of, writable) == [what |-> what, of |-> of, writable |-> writable]
SourceOf(forY) == IF forY THEN "x" ELSE "y"
SinkOf(forY) == IF forY THEN "y" ELSE "x"

(* Mutant: the mints by direction.                                         *)
MintsByDirection(forY) ==
  <<Meta("mint", SourceOf(forY), FALSE), Meta("mint", SinkOf(forY), FALSE)>>
MintsBySide(forY) == <<Meta("mint", "x", FALSE), Meta("mint", "y", FALSE)>>

(* token_programs, from the flags the pool keeps of its mints' owners.     *)
TokenProgram(t) == mint[t].owner

SwapAccountMetas(forY, arrays) ==
  <<Meta("user", "signer", FALSE), Meta("pool", "pool", TRUE),
    Meta("config", "config", FALSE)>>
  \o MintsBySide(forY)
  \o <<Meta("token", SourceOf(forY), TRUE), Meta("token", SinkOf(forY), TRUE),
       Meta("reserve", "x", TRUE), Meta("reserve", "y", TRUE),
       Meta("program", TokenProgram("x"), FALSE), Meta("program", TokenProgram("y"), FALSE)>>
  \o [k \in 1 .. Len(arrays) |-> Meta("bin array", arrays[k], TRUE)]
FixedAccounts == 11

(* TaperAmm::direction: the tokens that make the pool's pair.              *)
IsPair(in, out) == {in, out} = Tokens
SwapForY(in) == in = "x"

-----------------------------------------------------------------------------
(* quote_exact_in.                                                         *)
(* Mutant: the swap fee is in Y exactly when Y comes in.                   *)
FeeWithInput(forY) == ~forY

FeeInY(forY) == FeeOnOutput(forY) \/ ~forY

QuoteExactIn(offer, forY, inFee, outFee) ==
  LET budget == Received(inFee, offer)
      walk == WalkLadder(market, fees, idle, Fetched, budget, forY)
      used == budget - walk.left
      send == ToSend(inFee, used)
  IN  IF budget = 0 THEN Refused("NoFill")
      ELSE IF ~enabled THEN Refused("PoolDisabled")
      ELSE IF walk.out = 0 THEN Refused("NoFill")
      ELSE IF send = Overflow THEN Refused("TransferFeeOverflow")
      ELSE [kind |-> "quote", forY |-> forY, offer |-> offer,
            in |-> Least(send, offer), out |-> Received(outFee, walk.out),
            fee |-> walk.fee, feeInY |-> FeeInY(forY),
            used |-> used, sold |-> walk.out, after |-> walk.market,
            named |-> SwapArrays(forY), at |-> idle, feeIn |-> inFee]

-----------------------------------------------------------------------------
Init ==
  /\ present \in SUBSET ArrayIndexes
  /\ market \in [active : Bins, x : [Bins -> Amounts], y : [Bins -> Amounts]]
  /\ Sided(market)
  /\ \A b \in Bins : market.x[b] + market.y[b] > 0 => ArrayOf(b) \in present
  /\ fees = [index |-> market.active, reference |-> 0, accumulator |-> 0]
  /\ idle = 0
  /\ enabled = TRUE
  /\ mint \in MintPairs
  /\ epoch = 0 /\ trades = 0
  /\ quote = NoQuote /\ since = {} /\ outcome = Pending

(* TaperAmm::transfer_fee: resolved at every quote, as the epoch moves.    *)
MintFee(t) == OfMint(mint[t], epoch)

(* The adapter quotes; a hop it refuses is not sent.                       *)
Quote(in, out, offer) ==
  /\ quote = NoQuote
  /\ quote' = IF ~IsPair(in, out) THEN Refused("WrongMints")
              ELSE QuoteExactIn(offer, SwapForY(in),
                                MintFee(in), MintFee(out))
  /\ UNCHANGED <<present, market, fees, idle, enabled, mint, epoch, trades, since, outcome>>

(* The program's swap, over the accounts it is handed: Token-2022          *)
(* withholds what is in force, the walk takes the arrays named, and the    *)
(* trader's minimum is held against what reaches him.  swap_strict is sent *)
(* with what the quote said would be used, and must use all of it.         *)
InForce(m) ==
  IF m.owner = "Token" THEN NoFee ELSE IF epoch < m.turns THEN m.older ELSE m.newer

Accepts(metas) ==
  /\ \A k \in {2, 6, 7, 8, 9} \cup (FixedAccounts + 1 .. Len(metas)) : metas[k].writable
  /\ metas[4].of \in Tokens /\ metas[10].of = mint[metas[4].of].owner
  /\ metas[5].of \in Tokens /\ metas[11].of = mint[metas[5].of].owner

Swap(strict) ==
  LET metas == SwapAccountMetas(quote.forY, quote.named)
      named == {metas[k].of : k \in FixedAccounts + 1 .. Len(metas)}
      inFee == InForce(mint[metas[IF quote.forY THEN 4 ELSE 5].of])
      outFee == InForce(mint[metas[IF quote.forY THEN 5 ELSE 4].of])
      amount == IF strict THEN quote.in ELSE quote.offer
      budget == Received(inFee, amount)
      walk == WalkLadder(market, fees, idle, named, budget, quote.forY)
      delivered == Received(outFee, walk.out)
      settles == /\ enabled /\ Accepts(metas) /\ delivered >= quote.out
                 /\ strict => walk.left = 0
  IN  /\ quote.kind = "quote" /\ outcome = Pending
      /\ outcome' = IF settles
                    THEN [kind |-> "settled", strict |-> strict, delivered |-> delivered,
                          taken |-> Least(amount, ToSend(inFee, budget - walk.left))]
                    ELSE [Pending EXCEPT !.kind = "reverted", !.strict = strict]
      /\ market' = IF settles THEN walk.market ELSE market
      /\ fees' = IF settles THEN walk.fees ELSE fees
      /\ idle' = IF settles THEN 0 ELSE idle
      /\ UNCHANGED <<present, enabled, mint, epoch, trades, quote, since>>

-----------------------------------------------------------------------------
(* What else happens to the pool while the quote is out, and before it.    *)
Happens(what) == since' = IF quote = NoQuote THEN {} ELSE since \cup {what}

Trade(forY, budget) ==
  LET walk == WalkLadder(market, fees, idle, present, budget, forY)
  IN  /\ trades < MaxTrades /\ enabled /\ outcome = Pending
      /\ trades' = trades + 1
      /\ market' = walk.market /\ fees' = walk.fees /\ idle' = 0
      /\ Happens("trade")
      /\ UNCHANGED <<present, enabled, mint, epoch, quote, outcome>>

Wait ==
  /\ idle < DecayPeriod /\ outcome = Pending
  /\ idle' = idle + 1
  /\ Happens("wait")
  /\ UNCHANGED <<present, market, fees, enabled, mint, epoch, trades, quote, outcome>>

EpochTurns ==
  /\ epoch < LastEpoch /\ outcome = Pending
  /\ epoch' = epoch + 1
  /\ Happens("epoch")
  /\ UNCHANGED <<present, market, fees, idle, enabled, mint, trades, quote, outcome>>

SetStatus ==
  /\ outcome = Pending
  /\ enabled' = ~enabled
  /\ UNCHANGED <<present, market, fees, idle, mint, epoch, trades, quote, since, outcome>>

Next ==
  \/ \E in, out \in Tokens \cup {"other"}, offer \in Offers : Quote(in, out, offer)
  \/ \E strict \in BOOLEAN : Swap(strict)
  \/ \E forY \in BOOLEAN, budget \in Trades : Trade(forY, budget)
  \/ Wait \/ EpochTurns \/ SetStatus

Spec == Init /\ [][Next]_vars

-----------------------------------------------------------------------------
(***************************************************************************)
(* Properties.                                                             *)
(***************************************************************************)
Quoted == quote.kind = "quote"

(* If nothing moved since, and the pool is enabled when it lands, the swap *)
(* over the arrays the transaction names takes and delivers exactly what   *)
(* was quoted: no array the walk needs is left out, no account is in       *)
(* another's place, and the fees in force are the ones the adapter read.   *)
(* The strict swap of what was quoted to be used does the same.            *)
QuoteHonoured ==
  Quoted /\ since = {} /\ enabled /\ outcome # Pending =>
    outcome = [kind |-> "settled", strict |-> outcome.strict,
               taken |-> quote.in, delivered |-> quote.out]

(* What the quote asks of the wallet delivers exactly what the ladder      *)
(* consumed, on a partial fill as on a full one, and no smaller amount     *)
(* does: the offer as a cap never binds, no lamport is lost to the inverse *)
(* of the transfer fee, and the inverse never overflows.                   *)
LeastSent ==
  /\ quote.kind # "TransferFeeOverflow"
  /\ Quoted =>
    /\ Received(quote.feeIn, quote.in) = quote.used
    /\ \A less \in 0 .. quote.in - 1 : Received(quote.feeIn, less) < quote.used

(* What the quote calls the fee is what is missing between the amounts     *)
(* traded and what the bins would hold, on the side it names.              *)
FeeAccounted ==
  Quoted /\ since = {} /\ outcome = Pending =>
    LET dx == TotalOf(quote.after.x) - TotalOf(market.x)
        dy == TotalOf(quote.after.y) - TotalOf(market.y)
        feeX == IF quote.feeInY THEN 0 ELSE quote.fee
        feeY == IF quote.feeInY THEN quote.fee ELSE 0
    IN  IF quote.forY THEN dx = quote.used - feeX /\ dy = -(quote.sold + feeY)
        ELSE dy = quote.used - feeY /\ dx = -(quote.sold + feeX)

(* Once the references have moved, waiting costs a trader nothing: if only *)
(* the clock ran on, the swap settles.  (A strict one need not: a lower    *)
(* fee can leave over some of the input it was told to send.)              *)
OnlyWaited ==
  Quoted /\ since = {"wait"} /\ enabled /\ outcome # Pending /\ ~outcome.strict
SettledWaitIsFree ==
  OnlyWaited /\ quote.at >= FilterPeriod => outcome.kind = "settled"
=============================================================================
