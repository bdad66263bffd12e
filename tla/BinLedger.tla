------------------------------ MODULE BinLedger ------------------------------
(***************************************************************************)
(* The money of one bin: two positions that share it, traders that swap    *)
(* through it, the protocol's cut, and the pool's token reserves that have *)
(* to cover everything.  The arithmetic is BinMath's; the order of the     *)
(* calls inside an operation is the one taper-core's comments require      *)
(* (sync_fees before a share changes).  The handlers that move the tokens  *)
(* are the on-chain program's, and each is one atomic transaction.         *)
(*                                                                         *)
(* The bin trades at a fixed Price.  The composition fee of a deposit into *)
(* the active bin is left out: nothing in taper-core calls it.             *)
(***************************************************************************)
EXTENDS BinMath

CONSTANTS
  Price,         \* the bin's Q64.64 price
  Rates,         \* fee rates a swap may meet, in FeePrecision
  ProtocolShare, \* the protocol's cut, in BasisPointMax
  Bps,           \* fractions of a holding a withdrawal burns
  Deposits,      \* token amounts a deposit may bring
  SwapSizes,     \* token amounts a trader may bring
  MaxReserve,    \* bound on what the vault takes in, per token
  U128Max        \* u128::MAX: what fee growth per share may reach

Tokens == {"x", "y"}
Holders == {"p", "q"}

ASSUME LedgerAssumption ==
  /\ Price \in Nat \ {0}
  /\ Rates \subseteq 0 .. FeePrecision - 1
  /\ ProtocolShare \in 0 .. BasisPointMax
  /\ Bps \subseteq 1 .. BasisPointMax
  /\ Deposits \subseteq Nat
  /\ SwapSizes \subseteq 1 .. U64Max - 1
  /\ MaxReserve \in Nat /\ U128Max \in Nat

VARIABLES
  amount,      \* amount[t]: Bin.amount_x, amount_y
  supply,      \* Bin.liquidity_supply
  growth,      \* growth[t]: Bin.fee_x_per_share, fee_y_per_share
  share,       \* share[h]: position h's liquidity_share in the bin
  checkpoint,  \* checkpoint[h][t]: fee_x_per_share_checkpoint, ...
  pending,     \* pending[h][t]: fee_x_pending, ...
  protocol,    \* protocol[t]: Pool.protocol_fee_x, protocol_fee_y
  reserve      \* reserve[t]: the pool's token account

vars == <<amount, supply, growth, share, checkpoint, pending, protocol, reserve>>
bin == <<amount, supply, growth>>
slots == <<share, checkpoint, pending>>

Liquidity == BinLiquidity(amount["x"], amount["y"], Price)

-----------------------------------------------------------------------------
(***************************************************************************)
(* A position's slot.                                                      *)
(***************************************************************************)
Owed(h, t) == AccruedFee(share[h], growth[t] - checkpoint[h][t])

(* Mutant: the checkpoint moves up without the fees being banked.          *)
AnchorOnly(h) == [t \in Tokens |-> pending[h][t]]

Banked(h) == [t \in Tokens |-> pending[h][t] + Owed(h, t)]

(* sync_fees, for both tokens; it must run before share[h] changes.        *)
Sync(h) ==
  /\ pending' = [pending EXCEPT ![h] = Banked(h)]
  /\ checkpoint' = [checkpoint EXCEPT ![h] = growth]

(* Mutant: the fraction is taken of the whole bin.                         *)
FractionOfBin(h, bps) == (supply * bps) \div BasisPointMax

SharesForBps(h, bps) ==
  IF bps = BasisPointMax THEN share[h] ELSE (share[h] * bps) \div BasisPointMax

-----------------------------------------------------------------------------
Init ==
  /\ amount = [t \in Tokens |-> 0]
  /\ supply = 0
  /\ growth = [t \in Tokens |-> 0]
  /\ share = [h \in Holders |-> 0]
  /\ checkpoint = [h \in Holders |-> [t \in Tokens |-> 0]]
  /\ pending = [h \in Holders |-> [t \in Tokens |-> 0]]
  /\ protocol = [t \in Tokens |-> 0]
  /\ reserve = [t \in Tokens |-> 0]

(* add_liquidity: sync_fees, Bin::deposit, add_shares.  A deposit that     *)
(* mints nothing is refused (ZeroLiquidity).                               *)
Deposit(h, d) ==
  LET minted == DepositShares(BinLiquidity(d["x"], d["y"], Price), Liquidity, supply)
  IN  /\ minted > 0
      /\ \A t \in Tokens : reserve[t] + d[t] <= MaxReserve
      /\ Sync(h)
      /\ amount' = [t \in Tokens |-> amount[t] + d[t]]
      /\ supply' = supply + minted
      /\ share' = [share EXCEPT ![h] = @ + minted]
      /\ reserve' = [t \in Tokens |-> reserve[t] + d[t]]
      /\ UNCHANGED <<growth, protocol>>

(* remove_liquidity: sync_fees, shares_for_bps, Bin::withdraw,             *)
(* remove_shares.                                                          *)
Withdraw(h, bps) ==
  LET burned == SharesForBps(h, bps)
      out == [t \in Tokens |-> WithdrawAmount(burned, supply, amount[t])]
  IN  /\ burned > 0
      /\ Sync(h)
      /\ amount' = [t \in Tokens |-> amount[t] - out[t]]
      /\ supply' = supply - burned
      /\ share' = [share EXCEPT ![h] = @ - burned]
      /\ reserve' = [t \in Tokens |-> reserve[t] - out[t]]
      /\ UNCHANGED <<growth, protocol>>

(* One bin of a swap, and the split of its fee: accrue_lp_fee grows the    *)
(* token the fee is charged in, and fails past u128.                       *)
Swap(swapForY, size, rate) ==
  LET in == IF swapForY THEN "x" ELSE "y"
      out == IF swapForY THEN "y" ELSE "x"
      feeToken == IF FeeOnOutput(swapForY) THEN out ELSE in
      fill == SwapInBin(amount[out], Price, size, swapForY, rate, FeeOnOutput(swapForY))
      cut == ProtocolCut(fill.fee, ProtocolShare)
      grown == growth[feeToken] + FeeGrowthDelta(fill.fee - cut, supply)
  IN  /\ fill # NoSwap
      /\ reserve[in] + fill.amountIn <= MaxReserve
      /\ grown <= U128Max
      /\ amount' = [amount EXCEPT ![in] = @ + fill.binIn, ![out] = @ - fill.binOut]
      /\ growth' = [growth EXCEPT ![feeToken] = grown]
      /\ protocol' = [protocol EXCEPT ![feeToken] = @ + cut]
      /\ reserve' = [reserve EXCEPT ![in] = @ + fill.amountIn,
                                    ![out] = @ - fill.amountOut]
      /\ UNCHANGED <<supply, slots>>

(* claim_fee: earns_at skips a slot without shares, then take_pending_fees *)
(* drains what is banked and the reserve pays it.                          *)
ClaimFee(h) ==
  LET due == IF share[h] = 0 THEN pending[h] ELSE Banked(h)
  IN  /\ \E t \in Tokens : due[t] > 0
      /\ pending' = [pending EXCEPT ![h] = [t \in Tokens |-> 0]]
      /\ checkpoint' = [checkpoint EXCEPT ![h] = IF share[h] = 0 THEN @ ELSE growth]
      /\ reserve' = [t \in Tokens |-> reserve[t] - due[t]]
      /\ UNCHANGED <<bin, share, protocol>>

(* The config authority collects the protocol's cut.                       *)
CollectProtocolFee ==
  /\ \E t \in Tokens : protocol[t] > 0
  /\ reserve' = [t \in Tokens |-> reserve[t] - protocol[t]]
  /\ protocol' = [t \in Tokens |-> 0]
  /\ UNCHANGED <<bin, slots>>

Next ==
  \/ \E h \in Holders : \/ \E d \in [Tokens -> Deposits] : Deposit(h, d)
                        \/ \E bps \in Bps : Withdraw(h, bps)
                        \/ ClaimFee(h)
  \/ \E swapForY \in BOOLEAN, size \in SwapSizes, rate \in Rates :
       Swap(swapForY, size, rate)
  \/ CollectProtocolFee

Spec == Init /\ [][Next]_vars

-----------------------------------------------------------------------------
(***************************************************************************)
(* Properties.                                                             *)
(***************************************************************************)

(* Every amount stays a natural number: in particular no subtraction of an *)
(* operation ever goes below zero, which in the code is a panic or a wrap. *)
TypeOK ==
  /\ amount \in [Tokens -> Nat] /\ supply \in Nat
  /\ growth \in [Tokens -> Nat]
  /\ share \in [Holders -> Nat]
  /\ checkpoint \in [Holders -> [Tokens -> Nat]]
  /\ pending \in [Holders -> [Tokens -> Nat]]
  /\ protocol \in [Tokens -> Nat] /\ reserve \in [Tokens -> Nat]

(* What position h could claim of token t right now.                       *)
Unclaimed(h, t) == pending[h][t] + Owed(h, t)

(* The reserve covers the bin's inventory, the protocol's cut and every    *)
(* position's unclaimed fee at once: rounding never promises a token the   *)
(* pool does not hold (fee_growth_delta, accrued_fee, swap_in_bin and the  *)
(* withdrawal all round towards the pool).                                 *)
VaultSolvent ==
  \A t \in Tokens :
    amount[t] + protocol[t] + Unclaimed("p", t) + Unclaimed("q", t) <= reserve[t]

(* Shares in the bin exist exactly while liquidity does: a partial burn    *)
(* never empties a bin somebody still owns, so deposit_shares' 1:1 branch  *)
(* is only ever taken for a bin nobody holds, and the last burn leaves no  *)
(* tokens behind for the next depositor.                                   *)
SupplyIsBacked ==
  /\ supply = share["p"] + share["q"]
  /\ supply > 0 <=> Liquidity > 0

(* The liquidity behind one share never falls while the bin is held:       *)
(* deposits, withdrawals and swaps all round in favour of the bin, so      *)
(* nobody's holding is diluted by what others do.                          *)
ShareValueKept == supply > 0 /\ supply' > 0 => Liquidity' * supply >= Liquidity * supply'
ShareValueNeverFalls == [][ShareValueKept]_vars

(* A position's unclaimed fee never shrinks except by being paid out in    *)
(* full: changing its shares banks what they earned first (the rule at     *)
(* sync_fees), and other positions' operations never touch it.             *)
KeptOrPaid(h, t) ==
  \/ Unclaimed(h, t)' >= Unclaimed(h, t)
  \/ Unclaimed(h, t)' = 0 /\ reserve[t] - reserve[t]' = Unclaimed(h, t)
UnclaimedFeeIsKept == [][\A h \in Holders, t \in Tokens : KeptOrPaid(h, t)]_vars
=============================================================================
