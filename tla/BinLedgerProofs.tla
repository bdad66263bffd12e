--------------------------- MODULE BinLedgerProofs ---------------------------
(***************************************************************************)
(* The reserve covers every promise the bin makes, and nobody's holding is *)
(* diluted, for every price, rate, split and amount.                       *)
(*                                                                         *)
(* Solvency is not inductive as it stands: it speaks of the fees rounded   *)
(* down to whole tokens, and a swap adds to them before rounding.  The     *)
(* strengthening keeps the fees exact, in 1/GrowthScale of a token: what   *)
(* the shares have earned since their checkpoints is covered by what the   *)
(* reserve holds beyond inventory, protocol cut and banked fees.           *)
(***************************************************************************)
EXTENDS BinLedger, LadderWalkProofs

(* Earned since the checkpoint, in 1/GrowthScale of a token.               *)
Due(h, t) == share[h] * (growth[t] - checkpoint[h][t])
Dues(t) == Due("p", t) + Due("q", t)
Banks(t) == pending["p"][t] + pending["q"][t]
Spare(t) == reserve[t] - amount[t] - protocol[t] - Banks(t)

CheckpointsBehind == \A h \in Holders, t \in Tokens : checkpoint[h][t] <= growth[t]
FeesBacked == \A t \in Tokens : Dues(t) <= GrowthScale * Spare(t)
IInv == TypeOK /\ SupplyIsBacked /\ CheckpointsBehind /\ FeesBacked

-----------------------------------------------------------------------------
LEMMA Nats ==
  ASSUME TypeOK, CheckpointsBehind, NEW t \in Tokens
  PROVE  /\ amount[t] \in Nat /\ growth[t] \in Nat
         /\ protocol[t] \in Nat /\ reserve[t] \in Nat
         /\ pending["p"][t] \in Nat /\ pending["q"][t] \in Nat
         /\ Banks(t) \in Nat /\ Spare(t) \in Int
         /\ Due("p", t) \in Nat /\ Due("q", t) \in Nat /\ Dues(t) \in Nat
<1>1. \A h \in Holders : share[h] \in Nat /\ growth[t] - checkpoint[h][t] \in Nat
  BY DEF TypeOK, CheckpointsBehind
<1>2. \A h \in Holders : Due(h, t) \in Nat
  BY <1>1, Products DEF Due
<1>3. QED
  BY <1>2 DEF TypeOK, Holders, Banks, Spare, Dues

LEMMA OwedIsBounded ==
  ASSUME TypeOK, CheckpointsBehind, NEW h \in Holders, NEW t \in Tokens
  PROVE  /\ Owed(h, t) \in Nat
         /\ GrowthScale * Owed(h, t) <= Due(h, t)
         /\ share[h] = 0 => Owed(h, t) = 0
<1> DEFINE d == growth[t] - checkpoint[h][t]
<1>1. share[h] \in Nat /\ d \in Nat
  BY DEF TypeOK, CheckpointsBehind
<1> HIDE DEF d
<1>2. /\ AccruedFee(share[h], d) \in Nat
      /\ AccruedFee(share[h], d) * GrowthScale <= share[h] * d
  BY <1>1, AccruedWithinGrowth
<1>3. share[h] = 0 => AccruedFee(share[h], d) = 0
  BY <1>1, <1>2, ScaleAssumption
<1>4. GrowthScale * AccruedFee(share[h], d) = AccruedFee(share[h], d) * GrowthScale
  BY <1>2, ScaleAssumption
<1>5. QED
  BY <1>2, <1>3, <1>4 DEF Owed, Due, d

(* The strengthening gives solvency.                                       *)
LEMMA BackedIsSolvent == IInv => VaultSolvent
<1> SUFFICES ASSUME IInv, NEW t \in Tokens
             PROVE  amount[t] + protocol[t] + Unclaimed("p", t) + Unclaimed("q", t)
                      <= reserve[t]
  BY DEF VaultSolvent
<1> DEFINE op == Owed("p", t)
           oq == Owed("q", t)
<1>1. /\ op \in Nat /\ GrowthScale * op <= Due("p", t)
      /\ oq \in Nat /\ GrowthScale * oq <= Due("q", t)
  BY OwedIsBounded DEF IInv, Holders
<1> HIDE DEF op, oq
<1>2. /\ Due("p", t) \in Nat /\ Due("q", t) \in Nat /\ Spare(t) \in Int
  BY Nats DEF IInv
<1>3. GrowthScale * (op + oq) <= GrowthScale * Spare(t)
  <2>1. Due("p", t) + Due("q", t) <= GrowthScale * Spare(t)
    BY DEF IInv, FeesBacked, Dues
  <2>2. GrowthScale * (op + oq) = GrowthScale * op + GrowthScale * oq
    BY <1>1, ScaleAssumption
  <2>3. GrowthScale * Spare(t) \in Int /\ GrowthScale * op \in Int /\ GrowthScale * oq \in Int
    BY <1>1, <1>2, ScaleAssumption
  <2>4. QED
    BY <1>1, <1>2, <2>1, <2>2, <2>3
<1>4. op + oq <= Spare(t)
  BY <1>1, <1>2, <1>3, ScaleAssumption
<1>5. Unclaimed("p", t) = pending["p"][t] + op /\ Unclaimed("q", t) = pending["q"][t] + oq
  BY DEF Unclaimed, op, oq
<1>6. QED
  BY <1>1, <1>4, <1>5, Nats DEF IInv, Spare, Banks

(* The bin's liquidity is positive exactly when it holds a token.          *)
LEMMA LiquidityOfAmounts ==
  ASSUME NEW x \in Nat, NEW y \in Nat
  PROVE  /\ BinLiquidity(x, y, Price) \in Nat
         /\ BinLiquidity(x, y, Price) > 0 <=> x > 0 \/ y > 0
<1>1. Price * x \in Nat /\ One * y \in Nat
  BY ScaleAssumption, LedgerAssumption
<1>2. (x > 0 => Price * x > 0) /\ (y > 0 => One * y > 0)
  BY ScaleAssumption, LedgerAssumption
<1>3. (x = 0 => Price * x = 0) /\ (y = 0 => One * y = 0)
  BY ScaleAssumption, LedgerAssumption
<1>4. QED
  BY <1>1, <1>2, <1>3 DEF BinLiquidity

(* Banking fees moves them from Due to Banks, rounded down.                *)
LEMMA SyncMovesFees ==
  ASSUME IInv, NEW h \in Holders, Sync(h), growth' = growth,
         share' \in [Holders -> Nat],
         \A g \in Holders \ {h} : share'[g] = share[g]
  PROVE  /\ pending' \in [Holders -> [Tokens -> Nat]]
         /\ checkpoint' \in [Holders -> [Tokens -> Nat]]
         /\ CheckpointsBehind'
         /\ \A t \in Tokens :
              /\ Banks(t)' = Banks(t) + Owed(h, t)
              /\ Dues(t)' \in Nat
              /\ Dues(t)' + GrowthScale * Owed(h, t) <= Dues(t)
<1>1. \A t \in Tokens : Owed(h, t) \in Nat /\ GrowthScale * Owed(h, t) <= Due(h, t)
  BY OwedIsBounded DEF IInv
<1>2. Banked(h) \in [Tokens -> Nat]
  BY <1>1 DEF Banked, IInv, TypeOK
<1>3. /\ pending' \in [Holders -> [Tokens -> Nat]]
      /\ pending'[h] = Banked(h)
      /\ \A g \in Holders \ {h} : pending'[g] = pending[g]
  BY <1>2 DEF Sync, IInv, TypeOK
<1>4. /\ checkpoint' \in [Holders -> [Tokens -> Nat]]
      /\ checkpoint'[h] = growth
      /\ \A g \in Holders \ {h} : checkpoint'[g] = checkpoint[g]
  BY DEF Sync, IInv, TypeOK
<1>5. CheckpointsBehind'
  <2>1. ASSUME NEW g \in Holders, NEW t \in Tokens
        PROVE  checkpoint'[g][t] <= growth'[t]
    <3>1. growth[t] \in Nat /\ checkpoint[g][t] <= growth[t]
      BY DEF IInv, TypeOK, CheckpointsBehind
    <3>2. CASE g = h
      BY <1>4, <3>1, <3>2
    <3>3. CASE g # h
      BY <1>4, <3>1, <3>3
    <3>4. QED
      BY <3>2, <3>3
  <2>2. QED
    BY <2>1 DEF CheckpointsBehind
<1>6. ASSUME NEW t \in Tokens
      PROVE  /\ Banks(t)' = Banks(t) + Owed(h, t)
             /\ Dues(t)' \in Nat
             /\ Dues(t)' + GrowthScale * Owed(h, t) <= Dues(t)
  <2>1. Due(h, t)' = 0
    BY <1>4 DEF Due, IInv, TypeOK
  <2>2. \A g \in Holders \ {h} : Due(g, t)' = Due(g, t)
    BY <1>4 DEF Due
  <2>3. pending'[h][t] = pending[h][t] + Owed(h, t)
    BY <1>3 DEF Banked
  <2>4. /\ pending["p"][t] \in Nat /\ pending["q"][t] \in Nat
        /\ Due("p", t) \in Nat /\ Due("q", t) \in Nat
    BY Nats DEF IInv
  <2>5. GrowthScale * Owed(h, t) \in Nat
    BY <1>1, ScaleAssumption
  <2>6. CASE h = "p"
    <3>1. Due("q", t)' = Due("q", t) /\ pending'["q"][t] = pending["q"][t]
      BY <1>3, <2>2, <2>6 DEF Holders
    <3>2. QED
      BY <1>1, <2>1, <2>3, <2>4, <2>5, <2>6, <3>1 DEF Banks, Dues
  <2>7. CASE h = "q"
    <3>1. Due("p", t)' = Due("p", t) /\ pending'["p"][t] = pending["p"][t]
      BY <1>3, <2>2, <2>7 DEF Holders
    <3>2. QED
      BY <1>1, <2>1, <2>3, <2>4, <2>5, <2>7, <3>1 DEF Banks, Dues
  <2>8. QED
    BY <2>6, <2>7 DEF Holders
<1>7. QED
  BY <1>3, <1>4, <1>5, <1>6

(* What a step on one position's slot leaves of the fees' backing: the     *)
(* reserve's spare part gives up exactly what was banked.                  *)
LEMMA SyncKeepsBacking ==
  ASSUME IInv, NEW h \in Holders,
         \A t \in Tokens : /\ Owed(h, t) \in Nat
                           /\ Dues(t)' \in Int
                           /\ Dues(t)' + GrowthScale * Owed(h, t) <= Dues(t)
                           /\ Spare(t)' = Spare(t) - Owed(h, t)
  PROVE  FeesBacked'
<1> SUFFICES ASSUME NEW t \in Tokens
             PROVE  Dues(t)' <= GrowthScale * Spare(t)'
  BY DEF FeesBacked
<1>1. Dues(t) <= GrowthScale * Spare(t) /\ Dues(t) \in Nat /\ Spare(t) \in Int
  BY Nats DEF IInv, FeesBacked
<1>2. /\ GrowthScale * (Spare(t) - Owed(h, t)) =
           GrowthScale * Spare(t) - GrowthScale * Owed(h, t)
      /\ GrowthScale * Spare(t) \in Int /\ GrowthScale * Owed(h, t) \in Int
  BY <1>1, ScaleAssumption
<1>3. QED
  BY <1>1, <1>2

LEMMA InitInv == Init => IInv
<1> SUFFICES ASSUME Init PROVE IInv
  OBVIOUS
<1>1. TypeOK
  BY DEF Init, TypeOK
<1>2. SupplyIsBacked
  BY LiquidityOfAmounts DEF Init, SupplyIsBacked, Liquidity, Holders, Tokens
<1>3. CheckpointsBehind
  BY DEF Init, CheckpointsBehind
<1>4. \A t \in Tokens : Dues(t) = 0 /\ Spare(t) = 0
  BY DEF Init, Dues, Due, Spare, Banks, Holders
<1>5. FeesBacked
  BY <1>4, ScaleAssumption DEF FeesBacked
<1>6. QED
  BY <1>1, <1>2, <1>3, <1>5 DEF IInv

-----------------------------------------------------------------------------
(* The facts about the bin every step starts from.                         *)
LEMMA BinNats ==
  ASSUME IInv
  PROVE  /\ amount["x"] \in Nat /\ amount["y"] \in Nat /\ supply \in Nat
         /\ share["p"] \in Nat /\ share["q"] \in Nat
         /\ supply = share["p"] + share["q"]
         /\ \A h \in Holders : share[h] \in Nat /\ share[h] <= supply
         /\ Liquidity \in Nat
         /\ supply > 0 <=> Liquidity > 0
         /\ supply > 0 <=> amount["x"] > 0 \/ amount["y"] > 0
<1>1. /\ amount["x"] \in Nat /\ amount["y"] \in Nat /\ supply \in Nat
      /\ share["p"] \in Nat /\ share["q"] \in Nat
  BY DEF IInv, TypeOK, Tokens, Holders
<1>2. supply = share["p"] + share["q"] /\ (supply > 0 <=> Liquidity > 0)
  BY DEF IInv, SupplyIsBacked
<1>3. /\ Liquidity \in Nat
      /\ Liquidity > 0 <=> amount["x"] > 0 \/ amount["y"] > 0
  BY <1>1, LiquidityOfAmounts DEF Liquidity
<1>4. QED
  BY <1>1, <1>2, <1>3 DEF Holders

LEMMA MintedNat ==
  ASSUME IInv, NEW in \in Nat
  PROVE  /\ DepositShares(in, Liquidity, supply) \in Nat
         /\ DepositShares(in, Liquidity, supply) > 0 => in > 0
         /\ supply > 0 => DepositShares(in, Liquidity, supply) * Liquidity <= in * supply
<1> DEFINE m == (in * supply) \div Liquidity
<1>1. Liquidity \in Nat /\ supply \in Nat /\ (supply > 0 <=> Liquidity > 0)
  BY BinNats
<1>2. CASE supply = 0 \/ supply = Liquidity
  BY <1>1, <1>2 DEF DepositShares
<1>3. CASE supply > 0 /\ supply # Liquidity
  <2>1. in * supply \in Nat /\ Liquidity \in Nat \ {0}
    BY <1>1, <1>3
  <2>2. m \in Nat /\ m * Liquidity <= in * supply
    BY <2>1, Floor
  <2> HIDE DEF m
  <2>3. in = 0 => m = 0
    <3>1. m > 0 => m * Liquidity > 0
      BY <2>1, <2>2
    <3>2. in = 0 => in * supply = 0
      BY <1>1
    <3>3. QED
      BY <2>1, <2>2, <3>1, <3>2
  <2>4. DepositShares(in, Liquidity, supply) = m
    BY <1>1, <1>3 DEF DepositShares, m
  <2>5. QED
    BY <2>2, <2>3, <2>4
<1>4. QED
  BY <1>1, <1>2, <1>3

LEMMA DepositInv ==
  ASSUME IInv, NEW h \in Holders, NEW d \in [Tokens -> Deposits], Deposit(h, d)
  PROVE  IInv'
<1> DEFINE in == BinLiquidity(d["x"], d["y"], Price)
           minted == DepositShares(in, Liquidity, supply)
<1>1. /\ d \in [Tokens -> Nat] /\ d["x"] \in Nat /\ d["y"] \in Nat
  BY LedgerAssumption DEF Tokens
<1>2. in \in Nat /\ (in > 0 <=> d["x"] > 0 \/ d["y"] > 0)
  BY <1>1, LiquidityOfAmounts
<1> HIDE DEF in
<1>3. minted \in Nat /\ minted > 0 /\ in > 0
  BY <1>2, MintedNat DEF Deposit, in
<1>4. /\ Sync(h) /\ growth' = growth /\ protocol' = protocol
      /\ amount' = [t \in Tokens |-> amount[t] + d[t]]
      /\ supply' = supply + minted
      /\ share' = [share EXCEPT ![h] = share[h] + minted]
      /\ reserve' = [t \in Tokens |-> reserve[t] + d[t]]
  BY DEF Deposit, in
<1> HIDE DEF minted
<1>5. /\ share' \in [Holders -> Nat]
      /\ share'[h] = share[h] + minted
      /\ \A g \in Holders \ {h} : share'[g] = share[g]
  BY <1>3, <1>4 DEF IInv, TypeOK
<1>6. /\ pending' \in [Holders -> [Tokens -> Nat]]
      /\ checkpoint' \in [Holders -> [Tokens -> Nat]]
      /\ CheckpointsBehind'
      /\ \A t \in Tokens :
           /\ Banks(t)' = Banks(t) + Owed(h, t)
           /\ Dues(t)' \in Nat
           /\ Dues(t)' + GrowthScale * Owed(h, t) <= Dues(t)
  BY <1>4, <1>5, SyncMovesFees
<1>7. TypeOK'
  BY <1>1, <1>3, <1>4, <1>5, <1>6 DEF IInv, TypeOK
<1>8. SupplyIsBacked'
  <2>1. supply' = share'["p"] + share'["q"]
    BY <1>3, <1>4, <1>5, BinNats DEF Holders
  <2>2. /\ amount'["x"] = amount["x"] + d["x"]
        /\ amount'["y"] = amount["y"] + d["y"]
    BY <1>4 DEF Tokens
  <2>3. Liquidity' > 0
    <3>1. /\ amount'["x"] \in Nat /\ amount'["y"] \in Nat
          /\ amount'["x"] > 0 \/ amount'["y"] > 0
      BY <1>1, <1>2, <1>3, <2>2, BinNats
    <3>2. Liquidity' = BinLiquidity(amount'["x"], amount'["y"], Price)
      BY DEF Liquidity
    <3>3. QED
      BY <3>1, <3>2, LiquidityOfAmounts
  <2>4. QED
    BY <1>3, <1>4, <2>1, <2>3, BinNats DEF SupplyIsBacked
<1>9. FeesBacked'
  <2>1. \A t \in Tokens : Dues(t)' \in Nat /\ Owed(h, t) \in Nat
    BY <1>6, OwedIsBounded DEF IInv
  <2>2. ASSUME NEW t \in Tokens
        PROVE  Spare(t)' = Spare(t) - Owed(h, t)
    <3>1. reserve'[t] = reserve[t] + d[t] /\ amount'[t] = amount[t] + d[t]
      BY <1>4
    <3>2. QED
      BY <1>1, <1>4, <1>6, <2>1, <3>1, Nats DEF Spare, IInv
  <2>3. QED
    BY <1>6, <2>1, <2>2, SyncKeepsBacking
<1>10. QED
  BY <1>6, <1>7, <1>8, <1>9 DEF IInv

LEMMA BurnWithinShare ==
  ASSUME IInv, NEW h \in Holders, NEW bps \in Bps
  PROVE  SharesForBps(h, bps) \in 0 .. share[h]
<1> DEFINE n == share[h] * bps
<1>1. share[h] \in Nat /\ bps \in Nat /\ bps <= BasisPointMax /\ BasisPointMax \in Nat \ {0}
  BY BinNats, LedgerAssumption, ScaleAssumption
<1>2. n \in Nat /\ n <= share[h] * BasisPointMax
  BY <1>1
<1> DEFINE q == n \div BasisPointMax
<1>3. q \in Nat /\ q * BasisPointMax <= n
  BY <1>1, <1>2, Floor
<1> HIDE DEF n, q
<1>4. q * BasisPointMax <= share[h] * BasisPointMax
  BY <1>1, <1>2, <1>3
<1>5. q <= share[h]
  BY <1>1, <1>3, <1>4
<1>6. QED
  BY <1>1, <1>3, <1>5 DEF SharesForBps, n, q

(* What a withdrawal does to the bin: it is paid no more than its part,    *)
(* and leaves tokens behind exactly when it leaves shares.                 *)
LEMMA WithdrawSizes ==
  ASSUME IInv, NEW h \in Holders, NEW bps \in Bps, SharesForBps(h, bps) > 0
  PROVE  LET burned == SharesForBps(h, bps)
         IN  /\ burned \in Nat /\ burned <= share[h] /\ burned <= supply /\ supply \in Nat \ {0}
             /\ \A t \in Tokens :
                  /\ WithdrawAmount(burned, supply, amount[t]) \in 0 .. amount[t]
                  /\ WithdrawAmount(burned, supply, amount[t]) * supply <= burned * amount[t]
                  /\ burned < supply /\ amount[t] > 0
                       => WithdrawAmount(burned, supply, amount[t]) < amount[t]
                  /\ burned = supply => WithdrawAmount(burned, supply, amount[t]) = amount[t]
<1> DEFINE burned == SharesForBps(h, bps)
<1>1. burned \in Nat /\ burned <= share[h] /\ burned <= supply /\ supply \in Nat \ {0}
  BY BurnWithinShare, BinNats
<1> HIDE DEF burned
<1>2. \A t \in Tokens : amount[t] \in Nat
  BY DEF IInv, TypeOK
<1>3. \A t \in Tokens :
        /\ WithdrawAmount(burned, supply, amount[t]) \in 0 .. amount[t]
        /\ WithdrawAmount(burned, supply, amount[t]) * supply <= burned * amount[t]
        /\ burned < supply /\ amount[t] > 0
             => WithdrawAmount(burned, supply, amount[t]) < amount[t]
  BY <1>1, <1>2, WithdrawalWithinShare
<1>4. QED
  BY <1>1, <1>3 DEF WithdrawAmount, burned

LEMMA WithdrawInv ==
  ASSUME IInv, NEW h \in Holders, NEW bps \in Bps, Withdraw(h, bps)
  PROVE  IInv'
<1> DEFINE burned == SharesForBps(h, bps)
           out == [t \in Tokens |-> WithdrawAmount(burned, supply, amount[t])]
<1>1. /\ burned \in Nat /\ burned <= share[h] /\ burned <= supply /\ supply \in Nat \ {0}
      /\ \A t \in Tokens : /\ out[t] \in Nat /\ out[t] <= amount[t]
                           /\ burned < supply /\ amount[t] > 0 => out[t] < amount[t]
                           /\ burned = supply => out[t] = amount[t]
  BY WithdrawSizes DEF Withdraw
<1>2. /\ Sync(h) /\ growth' = growth /\ protocol' = protocol
      /\ amount' = [t \in Tokens |-> amount[t] - out[t]]
      /\ supply' = supply - burned
      /\ share' = [share EXCEPT ![h] = share[h] - burned]
      /\ reserve' = [t \in Tokens |-> reserve[t] - out[t]]
  BY DEF Withdraw
<1> HIDE DEF burned, out
<1>3. /\ share' \in [Holders -> Nat]
      /\ share'[h] = share[h] - burned
      /\ \A g \in Holders \ {h} : share'[g] = share[g]
  BY <1>1, <1>2 DEF IInv, TypeOK
<1>4. /\ pending' \in [Holders -> [Tokens -> Nat]]
      /\ checkpoint' \in [Holders -> [Tokens -> Nat]]
      /\ CheckpointsBehind'
      /\ \A t \in Tokens :
           /\ Banks(t)' = Banks(t) + Owed(h, t)
           /\ Dues(t)' \in Nat
           /\ Dues(t)' + GrowthScale * Owed(h, t) <= Dues(t)
  BY <1>2, <1>3, SyncMovesFees
<1>5. \A t \in Tokens : amount[t] <= reserve[t]
  <2>1. VaultSolvent
    BY BackedIsSolvent
  <2>2. \A t \in Tokens : Unclaimed("p", t) \in Nat /\ Unclaimed("q", t) \in Nat
    BY OwedIsBounded, Nats DEF Unclaimed, Holders, IInv
  <2>3. QED
    BY <2>1, <2>2, Nats DEF VaultSolvent, IInv
<1>6. TypeOK'
  BY <1>1, <1>2, <1>3, <1>4, <1>5 DEF IInv, TypeOK
<1>7. SupplyIsBacked'
  <2>1. supply' = share'["p"] + share'["q"]
    <3>1. CASE h = "p"
      BY <1>1, <1>2, <1>3, <3>1, BinNats DEF Holders
    <3>2. CASE h = "q"
      BY <1>1, <1>2, <1>3, <3>2, BinNats DEF Holders
    <3>3. QED
      BY <3>1, <3>2 DEF Holders
  <2>2. /\ amount'["x"] = amount["x"] - out["x"] /\ amount'["x"] \in Nat
        /\ amount'["y"] = amount["y"] - out["y"] /\ amount'["y"] \in Nat
    BY <1>2, <1>6 DEF Tokens, TypeOK
  <2>3. supply' > 0 <=> amount'["x"] > 0 \/ amount'["y"] > 0
    <3>1. CASE burned = supply
      BY <1>1, <1>2, <2>2, <3>1, BinNats DEF Tokens
    <3>2. CASE burned < supply
      BY <1>1, <1>2, <2>2, <3>2, BinNats DEF Tokens
    <3>3. QED
      BY <1>1, <3>1, <3>2
  <2>4. Liquidity' = BinLiquidity(amount'["x"], amount'["y"], Price)
    BY DEF Liquidity
  <2>5. Liquidity' > 0 <=> amount'["x"] > 0 \/ amount'["y"] > 0
    BY <2>2, <2>4, LiquidityOfAmounts
  <2>6. QED
    BY <2>1, <2>3, <2>5 DEF SupplyIsBacked
<1>8. FeesBacked'
  <2>1. \A t \in Tokens : Dues(t)' \in Nat /\ Owed(h, t) \in Nat
    BY <1>4, OwedIsBounded DEF IInv
  <2>2. ASSUME NEW t \in Tokens
        PROVE  Spare(t)' = Spare(t) - Owed(h, t)
    <3>1. reserve'[t] = reserve[t] - out[t] /\ amount'[t] = amount[t] - out[t]
      BY <1>2
    <3>2. QED
      BY <1>1, <1>2, <1>4, <2>1, <3>1, Nats DEF Spare, IInv
  <2>3. QED
    BY <1>4, <2>1, <2>2, SyncKeepsBacking
<1>9. QED
  BY <1>4, <1>6, <1>7, <1>8 DEF IInv

(* A claim pays out what Sync would have banked, and what was banked.      *)
LEMMA ClaimInv ==
  ASSUME IInv, NEW h \in Holders, ClaimFee(h)
  PROVE  IInv'
<1> DEFINE due == IF share[h] = 0 THEN pending[h] ELSE Banked(h)
<1>1. \A t \in Tokens : /\ Owed(h, t) \in Nat /\ GrowthScale * Owed(h, t) <= Due(h, t)
                        /\ share[h] = 0 => Owed(h, t) = 0
  BY OwedIsBounded DEF IInv
<1>2. \A t \in Tokens : pending[h][t] \in Nat /\ due[t] = pending[h][t] + Owed(h, t)
  BY <1>1 DEF Banked, IInv, TypeOK
<1>3. /\ pending' = [pending EXCEPT ![h] = [t \in Tokens |-> 0]]
      /\ checkpoint' = [checkpoint EXCEPT ![h] =
                          IF share[h] = 0 THEN checkpoint[h] ELSE growth]
      /\ reserve' = [t \in Tokens |-> reserve[t] - due[t]]
      /\ UNCHANGED <<amount, supply, growth, share, protocol>>
  BY DEF ClaimFee, bin
<1> HIDE DEF due
<1>4. \A t \in Tokens : due[t] \in Nat /\ due[t] <= reserve[t]
  <2>1. VaultSolvent
    BY BackedIsSolvent
  <2>2. \A t \in Tokens : /\ Unclaimed("p", t) \in Nat /\ Unclaimed("q", t) \in Nat
                          /\ due[t] = Unclaimed(h, t)
    BY <1>2, OwedIsBounded, Nats DEF Unclaimed, Holders, IInv
  <2>3. QED
    BY <1>1, <1>2, <2>1, <2>2, Nats DEF VaultSolvent, IInv, Holders
<1>5. /\ pending' \in [Holders -> [Tokens -> Nat]]
      /\ \A t \in Tokens : pending'[h][t] = 0
      /\ \A g \in Holders \ {h} : pending'[g] = pending[g]
  BY <1>3 DEF IInv, TypeOK
<1>6. /\ checkpoint' \in [Holders -> [Tokens -> Nat]]
      /\ share[h] # 0 => checkpoint'[h] = growth
      /\ share[h] = 0 => checkpoint'[h] = checkpoint[h]
      /\ \A g \in Holders \ {h} : checkpoint'[g] = checkpoint[g]
  BY <1>3 DEF IInv, TypeOK
<1>7. TypeOK'
  BY <1>3, <1>4, <1>5, <1>6, Nats DEF IInv, TypeOK
<1>8. SupplyIsBacked'
  BY <1>3 DEF IInv, SupplyIsBacked, Liquidity
<1>9. CheckpointsBehind'
  <2>1. ASSUME NEW g \in Holders, NEW t \in Tokens
        PROVE  checkpoint'[g][t] <= growth'[t]
    <3>1. /\ growth[t] \in Nat /\ checkpoint[g][t] <= growth[t]
          /\ checkpoint'[g] = checkpoint[g] \/ checkpoint'[g] = growth
      BY <1>6 DEF IInv, TypeOK, CheckpointsBehind
    <3>2. QED
      BY <1>3, <3>1
  <2>2. QED
    BY <2>1 DEF CheckpointsBehind
<1>10. ASSUME NEW t \in Tokens
       PROVE  /\ Dues(t)' \in Nat
              /\ Dues(t)' + GrowthScale * Owed(h, t) <= Dues(t)
              /\ Spare(t)' = Spare(t) - Owed(h, t)
  <2>1. /\ pending["p"][t] \in Nat /\ pending["q"][t] \in Nat
        /\ Due("p", t) \in Nat /\ Due("q", t) \in Nat
    BY Nats DEF IInv
  <2>2. Due(h, t)' = 0
    BY <1>3, <1>6 DEF Due, IInv, TypeOK
  <2>3. \A g \in Holders \ {h} : Due(g, t)' = Due(g, t)
    BY <1>3, <1>6 DEF Due
  <2>4. GrowthScale * Owed(h, t) \in Nat
    BY <1>1, ScaleAssumption
  <2>5. reserve'[t] = reserve[t] - due[t] /\ amount'[t] = amount[t]
        /\ protocol'[t] = protocol[t]
    BY <1>3
  <2>6. CASE h = "p"
    <3>1. Due("q", t)' = Due("q", t) /\ pending'["q"][t] = pending["q"][t]
      BY <1>5, <2>3, <2>6 DEF Holders
    <3>2. Dues(t)' \in Nat /\ Dues(t)' + GrowthScale * Owed(h, t) <= Dues(t)
      BY <1>1, <2>1, <2>2, <2>4, <2>6, <3>1 DEF Dues
    <3>3. Banks(t)' = Banks(t) - pending[h][t]
      BY <1>5, <2>1, <2>6, <3>1 DEF Banks
    <3>4. Spare(t)' = Spare(t) - Owed(h, t)
      BY <1>1, <1>2, <2>1, <2>5, <3>3, Nats DEF Spare, IInv
    <3>5. QED
      BY <3>2, <3>4
  <2>7. CASE h = "q"
    <3>1. Due("p", t)' = Due("p", t) /\ pending'["p"][t] = pending["p"][t]
      BY <1>5, <2>3, <2>7 DEF Holders
    <3>2. Dues(t)' \in Nat /\ Dues(t)' + GrowthScale * Owed(h, t) <= Dues(t)
      BY <1>1, <2>1, <2>2, <2>4, <2>7, <3>1 DEF Dues
    <3>3. Banks(t)' = Banks(t) - pending[h][t]
      BY <1>5, <2>1, <2>7, <3>1 DEF Banks
    <3>4. Spare(t)' = Spare(t) - Owed(h, t)
      BY <1>1, <1>2, <2>1, <2>5, <3>3, Nats DEF Spare, IInv
    <3>5. QED
      BY <3>2, <3>4
  <2>8. QED
    BY <2>6, <2>7 DEF Holders
<1>11. FeesBacked'
  BY <1>1, <1>10, SyncKeepsBacking
<1>12. QED
  BY <1>7, <1>8, <1>9, <1>11 DEF IInv

LEMMA CollectInv ==
  ASSUME IInv, CollectProtocolFee
  PROVE  IInv'
<1>1. /\ reserve' = [t \in Tokens |-> reserve[t] - protocol[t]]
      /\ protocol' = [t \in Tokens |-> 0]
      /\ UNCHANGED <<amount, supply, growth, share, checkpoint, pending>>
  BY DEF CollectProtocolFee, bin, slots
<1>2. \A t \in Tokens : protocol[t] <= reserve[t]
  <2>1. VaultSolvent
    BY BackedIsSolvent
  <2>2. \A t \in Tokens : Unclaimed("p", t) \in Nat /\ Unclaimed("q", t) \in Nat
    BY OwedIsBounded, Nats DEF Unclaimed, Holders, IInv
  <2>3. QED
    BY <2>1, <2>2, Nats DEF VaultSolvent, IInv
<1>3. TypeOK'
  BY <1>1, <1>2, Nats DEF IInv, TypeOK
<1>4. SupplyIsBacked' /\ CheckpointsBehind'
  BY <1>1 DEF IInv, SupplyIsBacked, CheckpointsBehind, Liquidity
<1>5. \A t \in Tokens : Dues(t)' = Dues(t) /\ Spare(t)' = Spare(t)
  BY <1>1, Nats DEF Dues, Due, Spare, Banks, IInv
<1>6. FeesBacked'
  BY <1>5 DEF IInv, FeesBacked
<1>7. QED
  BY <1>3, <1>4, <1>6 DEF IInv

-----------------------------------------------------------------------------
LEMMA Distribute ==
  ASSUME NEW s \in Nat, NEW e \in Int, NEW d \in Nat
  PROVE  s * (e + d) = s * e + s * d
  OBVIOUS

(* A swap, seen as what it moves: binIn and binOut change the inventory,   *)
(* the fee goes to the side it is charged in, one cut of it to the         *)
(* protocol and the rest into growth.                                      *)
LEMMA SwapMoves ==
  ASSUME IInv, NEW swapForY \in BOOLEAN, NEW size \in SwapSizes, NEW rate \in Rates,
         Swap(swapForY, size, rate)
  PROVE  \E in, out, feeToken \in Tokens, binIn, binOut, fee, cut \in Nat :
           /\ in # out /\ cut <= fee
           /\ feeToken = in \/ feeToken = out
           /\ in = (IF swapForY THEN "x" ELSE "y")
           /\ binOut > 0 /\ binOut <= amount[out]
           /\ Covers(binIn, binOut, Price, swapForY)
           /\ amount' = [amount EXCEPT ![in] = amount[in] + binIn,
                                       ![out] = amount[out] - binOut]
           /\ growth' = [growth EXCEPT ![feeToken] =
                           growth[feeToken] + FeeGrowthDelta(fee - cut, supply)]
           /\ protocol' = [protocol EXCEPT ![feeToken] = protocol[feeToken] + cut]
           /\ reserve' = [reserve EXCEPT
                ![in] = reserve[in] + binIn + (IF feeToken = in THEN fee ELSE 0),
                ![out] = reserve[out] - (binOut - (IF feeToken = out THEN fee ELSE 0))]
           /\ UNCHANGED <<supply, share, checkpoint, pending>>
<1> DEFINE in == IF swapForY THEN "x" ELSE "y"
           out == IF swapForY THEN "y" ELSE "x"
           onOut == FeeOnOutput(swapForY)
           feeToken == IF onOut THEN out ELSE in
           fill == SwapInBin(amount[out], Price, size, swapForY, rate, onOut)
           cut == ProtocolCut(fill.fee, ProtocolShare)
<1>1. /\ in \in Tokens /\ out \in Tokens /\ feeToken \in Tokens /\ in # out
      /\ onOut \in BOOLEAN
      /\ IF onOut THEN feeToken = out ELSE feeToken = in
  BY LedgerAssumption DEF Tokens, FeeOnOutput
<1>2. /\ amount[out] \in Nat /\ Price \in Nat \ {0} /\ size \in Nat /\ size < U64Max
      /\ rate \in 0 .. FeePrecision - 1 /\ ProtocolShare \in 0 .. BasisPointMax
  BY LedgerAssumption, ScaleAssumption DEF IInv, TypeOK, Tokens
<1>3. /\ amount' = [amount EXCEPT ![in] = amount[in] + fill.binIn,
                                  ![out] = amount[out] - fill.binOut]
      /\ growth' = [growth EXCEPT ![feeToken] =
                      growth[feeToken] + FeeGrowthDelta(fill.fee - cut, supply)]
      /\ protocol' = [protocol EXCEPT ![feeToken] = protocol[feeToken] + cut]
      /\ reserve' = [reserve EXCEPT ![in] = reserve[in] + fill.amountIn,
                                    ![out] = reserve[out] - fill.amountOut]
      /\ UNCHANGED <<supply, share, checkpoint, pending>>
  <2>1. in # out
    OBVIOUS
  <2>2. QED
    BY <2>1 DEF Swap, slots
<1>31. fill.binOut # 0
  BY FillTakesOutput DEF Swap
<1> HIDE DEF feeToken, onOut, in, out
<1>4. FairFill(fill, amount[out], Price, size, swapForY, onOut)
  BY <1>1, <1>2, SwapIsFair
<1> HIDE DEF fill
<1>5. cut \in 0 .. fill.fee
  BY <1>2, <1>4, CutWithinFee DEF FairFill
<1> HIDE DEF cut
<1>6. /\ fill.binIn \in Nat /\ fill.binOut \in Nat /\ fill.fee \in Nat
      /\ fill.binOut <= amount[out] /\ Covers(fill.binIn, fill.binOut, Price, swapForY)
      /\ fill.amountIn = fill.binIn + (IF feeToken = in THEN fill.fee ELSE 0)
      /\ fill.amountOut = fill.binOut - (IF feeToken = out THEN fill.fee ELSE 0)
  BY <1>1, <1>2, <1>4 DEF FairFill
<1>61. fill.binOut > 0
  BY <1>31, <1>6
<1>7. reserve[in] \in Nat
  BY <1>1 DEF IInv, TypeOK
<1>8. reserve[in] + fill.amountIn =
        reserve[in] + fill.binIn + (IF feeToken = in THEN fill.fee ELSE 0)
  BY <1>6, <1>7
<1>9. /\ feeToken = in \/ feeToken = out
      /\ in = (IF swapForY THEN "x" ELSE "y")
  BY <1>1 DEF in
<1>10. cut \in Nat /\ cut <= fill.fee
  BY <1>5, <1>6
<1>11. /\ in \in Tokens /\ out \in Tokens /\ feeToken \in Tokens
       /\ fill.binIn \in Nat /\ fill.binOut \in Nat /\ fill.fee \in Nat
  BY <1>1, <1>6
<1>12. reserve' = [reserve EXCEPT
                ![in] = reserve[in] + fill.binIn + (IF feeToken = in THEN fill.fee ELSE 0),
                ![out] = reserve[out]
                           - (fill.binOut - (IF feeToken = out THEN fill.fee ELSE 0))]
  BY <1>3, <1>6, <1>8
<1> USE <1>10, <1>11
<1> WITNESS in \in Tokens, out \in Tokens, feeToken \in Tokens,
            fill.binIn \in Nat, fill.binOut \in Nat, fill.fee \in Nat, cut \in Nat
<1>13. QED
  BY <1>1, <1>3, <1>6, <1>61, <1>9, <1>10, <1>12
(* What enters a bin is worth more than nothing when something leaves it.  *)
LEMMA PaidForIsPaid ==
  ASSUME NEW binIn \in Nat, NEW binOut \in Nat, NEW swapForY \in BOOLEAN,
         Covers(binIn, binOut, Price, swapForY), binOut > 0
  PROVE  binIn > 0
<1>1. Price \in Nat \ {0} /\ One \in Nat \ {0}
  BY LedgerAssumption, ScaleAssumption
<1>2. binOut * One > 0 /\ binOut * Price > 0
  BY <1>1
<1>3. binIn = 0 => binIn * One = 0 /\ binIn * Price = 0
  BY <1>1
<1>4. QED
  BY <1>1, <1>2, <1>3 DEF Covers

LEMMA SwapInv ==
  ASSUME IInv, NEW swapForY \in BOOLEAN, NEW size \in SwapSizes, NEW rate \in Rates,
         Swap(swapForY, size, rate)
  PROVE  IInv'
<1>1. PICK in, out, feeToken \in Tokens, binIn, binOut, fee, cut \in Nat :
           /\ in # out /\ cut <= fee
           /\ feeToken = in \/ feeToken = out
           /\ in = (IF swapForY THEN "x" ELSE "y")
           /\ binOut > 0 /\ binOut <= amount[out]
           /\ Covers(binIn, binOut, Price, swapForY)
           /\ amount' = [amount EXCEPT ![in] = amount[in] + binIn,
                                       ![out] = amount[out] - binOut]
           /\ growth' = [growth EXCEPT ![feeToken] =
                           growth[feeToken] + FeeGrowthDelta(fee - cut, supply)]
           /\ protocol' = [protocol EXCEPT ![feeToken] = protocol[feeToken] + cut]
           /\ reserve' = [reserve EXCEPT
                ![in] = reserve[in] + binIn + (IF feeToken = in THEN fee ELSE 0),
                ![out] = reserve[out] - (binOut - (IF feeToken = out THEN fee ELSE 0))]
           /\ UNCHANGED <<supply, share, checkpoint, pending>>
  BY SwapMoves
<1> DEFINE delta == FeeGrowthDelta(fee - cut, supply)
<1>2. /\ supply \in Nat /\ fee - cut \in Nat
      /\ delta \in Nat /\ supply * delta <= (fee - cut) * GrowthScale
  <2>1. supply \in Nat /\ fee - cut \in Nat
    BY <1>1, BinNats
  <2>2. QED
    BY <2>1, GrowthWithinFee
<1> HIDE DEF delta
<1>3. Tokens = {in, out}
  BY <1>1 DEF Tokens
<1>4. /\ amount'[in] = amount[in] + binIn /\ amount'[out] = amount[out] - binOut
      /\ growth'[feeToken] = growth[feeToken] + delta
      /\ protocol'[feeToken] = protocol[feeToken] + cut
      /\ reserve'[in] = reserve[in] + binIn + (IF feeToken = in THEN fee ELSE 0)
      /\ reserve'[out] = reserve[out] - (binOut - (IF feeToken = out THEN fee ELSE 0))
      /\ \A t \in Tokens \ {feeToken} : growth'[t] = growth[t] /\ protocol'[t] = protocol[t]
  BY <1>1 DEF IInv, TypeOK, delta
<1>5. \A t \in Tokens : /\ amount[t] \in Nat /\ growth[t] \in Nat /\ protocol[t] \in Nat
                        /\ reserve[t] \in Nat /\ amount[t] <= reserve[t]
  <2>1. VaultSolvent
    BY BackedIsSolvent
  <2>2. \A t \in Tokens : Unclaimed("p", t) \in Nat /\ Unclaimed("q", t) \in Nat
    BY OwedIsBounded, Nats DEF Unclaimed, Holders, IInv
  <2>3. QED
    BY <2>1, <2>2, Nats DEF VaultSolvent, IInv
<1>6. TypeOK'
  <2>1. amount' \in [Tokens -> Nat]
    BY <1>1, <1>3, <1>4, <1>5 DEF IInv, TypeOK
  <2>2. growth' \in [Tokens -> Nat] /\ protocol' \in [Tokens -> Nat]
    BY <1>1, <1>2, <1>5 DEF IInv, TypeOK, delta
  <2>3. reserve'[in] \in Nat /\ reserve'[out] \in Nat
    BY <1>1, <1>4, <1>5
  <2>4. reserve' \in [Tokens -> Nat]
    BY <1>1, <1>3, <2>3 DEF IInv, TypeOK
  <2>5. QED
    BY <1>1, <2>1, <2>2, <2>4 DEF IInv, TypeOK
<1>7. SupplyIsBacked'
  <2>1. supply' = share'["p"] + share'["q"]
    BY <1>1 DEF IInv, SupplyIsBacked
  <2>2. amount[out] > 0 /\ binIn > 0
    BY <1>1, <1>5, PaidForIsPaid
  <2>3. supply > 0
    BY <1>1, <2>2, BinNats DEF Tokens
  <2>4. amount'["x"] \in Nat /\ amount'["y"] \in Nat
    BY <1>6 DEF TypeOK, Tokens
  <2>5. amount'["x"] > 0 \/ amount'["y"] > 0
    <3>1. amount'[in] > 0
      BY <1>4, <1>5, <2>2
    <3>2. QED
      BY <3>1 DEF Tokens
  <2>6. Liquidity' = BinLiquidity(amount'["x"], amount'["y"], Price)
    BY DEF Liquidity
  <2>7. QED
    BY <1>1, <2>1, <2>3, <2>4, <2>5, <2>6, LiquidityOfAmounts DEF SupplyIsBacked
<1>8. CheckpointsBehind'
  <2>1. ASSUME NEW h \in Holders, NEW t \in Tokens
        PROVE  checkpoint'[h][t] <= growth'[t]
    <3>1. /\ growth'[t] = growth[t] \/ growth'[t] = growth[t] + delta
          /\ checkpoint'[h][t] \in Nat /\ checkpoint[h][t] <= growth[t]
          /\ checkpoint' = checkpoint
      BY <1>1, <1>4 DEF IInv, TypeOK, CheckpointsBehind
    <3>2. QED
      BY <1>2, <1>5, <3>1
  <2>2. QED
    BY <2>1 DEF CheckpointsBehind
<1>9. FeesBacked'
  <2>1. ASSUME NEW t \in Tokens
        PROVE  Dues(t)' <= GrowthScale * Spare(t)'
    <3>1. /\ Banks(t)' = Banks(t) /\ Banks(t) \in Nat /\ Spare(t) \in Int
          /\ Dues(t) \in Nat /\ Dues(t) <= GrowthScale * Spare(t)
      BY <1>1, Nats DEF Banks, IInv, FeesBacked
    <3>2. CASE t = feeToken
      <4>1. Dues(t)' = Dues(t) + supply * delta
        <5>1. growth'[t] = growth[t] + delta
          BY <1>4, <3>2
        <5>2. ASSUME NEW h \in Holders
              PROVE  Due(h, t)' = Due(h, t) + share[h] * delta
          <6> DEFINE e == growth[t] - checkpoint[h][t]
          <6>1. /\ share[h] \in Nat /\ checkpoint[h][t] \in Nat /\ growth[t] \in Nat
                /\ checkpoint'[h][t] = checkpoint[h][t] /\ share'[h] = share[h]
            BY <1>1 DEF IInv, TypeOK
          <6>2. e \in Int /\ growth'[t] - checkpoint'[h][t] = e + delta
            BY <1>2, <5>1, <6>1
          <6>3. Due(h, t) = share[h] * e
            BY DEF Due
          <6> HIDE DEF e
          <6>4. Due(h, t)' = share[h] * (e + delta)
            BY <6>1, <6>2 DEF Due
          <6>5. QED
            BY <1>2, <6>1, <6>2, <6>3, <6>4, Distribute
        <5>3. supply * delta = share["p"] * delta + share["q"] * delta
          BY <1>2, BinNats
        <5>4. /\ Due("p", t) \in Nat /\ Due("q", t) \in Nat
              /\ share["p"] * delta \in Nat /\ share["q"] * delta \in Nat
          BY <1>2, BinNats, Nats, Products DEF IInv
        <5>5. QED
          BY <5>2, <5>3, <5>4 DEF Dues, Holders
      <4>2. Spare(t)' = Spare(t) + (fee - cut)
        <5>1. protocol'[t] = protocol[t] + cut
          BY <1>4, <3>2
        <5>2. reserve'[t] - amount'[t] = reserve[t] - amount[t] + fee
          <6>1. CASE t = in
            BY <1>1, <1>4, <1>5, <3>2, <6>1
          <6>2. CASE t = out
            BY <1>1, <1>4, <1>5, <3>2, <6>2
          <6>3. QED
            BY <1>1, <3>2, <6>1, <6>2
        <5>3. reserve'[t] \in Nat /\ amount'[t] \in Nat
          BY <1>6 DEF TypeOK
        <5>4. QED
          BY <1>1, <1>5, <3>1, <5>1, <5>2, <5>3 DEF Spare
      <4>3. /\ GrowthScale * (Spare(t) + (fee - cut)) =
                 GrowthScale * Spare(t) + (fee - cut) * GrowthScale
            /\ GrowthScale * Spare(t) \in Int /\ (fee - cut) * GrowthScale \in Int
        BY <1>2, <3>1, ScaleAssumption
      <4>4. supply * delta \in Nat
        BY <1>2, Products
      <4>5. QED
        BY <1>2, <3>1, <4>1, <4>2, <4>3, <4>4
    <3>3. CASE t # feeToken
      <4>1. growth'[t] = growth[t] /\ protocol'[t] = protocol[t]
        BY <1>4, <3>3
      <4>2. Dues(t)' = Dues(t)
        BY <1>1, <4>1 DEF Dues, Due
      <4>3. reserve'[t] - amount'[t] = reserve[t] - amount[t]
        <5>1. CASE t = in
          BY <1>1, <1>4, <1>5, <3>3, <5>1
        <5>2. CASE t = out
          BY <1>1, <1>4, <1>5, <3>3, <5>2
        <5>3. QED
          BY <1>3, <5>1, <5>2
      <4>4. reserve'[t] \in Nat /\ amount'[t] \in Nat
        BY <1>6 DEF TypeOK
      <4>5. Spare(t)' = Spare(t)
        BY <1>5, <3>1, <4>1, <4>3, <4>4 DEF Spare
      <4>6. QED
        BY <3>1, <4>2, <4>5
    <3>4. QED
      BY <3>2, <3>3
  <2>2. QED
    BY <2>1 DEF FeesBacked
<1>10. QED
  BY <1>6, <1>7, <1>8, <1>9 DEF IInv

LEMMA StepInv == IInv /\ [Next]_vars => IInv'
<1> SUFFICES ASSUME IInv, [Next]_vars PROVE IInv'
  OBVIOUS
<1>1. CASE UNCHANGED vars
  BY <1>1 DEF vars, IInv, TypeOK, SupplyIsBacked, Liquidity, CheckpointsBehind,
              FeesBacked, Dues, Due, Spare, Banks
<1>2. QED
  BY <1>1, DepositInv, WithdrawInv, ClaimInv, SwapInv, CollectInv DEF Next

(* The strengthening holds in every reachable state.                       *)
THEOREM Invariance == Spec => []IInv
  BY InitInv, StepInv, PTL DEF Spec

(* No operation takes an amount below zero.                                *)
THEOREM AmountsNatural == Spec => []TypeOK
<1>1. IInv => TypeOK
  BY DEF IInv
<1>2. QED
  BY <1>1, Invariance, PTL

(* The reserve always covers inventory, protocol cut and unclaimed fees.   *)
THEOREM Solvency == Spec => []VaultSolvent
  BY BackedIsSolvent, Invariance, PTL

(* Shares exist exactly while liquidity does.                              *)
THEOREM SupplyBacked == Spec => []SupplyIsBacked
<1>1. IInv => SupplyIsBacked
  BY DEF IInv
<1>2. QED
  BY <1>1, Invariance, PTL

-----------------------------------------------------------------------------
(***************************************************************************)
(* The liquidity behind one share.                                         *)
(***************************************************************************)
LEMMA LiquidityAfter ==
  Liquidity' = BinLiquidity(amount'["x"], amount'["y"], Price)
  BY DEF Liquidity

(* Liquidity is linear in the amounts.                                     *)
LEMMA LiquidityAdds ==
  ASSUME NEW x \in Int, NEW y \in Int, NEW dx \in Int, NEW dy \in Int
  PROVE  BinLiquidity(x + dx, y + dy, Price) =
           BinLiquidity(x, y, Price) + (Price * dx + One * dy)
<1>1. /\ Price * (x + dx) = Price * x + Price * dx
      /\ One * (y + dy) = One * y + One * dy
      /\ Price * x \in Int /\ Price * dx \in Int /\ One * y \in Int /\ One * dy \in Int
  BY ScaleAssumption, LedgerAssumption
<1>2. QED
  BY <1>1 DEF BinLiquidity

(* The same in terms of the bin's amounts before a step.                   *)
LEMMA LiquidityMoves ==
  ASSUME IInv, NEW dx \in Int, NEW dy \in Int
  PROVE  BinLiquidity(amount["x"] + dx, amount["y"] + dy, Price) =
           Liquidity + (Price * dx + One * dy)
<1>1. amount["x"] \in Int /\ amount["y"] \in Int
  BY BinNats
<1>2. ASSUME NEW x \in Int, NEW y \in Int
      PROVE  BinLiquidity(x + dx, y + dy, Price) =
               BinLiquidity(x, y, Price) + (Price * dx + One * dy)
  BY LiquidityAdds
<1>3. QED
  BY <1>1, <1>2 DEF Liquidity

LEMMA Subtract ==
  ASSUME NEW a \in Int, NEW o \in Int
  PROVE  a - o = a + (0 - o)
  OBVIOUS

LEMMA DepositKeepsValue ==
  ASSUME IInv, NEW h \in Holders, NEW d \in [Tokens -> Deposits], Deposit(h, d)
  PROVE  ShareValueKept
<1> DEFINE in == BinLiquidity(d["x"], d["y"], Price)
           minted == DepositShares(in, Liquidity, supply)
<1>1. d["x"] \in Nat /\ d["y"] \in Nat
  BY LedgerAssumption DEF Tokens
<1>2. in \in Nat /\ in = Price * d["x"] + One * d["y"]
  BY <1>1, LiquidityOfAmounts DEF BinLiquidity
<1>3. Liquidity' = Liquidity + in
  <2>1. amount'["x"] = amount["x"] + d["x"] /\ amount'["y"] = amount["y"] + d["y"]
    BY DEF Deposit, Tokens
  <2>2. d["x"] \in Int /\ d["y"] \in Int
    BY <1>1
  <2>3. BinLiquidity(amount["x"] + d["x"], amount["y"] + d["y"], Price) =
          Liquidity + (Price * d["x"] + One * d["y"])
    BY <2>2, LiquidityMoves
  <2>4. QED
    BY <1>2, <2>1, <2>3, LiquidityAfter
<1>4. supply' = supply + minted
  BY DEF Deposit
<1> HIDE DEF in
<1>5. /\ minted \in Nat /\ Liquidity \in Nat /\ supply \in Nat
      /\ supply > 0 => minted * Liquidity <= in * supply
  BY <1>2, MintedNat, BinNats
<1> HIDE DEF minted
<1>6. /\ (Liquidity + in) * supply = Liquidity * supply + in * supply
      /\ Liquidity * (supply + minted) = Liquidity * supply + minted * Liquidity
      /\ Liquidity * supply \in Nat /\ in * supply \in Nat /\ minted * Liquidity \in Nat
  BY <1>2, <1>5
<1>7. QED
  BY <1>3, <1>4, <1>5, <1>6 DEF ShareValueKept

LEMMA WithdrawKeepsValue ==
  ASSUME IInv, NEW h \in Holders, NEW bps \in Bps, Withdraw(h, bps)
  PROVE  ShareValueKept
<1> DEFINE burned == SharesForBps(h, bps)
           ox == WithdrawAmount(burned, supply, amount["x"])
           oy == WithdrawAmount(burned, supply, amount["y"])
           paid == Price * ox + One * oy
<1>1. burned \in Nat /\ burned <= supply /\ supply \in Nat \ {0}
  BY WithdrawSizes DEF Withdraw
<1>2. /\ ox \in Nat /\ ox * supply <= burned * amount["x"]
      /\ oy \in Nat /\ oy * supply <= burned * amount["y"]
  BY WithdrawSizes DEF Withdraw, Tokens
<1>3. /\ supply' = supply - burned
      /\ amount'["x"] = amount["x"] + (0 - ox) /\ amount'["y"] = amount["y"] + (0 - oy)
  <2>1. /\ supply' = supply - burned
        /\ amount'["x"] = amount["x"] - ox /\ amount'["y"] = amount["y"] - oy
    BY DEF Withdraw, Tokens
  <2> HIDE DEF burned, ox, oy, paid
  <2>2. ox \in Int /\ oy \in Int
    BY <1>2
  <2>3. amount["x"] \in Int /\ amount["y"] \in Int
    BY BinNats
  <2>4. /\ amount["x"] - ox = amount["x"] + (0 - ox)
        /\ amount["y"] - oy = amount["y"] + (0 - oy)
    BY <2>2, <2>3, Subtract
  <2>5. QED
    BY <2>1, <2>4
<1> HIDE DEF burned, ox, oy
<1>4. paid \in Nat
  BY <1>2, ScaleAssumption, LedgerAssumption
<1>5. Liquidity' = Liquidity - paid
  <2>1. Liquidity' = Liquidity + (Price * (0 - ox) + One * (0 - oy))
    <3>1. 0 - ox \in Int /\ 0 - oy \in Int
      BY <1>2
    <3>2. BinLiquidity(amount["x"] + (0 - ox), amount["y"] + (0 - oy), Price) =
            Liquidity + (Price * (0 - ox) + One * (0 - oy))
      BY <3>1, LiquidityMoves
    <3>3. QED
      BY <1>3, <3>2, LiquidityAfter
  <2>2. Price * (0 - ox) = 0 - Price * ox /\ One * (0 - oy) = 0 - One * oy
    BY <1>2, ScaleAssumption, LedgerAssumption
  <2>3. Price * ox \in Nat /\ One * oy \in Nat
    BY <1>2, ScaleAssumption, LedgerAssumption
  <2>4. QED
    BY <2>1, <2>2, <2>3, BinNats
<1>6. paid * supply <= burned * Liquidity
  <2>1. /\ amount["x"] \in Nat /\ amount["y"] \in Nat
        /\ Price \in Nat /\ One \in Nat
    BY BinNats, ScaleAssumption, LedgerAssumption
  <2>2. Price * (ox * supply) <= Price * (burned * amount["x"])
    BY <1>1, <1>2, <2>1
  <2>3. One * (oy * supply) <= One * (burned * amount["y"])
    BY <1>1, <1>2, <2>1
  <2>4. paid * supply = Price * (ox * supply) + One * (oy * supply)
    BY <1>1, <1>2, <2>1
  <2>5. burned * Liquidity =
          Price * (burned * amount["x"]) + One * (burned * amount["y"])
    BY <1>1, <2>1 DEF Liquidity, BinLiquidity
  <2>6. /\ Price * (ox * supply) \in Nat /\ One * (oy * supply) \in Nat
        /\ Price * (burned * amount["x"]) \in Nat /\ One * (burned * amount["y"]) \in Nat
    BY <1>1, <1>2, <2>1, Products
  <2>7. QED
    BY <2>2, <2>3, <2>4, <2>5, <2>6
<1> HIDE DEF paid
<1>7. /\ Liquidity \in Nat
      /\ (Liquidity - paid) * supply = Liquidity * supply - paid * supply
      /\ Liquidity * (supply - burned) = Liquidity * supply - burned * Liquidity
      /\ Liquidity * supply \in Nat /\ paid * supply \in Nat /\ burned * Liquidity \in Nat
  BY <1>1, <1>4, BinNats
<1>8. QED
  BY <1>3, <1>5, <1>6, <1>7 DEF ShareValueKept

LEMMA SwapKeepsValue ==
  ASSUME IInv, NEW swapForY \in BOOLEAN, NEW size \in SwapSizes, NEW rate \in Rates,
         Swap(swapForY, size, rate)
  PROVE  ShareValueKept
<1>1. PICK in, out \in Tokens, binIn, binOut \in Nat :
        /\ in # out /\ in = (IF swapForY THEN "x" ELSE "y")
        /\ Covers(binIn, binOut, Price, swapForY)
        /\ amount' = [amount EXCEPT ![in] = amount[in] + binIn,
                                    ![out] = amount[out] - binOut]
        /\ supply' = supply
  BY SwapMoves
<1>2. /\ Price \in Nat /\ One \in Nat
      /\ amount["x"] \in Nat /\ amount["y"] \in Nat /\ amount \in [Tokens -> Nat]
      /\ supply \in Nat /\ Liquidity \in Nat
  BY BinNats, ScaleAssumption, LedgerAssumption DEF IInv, TypeOK
<1>3. Liquidity' \in Int /\ Liquidity' >= Liquidity
  <2>1. CASE swapForY
    <3>1. amount'["x"] = amount["x"] + binIn /\ amount'["y"] = amount["y"] + (0 - binOut)
      BY <1>1, <1>2, <2>1 DEF Tokens
    <3>2. Liquidity' = Liquidity + (Price * binIn + One * (0 - binOut))
      BY <1>2, <3>1, LiquidityAfter, LiquidityAdds DEF Liquidity
    <3>3. /\ One * (0 - binOut) = 0 - binOut * One
          /\ Price * binIn = binIn * Price
          /\ binOut * One \in Nat /\ binIn * Price \in Nat
      BY <1>2
    <3>4. binOut * One <= binIn * Price
      BY <1>1, <2>1 DEF Covers
    <3>5. QED
      BY <1>2, <3>2, <3>3, <3>4
  <2>2. CASE ~swapForY
    <3>1. amount'["x"] = amount["x"] + (0 - binOut) /\ amount'["y"] = amount["y"] + binIn
      BY <1>1, <1>2, <2>2 DEF Tokens
    <3>2. Liquidity' = Liquidity + (Price * (0 - binOut) + One * binIn)
      BY <1>2, <3>1, LiquidityAfter, LiquidityAdds DEF Liquidity
    <3>3. /\ Price * (0 - binOut) = 0 - binOut * Price
          /\ One * binIn = binIn * One
          /\ binOut * Price \in Nat /\ binIn * One \in Nat
      BY <1>2
    <3>4. binOut * Price <= binIn * One
      BY <1>1, <2>2 DEF Covers
    <3>5. QED
      BY <1>2, <3>2, <3>3, <3>4
  <2>3. QED
    BY <2>1, <2>2
<1>4. Liquidity * supply <= Liquidity' * supply
  <2>1. ASSUME NEW a \in Int, NEW b \in Int, NEW n \in Nat, a <= b
        PROVE  a * n <= b * n
    BY <2>1
  <2>2. Liquidity \in Int
    BY <1>2
  <2>3. QED
    BY <1>2, <1>3, <2>1, <2>2
<1>5. QED
  BY <1>1, <1>4 DEF ShareValueKept

LEMMA StepKeepsValue == IInv /\ [Next]_vars => ShareValueKept
<1> SUFFICES ASSUME IInv, [Next]_vars PROVE ShareValueKept
  OBVIOUS
<1>1. ASSUME UNCHANGED <<amount, supply>> PROVE ShareValueKept
  BY <1>1, BinNats DEF ShareValueKept, Liquidity
<1>2. CASE UNCHANGED vars
  BY <1>1, <1>2 DEF vars
<1>3. CASE CollectProtocolFee
  BY <1>1, <1>3 DEF CollectProtocolFee, bin
<1>4. ASSUME NEW h \in Holders, ClaimFee(h) PROVE ShareValueKept
  BY <1>1, <1>4 DEF ClaimFee, bin
<1>5. QED
  BY <1>2, <1>3, <1>4, DepositKeepsValue, WithdrawKeepsValue, SwapKeepsValue DEF Next

(* Nobody's holding is diluted by what anybody does.                       *)
THEOREM ShareValue == Spec => ShareValueNeverFalls
<1>1. IInv /\ [Next]_vars => [ShareValueKept]_vars
  BY StepKeepsValue
<1>2. QED
  BY <1>1, Invariance, PTL DEF Spec, ShareValueNeverFalls

-----------------------------------------------------------------------------
(***************************************************************************)
(* A position's unclaimed fee.                                             *)
(***************************************************************************)
LEMMA UnclaimedNat ==
  ASSUME IInv, NEW h \in Holders, NEW t \in Tokens
  PROVE  /\ pending[h][t] \in Nat /\ Owed(h, t) \in Nat
         /\ share[h] \in Nat /\ growth[t] \in Nat
         /\ checkpoint[h][t] \in Nat /\ checkpoint[h][t] <= growth[t]
         /\ Unclaimed(h, t) = pending[h][t] + Owed(h, t) /\ Unclaimed(h, t) \in Nat
<1>1. /\ pending[h][t] \in Nat /\ share[h] \in Nat /\ growth[t] \in Nat
      /\ checkpoint[h][t] \in Nat /\ checkpoint[h][t] <= growth[t]
  BY DEF IInv, TypeOK, CheckpointsBehind
<1>2. Owed(h, t) \in Nat
  BY OwedIsBounded DEF IInv
<1>3. QED
  BY <1>1, <1>2 DEF Unclaimed

(* A slot no operation touched earns from whatever growth there was.       *)
LEMMA UntouchedSlotKeeps ==
  ASSUME IInv, NEW h \in Holders, NEW t \in Tokens,
         share'[h] = share[h], checkpoint'[h] = checkpoint[h], pending'[h] = pending[h],
         growth'[t] \in Nat, growth[t] <= growth'[t]
  PROVE  KeptOrPaid(h, t)
<1> DEFINE d == growth[t] - checkpoint[h][t]
           e == growth'[t] - checkpoint[h][t]
<1>1. d \in Nat /\ e \in Nat /\ d <= e /\ share[h] \in Nat
  BY UnclaimedNat
<1>2. Owed(h, t) = AccruedFee(share[h], d) /\ Owed(h, t)' = AccruedFee(share[h], e)
  BY DEF Owed
<1> HIDE DEF d, e
<1>3. /\ AccruedFee(share[h], d) \in Nat /\ AccruedFee(share[h], e) \in Nat
      /\ AccruedFee(share[h], d) <= AccruedFee(share[h], e)
  BY <1>1, AccruedGrows, AccruedWithinGrowth
<1>4. Unclaimed(h, t)' = pending[h][t] + Owed(h, t)'
  BY DEF Unclaimed
<1>5. QED
  BY <1>2, <1>3, <1>4, UnclaimedNat DEF KeptOrPaid

(* A slot whose checkpoint is level with the bin owes nothing beyond what  *)
(* is banked, whatever its shares.                                         *)
LEMMA LevelSlotOwesNothing ==
  ASSUME NEW h \in Holders, NEW t \in Tokens, growth[t] \in Nat, growth' = growth,
         share'[h] \in Nat, checkpoint'[h] = growth \/ share'[h] = 0,
         checkpoint'[h][t] \in Nat, checkpoint'[h][t] <= growth[t]
  PROVE  Owed(h, t)' = 0
<1> DEFINE e == growth[t] - checkpoint'[h][t]
<1>1. e \in Nat /\ Owed(h, t)' = AccruedFee(share'[h], e)
  BY DEF Owed
<1>2. CASE checkpoint'[h] = growth
  <2>1. e = 0
    BY <1>2
  <2>2. AccruedFee(share'[h], 0) = 0
    BY AccruedGrows
  <2>3. QED
    BY <1>1, <2>1, <2>2
<1>3. CASE share'[h] = 0
  <2> HIDE DEF e
  <2>1. AccruedFee(0, e) = 0
    BY <1>1, ScaleAssumption DEF AccruedFee
  <2>2. QED
    BY <1>1, <1>3, <2>1
<1>4. QED
  BY <1>2, <1>3

(* Syncing a slot banks what it owed: sync_fees before the shares change.  *)
LEMMA SyncedSlotKeeps ==
  ASSUME IInv, IInv', NEW h \in Holders, NEW g \in Holders, NEW t \in Tokens,
         Sync(h), growth' = growth, \A f \in Holders \ {h} : share'[f] = share[f]
  PROVE  KeptOrPaid(g, t)
<1>1. CASE g # h
  <2>1. /\ share'[g] = share[g] /\ checkpoint'[g] = checkpoint[g]
        /\ pending'[g] = pending[g]
    BY <1>1 DEF Sync, IInv, TypeOK
  <2>2. growth'[t] \in Nat /\ growth[t] <= growth'[t]
    BY UnclaimedNat
  <2>3. QED
    BY <2>1, <2>2, UntouchedSlotKeeps
<1>2. CASE g = h
  <2>1. checkpoint'[h] = growth /\ pending'[h][t] = pending[h][t] + Owed(h, t)
    BY DEF Sync, Banked, IInv, TypeOK
  <2>2. share'[h] \in Nat /\ growth[t] \in Nat
    BY DEF IInv, TypeOK
  <2>3. checkpoint'[h][t] \in Nat /\ checkpoint'[h][t] <= growth[t]
    BY <2>1, <2>2
  <2>4. Owed(h, t)' = 0
    BY <2>1, <2>2, <2>3, LevelSlotOwesNothing
  <2>5. Unclaimed(h, t)' = pending'[h][t] + Owed(h, t)'
    BY DEF Unclaimed
  <2>6. Unclaimed(h, t)' = Unclaimed(h, t)
    BY <2>1, <2>4, <2>5, UnclaimedNat
  <2>7. QED
    BY <1>2, <2>6, UnclaimedNat DEF KeptOrPaid
<1>3. QED
  BY <1>1, <1>2

LEMMA ClaimKeepsFees ==
  ASSUME IInv, IInv', NEW h \in Holders, ClaimFee(h), NEW g \in Holders, NEW t \in Tokens
  PROVE  KeptOrPaid(g, t)
<1> DEFINE due == IF share[h] = 0 THEN pending[h] ELSE Banked(h)
<1>1. /\ pending' = [pending EXCEPT ![h] = [k \in Tokens |-> 0]]
      /\ checkpoint' = [checkpoint EXCEPT ![h] =
                          IF share[h] = 0 THEN checkpoint[h] ELSE growth]
      /\ reserve' = [k \in Tokens |-> reserve[k] - due[k]]
      /\ growth' = growth /\ share' = share
  BY DEF ClaimFee, bin
<1>2. CASE g # h
  <2>1. checkpoint'[g] = checkpoint[g] /\ pending'[g] = pending[g]
    BY <1>1, <1>2 DEF IInv, TypeOK
  <2>2. growth'[t] \in Nat /\ growth[t] <= growth'[t]
    BY <1>1, UnclaimedNat
  <2>3. QED
    BY <1>1, <2>1, <2>2, UntouchedSlotKeeps
<1>3. CASE g = h
  <2>1. /\ pending'[h][t] = 0
        /\ checkpoint'[h] = IF share[h] = 0 THEN checkpoint[h] ELSE growth
    BY <1>1 DEF IInv, TypeOK
  <2>2. share'[h] \in Nat /\ growth[t] \in Nat
    BY <1>1, UnclaimedNat
  <2>3. /\ checkpoint'[h][t] \in Nat /\ checkpoint'[h][t] <= growth[t]
        /\ checkpoint'[h] = growth \/ share'[h] = 0
    BY <1>1, <2>1, <2>2, UnclaimedNat
  <2>4. Owed(h, t)' = 0
    BY <1>1, <2>2, <2>3, LevelSlotOwesNothing
  <2>5. Unclaimed(h, t)' = 0
    BY <2>1, <2>4 DEF Unclaimed
  <2>6. due[t] = Unclaimed(h, t)
    <3>1. share[h] = 0 => Owed(h, t) = 0
      BY OwedIsBounded DEF IInv
    <3>2. QED
      BY <3>1, UnclaimedNat DEF Banked
  <2> HIDE DEF due
  <2>7. reserve'[t] = reserve[t] - due[t] /\ reserve[t] \in Nat
    BY <1>1 DEF IInv, TypeOK
  <2>8. reserve[t] - reserve'[t] = Unclaimed(h, t)
    BY <2>6, <2>7, UnclaimedNat
  <2>9. QED
    BY <1>3, <2>5, <2>8 DEF KeptOrPaid
<1>4. QED
  BY <1>2, <1>3

LEMMA SwapKeepsFees ==
  ASSUME IInv, IInv', NEW swapForY \in BOOLEAN, NEW size \in SwapSizes, NEW rate \in Rates,
         Swap(swapForY, size, rate), NEW h \in Holders, NEW t \in Tokens
  PROVE  KeptOrPaid(h, t)
<1>1. PICK in, out, feeToken \in Tokens, binIn, binOut, fee, cut \in Nat :
           /\ in # out /\ cut <= fee
           /\ feeToken = in \/ feeToken = out
           /\ in = (IF swapForY THEN "x" ELSE "y")
           /\ binOut > 0 /\ binOut <= amount[out]
           /\ Covers(binIn, binOut, Price, swapForY)
           /\ amount' = [amount EXCEPT ![in] = amount[in] + binIn,
                                       ![out] = amount[out] - binOut]
           /\ growth' = [growth EXCEPT ![feeToken] =
                           growth[feeToken] + FeeGrowthDelta(fee - cut, supply)]
           /\ protocol' = [protocol EXCEPT ![feeToken] = protocol[feeToken] + cut]
           /\ reserve' = [reserve EXCEPT
                ![in] = reserve[in] + binIn + (IF feeToken = in THEN fee ELSE 0),
                ![out] = reserve[out] - (binOut - (IF feeToken = out THEN fee ELSE 0))]
           /\ UNCHANGED <<supply, share, checkpoint, pending>>
  BY SwapMoves
<1>2. FeeGrowthDelta(fee - cut, supply) \in Nat
  <2>1. fee - cut \in Nat /\ supply \in Nat
    BY <1>1, BinNats
  <2>2. QED
    BY <2>1, GrowthWithinFee
<1> DEFINE delta == FeeGrowthDelta(fee - cut, supply)
<1>3. /\ growth \in [Tokens -> Nat] /\ delta \in Nat
      /\ growth' = [growth EXCEPT ![feeToken] = growth[feeToken] + delta]
  BY <1>1, <1>2 DEF IInv, TypeOK
<1> HIDE DEF delta
<1>4. growth'[t] \in Nat /\ growth[t] <= growth'[t]
  <2>1. CASE t = feeToken
    BY <1>3, <2>1
  <2>2. CASE t # feeToken
    BY <1>3, <2>2
  <2>3. QED
    BY <2>1, <2>2
<1>5. QED
  BY <1>1, <1>4, UntouchedSlotKeeps

LEMMA StepKeepsFees ==
  ASSUME IInv, IInv', [Next]_vars, NEW h \in Holders, NEW t \in Tokens
  PROVE  KeptOrPaid(h, t)
<1>1. ASSUME UNCHANGED <<growth, share, checkpoint, pending>> PROVE KeptOrPaid(h, t)
  BY <1>1, UntouchedSlotKeeps, UnclaimedNat
<1>2. CASE UNCHANGED vars
  BY <1>1, <1>2 DEF vars
<1>3. CASE CollectProtocolFee
  BY <1>1, <1>3 DEF CollectProtocolFee, bin, slots
<1>4. ASSUME NEW g \in Holders, NEW d \in [Tokens -> Deposits], Deposit(g, d)
      PROVE  KeptOrPaid(h, t)
  <2>1. Sync(g) /\ growth' = growth /\ \A f \in Holders \ {g} : share'[f] = share[f]
    BY <1>4 DEF Deposit, IInv, TypeOK
  <2>2. QED
    BY <2>1, SyncedSlotKeeps
<1>5. ASSUME NEW g \in Holders, NEW bps \in Bps, Withdraw(g, bps)
      PROVE  KeptOrPaid(h, t)
  <2>1. Sync(g) /\ growth' = growth /\ \A f \in Holders \ {g} : share'[f] = share[f]
    BY <1>5 DEF Withdraw, IInv, TypeOK
  <2>2. QED
    BY <2>1, SyncedSlotKeeps
<1>6. QED
  BY <1>2, <1>3, <1>4, <1>5, ClaimKeepsFees, SwapKeepsFees DEF Next

(* What a position has earned is never taken from it: it only grows, or is *)
(* paid out in full.                                                       *)
THEOREM FeesAreKept == Spec => UnclaimedFeeIsKept
<1>1. IInv /\ IInv' /\ [Next]_vars
        => [\A h \in Holders, t \in Tokens : KeptOrPaid(h, t)]_vars
  BY StepKeepsFees
<1>2. QED
  BY <1>1, Invariance, PTL DEF Spec, UnclaimedFeeIsKept
=============================================================================
