----------------------------- MODULE TransferFee -----------------------------
(***************************************************************************)
(* The transfer fee of a Token-2022 mint (token.rs): what arrives of an    *)
(* amount sent, and what to send for an amount to arrive.  A mint carries  *)
(* two schedules, the newer in force from its epoch on.  A mint without    *)
(* the extension is a schedule of rate 0, which changes no amount.         *)
(***************************************************************************)
EXTENDS BinMath

CONSTANTS
  OneInBasisPoints  \* ONE_IN_BASIS_POINTS

ASSUME BasisPointsAssumption == OneInBasisPoints \in Nat \ {0}

(* TransferFee: the rate and the cap; a schedule also has its epoch.       *)
TransferFees == [bps : 0 .. OneInBasisPoints, maximum : 0 .. U64Max]
NoFee == [bps |-> 0, maximum |-> 0]

CalculateFee(fee, n) ==
  IF fee.bps = 0 \/ n = 0 THEN 0
  ELSE Least(DivCeil(n * fee.bps, OneInBasisPoints), fee.maximum)

(* calculate_post_fee_amount                                               *)
Received(fee, n) == n - CalculateFee(fee, n)

(* A result of the checked arithmetic that does not fit a u64.             *)
Overflow == -1
Checked(n) == IF FitsU64(n) THEN n ELSE Overflow

(* Mutant: the fee of what is to arrive, rather than of what is sent.      *)
FeeAddedOn(fee, p) == Checked(p + CalculateFee(fee, p))

(* calculate_pre_fee_amount                                                *)
ToSend(fee, p) ==
  LET raw == DivCeil(p * OneInBasisPoints, OneInBasisPoints - fee.bps)
  IN  IF fee.bps = 0 \/ p = 0 THEN p
      ELSE IF fee.bps = OneInBasisPoints THEN Checked(p + fee.maximum)
      ELSE IF raw - p >= fee.maximum THEN Checked(p + fee.maximum)
      ELSE Checked(raw)

-----------------------------------------------------------------------------
(* A mint: [owner, older, newer, turns], turns being the newer schedule's  *)
(* epoch; one that another program owns has no extension to read.          *)
IsToken2022(mint) == mint.owner = "Token2022"

(* Mutant: the newer schedule one epoch late.                              *)
TurnsLate(mint, epoch) ==
  IF ~IsToken2022(mint) THEN NoFee
  ELSE IF epoch > mint.turns THEN mint.newer ELSE mint.older

OfMint(mint, epoch) ==
  IF ~IsToken2022(mint) THEN NoFee
  ELSE IF epoch >= mint.turns THEN mint.newer ELSE mint.older
=============================================================================
