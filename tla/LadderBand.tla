----------------------------- MODULE LadderBand ------------------------------
(***************************************************************************)
(* A config asked for, judged by its two ends, and, once accepted, the     *)
(* bins of its band derived one after another from the bottom up, as a     *)
(* price that climbs through them would.  BinGrid adds where the derived   *)
(* bins are kept.                                                          *)
(***************************************************************************)
EXTENDS Ladder

CONSTANTS
  Widths, Tapers,   \* the ladders asked for
  Bottoms, Tops,    \* the bands asked for
  Grids             \* of these, the configs whose bin arrays are filled in
                    \* in any order; the others are only climbed

ASSUME AskedAssumption ==
  /\ Widths \subseteq Nat /\ Tapers \subseteq Nat
  /\ Bottoms \subseteq Int /\ Tops \subseteq Int

VARIABLES
  config,    \* Config: the ladder and the band
  verdict,   \* what validate said
  id,        \* the bin last derived
  here,      \* the Result of deriving it
  below      \* the Result for the bin before it

band == <<config, verdict, id, here, below>>

Configs == [ladder : [width : Widths, taper : Tapers], min : Bottoms, max : Tops]

ASSUME GridsAssumption == Grids \subseteq Configs

Asked ==
  /\ config \in Configs
  /\ verdict = "none" /\ id = config.min
  /\ here = {} /\ below = {}

Accept ==
  /\ verdict = "none" /\ Validate(config)
  /\ verdict' = "accepted"
  /\ here' = Derive(config.ladder, config.min)
  /\ UNCHANGED <<config, id, below>>

Reject ==
  /\ verdict = "none" /\ ~Validate(config)
  /\ verdict' = "rejected"
  /\ UNCHANGED <<config, id, here, below>>

(* bin_mut of the next bin up.                                             *)
Climb ==
  /\ verdict = "accepted" /\ config \notin Grids /\ id < config.max
  /\ id' = id + 1
  /\ here' = Derive(config.ladder, id + 1)
  /\ below' = here
  /\ UNCHANGED <<config, verdict>>

Judge == Accept \/ Reject

-----------------------------------------------------------------------------
(* The claim validate_range rests on, that two sound ends make a sound     *)
(* band: no bin of an accepted band fails to derive, so no swap can get    *)
(* stuck on one.                                                           *)
EveryBinDerives == verdict = "accepted" => here # {}

(* Going up, prices never fall, although powers and roots are rounded at   *)
(* every step; a swap that walks up never gets a better price than before. *)
PricesNeverFall == \A p \in below, q \in here : p.price <= q.price

(* Going up, no bin is wider than the one below it, and every bin of the   *)
(* band is within the caps that only the two ends were tested against.     *)
EndsBoundSteps ==
  \A q \in here :
    /\ q.step \in MinStep .. MaxStep
    /\ \A p \in below : q.step <= p.step

(* Inside exp2_frac: the running product stays in the unit octave          *)
(* mul_q64_unit is only valid on, and agrees there with the general        *)
(* multiplication.                                                         *)
UnitOctave ==
  verdict = "accepted" =>
    \A v \in Log2Price(config.ladder, id), k \in 0 .. ScaleOffset - 1 :
      LET product == Exp2Product(v % One, k)
      IN  /\ One <= product /\ product < 2 * One
          /\ MulQ64Unit(product, Exp2Table[k + 1]) = MulQ64(product, Exp2Table[k + 1])
=============================================================================
