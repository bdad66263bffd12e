---------------------------- MODULE DepositRunMC ----------------------------
(***************************************************************************)
(* Instances of DepositRun.  Five bins in arrays of two, tables of two     *)
(* entries for an opening step and three for a fill.                       *)
(***************************************************************************)
EXTENDS DepositRun

Asked(shapes, amounts, blends, shares, caps) ==
  {[lower |-> l, upper |-> u, x |-> xy[1], y |-> xy[2], shape |-> shape,
    blend |-> blend, share |-> share, cap |-> cap, strategy |-> how] :
     l \in {1}, u \in {5}, xy \in amounts, shape \in shapes, blend \in blends,
     share \in shares, cap \in caps, how \in {"packed"}}

Band(l, u) == [lower |-> l, upper |-> u]

(* One-sided and two-sided deposits of every shape, flat, blended or not,  *)
(* into one position or several.                                           *)
EveryRequest ==
  Asked({"spot", "bidask"}, {<<0, 13>>, <<13, 0>>}, {0}, {1}, {5})
    \cup Asked(Shapes, {<<7, 20>>}, {0}, {0, 2}, {5})
    \cup Asked(Shapes, {<<7, 20>>}, {6}, {1}, {2})
    \cup {[r EXCEPT !.strategy = "aligned"] : r \in Asked({"spot"}, {<<7, 20>>}, {0}, {1}, {5})}

(* Nothing held, the range itself and a band around it, or a part of it.   *)
EveryHolding == {{}, {Band(1, 5), Band(0, 6)}, {Band(3, 5)}}

EdgyRequest == Asked({"bidask"}, {<<13, 13>>}, {0}, {1}, {5})
=============================================================================
