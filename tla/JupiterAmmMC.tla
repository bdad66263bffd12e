---------------------------- MODULE JupiterAmmMC ----------------------------
(* Five arrays around index 0 for the JupiterAmm runs.                     *)
EXTENDS JupiterAmm

Lowest == -2
=============================================================================
