------------------------------ MODULE BinGridMC ------------------------------
(* Ten fractional bits; ladders from a wide uniform one to a strong taper, *)
(* bands on both sides of the anchor, some past the bitmap.  Three bands,  *)
(* across and below the anchor, uniform and tapered, have their arrays of  *)
(* six bins filled in; the bitmap has four words of eight bits.            *)
EXTENDS BinGrid

MCTable == <<1448, 1217, 1116, 1069, 1046, 1034, 1028, 1025, 1024, 1024>>
MCTapers == {1024 - d : d \in {0, 1, 2, 3, 5, 11, 27, 51}}
MCBottoms == {-97, -96, -70, -41, -18, -7, 0, 9}
MCTops == {-12, -1, 4, 30, 80, 95, 96}

On(width, taper, min, max) ==
  [ladder |-> [width |-> width, taper |-> taper], min |-> min, max |-> max]
MCGrids == {On(45, 1024, -7, 4), On(33, 1013, -18, -1), On(20, 997, -7, 4)}
=============================================================================
