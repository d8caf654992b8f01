--------------------------- MODULE MCBlockSource ----------------------------
(***************************************************************************)
(* An instance of BlockSource for TLC: clients ask for one height and for  *)
(* both blocks that may stand there.                                       *)
(***************************************************************************)
EXTENDS BlockSource, TLC

CONSTANTS Asked

MCIds ==
  {ByHeight(Asked)} \cup
  {ByHash([height |-> Asked, block |-> [branch |-> b, txs |-> {}]]) : b \in Branches}

Symmetry == Permutations(Branches) \cup Permutations(Requests)
=============================================================================
