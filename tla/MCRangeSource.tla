---------------------------- MODULE MCRangeSource ---------------------------
(***************************************************************************)
(* An instance of RangeSource for TLC: a range within the chain, one that  *)
(* reaches past the tip at first, and one longer than the cap.             *)
(***************************************************************************)
EXTENDS RangeSource, TLC

MCRanges == {<<0, 1>>, <<1, 2>>, <<1, 3>>}

Symmetry == Permutations(Txs)
=============================================================================
