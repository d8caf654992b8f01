----------------------------- MODULE MCTxSource -----------------------------
(***************************************************************************)
(* An instance of TxSource for TLC: lists of one and of several hashes, one*)
(* of them with a repetition, so that one call and several are both made.  *)
(***************************************************************************)
EXTENDS TxSource, TLC

CONSTANTS t1, t2

MCAsks == {<<t2>>, <<t1, t2, t1>>}

Symmetry == Permutations(Requests)
=============================================================================
