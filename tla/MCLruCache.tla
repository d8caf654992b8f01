----------------------------- MODULE MCLruCache -----------------------------
(***************************************************************************)
(* Instances of LruCache for TLC.                                          *)
(***************************************************************************)
EXTENDS LruCache, TLC

\* A permanent cache that evicts two entries at a time, and an expiring one
\* asked to hold nothing.
MCRequested == {<<4, NoTtl>>, <<0, 2>>}

KeySymmetry == Permutations(Keys)
=============================================================================
