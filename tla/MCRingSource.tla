---------------------------- MODULE MCRingSource ----------------------------
(***************************************************************************)
(* An instance of RingSource for TLC.  The transactions: a coinbase with an*)
(* input of one ring; two inputs that share a member; a sound input beside *)
(* one whose offsets overflow; one beside an input without members; and two*)
(* denominations.  Index 1 is out of range until the chain reaches it.     *)
(***************************************************************************)
EXTENDS RingSource

Coinbase == [kind |-> "gen"]
Input(a, offsets) == [kind |-> "key", amount |-> a, key_offsets |-> offsets]

MCInputs == {
  <<Coinbase, Input(0, <<0>>)>>,
  <<Input(0, <<0, 1>>), Input(0, <<0>>)>>,
  <<Input(0, <<0>>), Input(0, <<1, MaxU64>>)>>,
  <<Input(1, <<0>>), Input(0, <<>>)>>,
  <<Input(0, <<0>>), Input(1, <<0, 0>>)>>}
=============================================================================
