------------------------------- MODULE Shapes -------------------------------
(***************************************************************************)
(* What the API says of a transaction (shapes.rs), and what the facts of   *)
(* one are derived from when its rings are not resolved (rpc_source.rs).   *)
(*                                                                         *)
(* An entry is one of /get_transactions or of the pool, as far as answers  *)
(* differ by it: where the transaction is, its times, whether it is a      *)
(* coinbase, how many inputs it has, and whether its JSON can be read.  The*)
(* facts themselves are in Transaction.  The pool's receive_time is here the*)
(* received_timestamp of an entry in the pool.  A value that may be null is*)
(* a set of at most one.                                                   *)
(***************************************************************************)
EXTENDS Integers, Sequences, Functions, Sift

TxSummary(entry) == [tx_hash |-> entry.tx_hash, coinbase |-> entry.coinbase]

\* Entries whose JSON cannot be read are left out.
Decoded(entries) == Within(entries, {e \in Range(entries) : e.decodes})
Summaries(entries) == [i \in DOMAIN Decoded(entries) |-> TxSummary(Decoded(entries)[i])]

Placement_pool(received) == [block_height |-> 0, timestamp |-> received, confirmations |-> 0]

Above(m, n) == IF m > n THEN m - n ELSE 0

\* All three answers to "when".
Placement(entry, current_height) ==
  IF entry.in_pool THEN Placement_pool(entry.received_timestamp)
  ELSE [block_height  |-> entry.block_height,
        timestamp     |-> entry.block_timestamp,
        confirmations |-> Above(current_height, entry.block_height)]

\* Its inputs in order, with no ring looked up.
unexpanded_inputs(entry) == [i \in 1..entry.inputs |-> [ring |-> <<>>, ring_unavailable |-> TRUE]]

\* Null for a ring that is not known, which differs from a ring of no members.
mixins(input) == IF input.ring = <<>> /\ input.ring_unavailable THEN {} ELSE {input.ring}

\* Inputs are null for a coinbase, which spends nothing.
TxDetail(entry, rings, current_height) ==
  [tx_hash        |-> entry.tx_hash,
   coinbase       |-> entry.coinbase,
   at             |-> Placement(entry, current_height),
   current_height |-> current_height,
   inputs         |-> IF entry.coinbase THEN {} ELSE {[i \in DOMAIN rings |-> mixins(rings[i])]}]

Unexpanded(entry, current_height) == TxDetail(entry, unexpanded_inputs(entry), current_height)
=============================================================================
