------------------------------- MODULE Stages -------------------------------
(***************************************************************************)
(* How a handler is written here.  It asks the chain source for one thing  *)
(* after another and ends in an answer, so it is an operator of the replies*)
(* it has had: its value is the next call, or the answer and the replies it*)
(* did not use.                                                            *)
(***************************************************************************)
EXTENDS Integers, Sequences, ChainError

\* A reply, and what the chain source returns of it.
Ok(value) == [ok |-> TRUE, value |-> value]
Err(err) == [ok |-> FALSE, err |-> err]

\* The calls a handler makes.
InfoCall == [op |-> "info"]
BlockCall(id) == [op |-> "block", id |-> id]
TransactionsCall(hashes) == [op |-> "transactions", hashes |-> hashes]
RingsCall(entry) == [op |-> "resolve_rings", entry |-> entry]
HeadersCall(first, last) == [op |-> "headers_range", first |-> first, last |-> last]
RangeCall(first, last) == [op |-> "blocks_in_range", first |-> first, last |-> last]
TxidsCall(request) == [op |-> "txids_loose", request |-> request]
FeeCall(grace_blocks) == [op |-> "fee_estimate", grace_blocks |-> grace_blocks]
LastHeaderCall == [op |-> "last_block_header"]
MempoolCall == [op |-> "mempool"]
PoolStatsCall == [op |-> "pool_stats"]
AltChainsCall == [op |-> "alt_chains"]

Asks(call) == [done |-> FALSE, call |-> call]

Answers(status, body, rest) == [done |-> TRUE, status |-> status, body |-> body, rest |-> rest]

Empty == [kind |-> "none"]

\* The call, then what follows from its reply whichever it is: `.ok()`.
Asked(got, call, Then(_, _)) == IF got = <<>> THEN Asks(call) ELSE Then(Head(got), Tail(got))

\* The call, then what follows from its value; a failure ends the handler: `?`.
Needed(got, call, Status(_, _), Then(_, _)) ==
  Asked(got, call, LAMBDA reply, rest :
    IF reply.ok THEN Then(reply.value, rest)
    ELSE Answers(Status(call.op, reply.err), Empty, rest))

\* The transactions of the hashes; none are asked for when there are none.
Fetched(got, hashes, Status(_, _), Then(_, _)) ==
  IF hashes = <<>> THEN Then(<<>>, got) ELSE Needed(got, TransactionsCall(hashes), Status, Then)
=============================================================================
