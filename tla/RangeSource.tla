----------------------------- MODULE RangeSource ----------------------------
(***************************************************************************)
(* RpcChainSource::blocks_in_range (rpc_source.rs): every block of a range *)
(* with its transactions, put together from three kinds of calls the daemon*)
(* answers at different moments: one for all the headers, one for the body *)
(* of each block that holds transactions, made together, and one for the   *)
(* transactions themselves.                                                *)
(*                                                                         *)
(* A body's reply and its receipt are one step here, and so is the whole of*)
(* the transaction fetch: BlockSource and TxSource take those apart.  The  *)
(* transactions of a block are a set; their order is TxSource's subject.   *)
(***************************************************************************)
EXTENDS Chain, FiniteSets

CONSTANTS
  Requests,  \* concurrent requests
  Ranges,    \* pairs of heights clients ask for, first <= last
  MaxSpan,   \* MAX_SPAN of headers_range, 1000 in the code
  Window     \* REORG_WINDOW, 60 in the code

ASSUME WindowAssumption == Window \in Nat
ASSUME SpanAssumption == MaxSpan \in Nat \ {0}
\* A daemon ever hears of finitely many transactions, so a block can be counted.
ASSUME TxsAssumption == IsFiniteSet(Txs)
ASSUME RangeAssumption == \A g \in Ranges : g \in Nat \X Nat /\ g[1] <= g[2]

VARIABLES
  blocks_by_height,  \* height -> Block
  req                \* request -> where it is and what it holds

vars == <<height, chain, pool, blocks_by_height, req>>

\* A header: the height and the block it describes, from which the explorer
\* reads the coinbase's hash and the number of other transactions.
Header(h) == [height |-> h, block |-> chain[h]]

num_txes(header) == Cardinality(header.block.txs)

-----------------------------------------------------------------------------
Idle == [at |-> "idle", calm |-> TRUE]

Init ==
  /\ ChainInit
  /\ blocks_by_height = [h \in {} |-> 0]
  /\ req = [r \in Requests |-> Idle]

Free(r) == req[r].at \in {"idle", "Ok", "Err"}

\* The cap headers_range puts on a span.
LastHeight(start, end) ==
  IF end < start + MaxSpan - 1 THEN end ELSE start + MaxSpan - 1

RangeAsked(r, g) ==
  /\ Free(r)
  /\ req' = [req EXCEPT ![r] = [at |-> "headers", calm |-> TRUE, start |-> g[1], end |-> g[2]]]
  /\ UNCHANGED <<chainVars, blocks_by_height>>

Holding(headers) == {h \in DOMAIN headers : num_txes(headers[h]) > 0}

\* The headers arrive, and the body of every block that holds transactions is
\* looked up: a cached height is answered at once, the rest are asked for.
HeadersReceived(r) ==
  /\ req[r].at = "headers"
  /\ LET last    == LastHeight(req[r].start, req[r].end)
         headers == [h \in req[r].start..last |-> Header(h)]
         holding == Holding(headers)
     IN  /\ last < height
         /\ req' = [req EXCEPT ![r] =
              [at |-> "bodies", calm |-> req[r].calm, headers |-> headers,
               start |-> req[r].start, end |-> req[r].end,
               extra |-> [h \in holding \cap DOMAIN blocks_by_height |-> blocks_by_height[h]],
               asked |-> holding \ DOMAIN blocks_by_height,
               failed |-> FALSE]]
  /\ UNCHANGED <<chainVars, blocks_by_height>>

\* Fault: a body is cached as soon as one block is above it.
BuriedByOne(h) == Depth(h) >= 1

Buried(h) == Depth(h) >= Window

Body(h) == chain[h]

\* One body arrives; block() caches it under its height once it is buried.
BodyReceived(r, h) ==
  /\ req[r].at = "bodies"
  /\ h \in req[r].asked
  /\ req' = [req EXCEPT
       ![r].asked = @ \ {h},
       ![r].extra = [j \in DOMAIN @ \cup {h} |-> IF j = h THEN Body(h) ELSE @[j]]]
  /\ IF Buried(h)
     THEN \E kept \in SUBSET (DOMAIN blocks_by_height) :
            blocks_by_height' =
              [j \in kept \cup {h} |-> IF j = h THEN Body(h) ELSE blocks_by_height[j]]
     ELSE UNCHANGED blocks_by_height
  /\ UNCHANGED chainVars

BodyFailed(r, h) ==
  /\ req[r].at = "bodies"
  /\ h \in req[r].asked
  /\ req' = [req EXCEPT ![r].asked = @ \ {h}, ![r].failed = TRUE]
  /\ UNCHANGED <<chainVars, blocks_by_height>>

\* Every hash in the range: each header's coinbase, and the transactions its
\* body lists.
Wanted(q) ==
  [h \in DOMAIN q.headers |-> IF h \in DOMAIN q.extra THEN q.extra[h].txs ELSE {}]

\* Fault: a transaction stays available to every block that lists it.
DealtAgain(wanted, fetched) == [h \in DOMAIN wanted |-> wanted[h] \cap fetched]

\* `fetched.remove`: each transaction goes to the first block that lists it.
Dealt(wanted, fetched) ==
  [h \in DOMAIN wanted |->
     {t \in wanted[h] \cap fetched : \A j \in DOMAIN wanted : j < h => t \notin wanted[j]}]

OnChain(header) == header.height < height /\ chain[header.height] = header.block

\* The transactions arrive: the daemon finds a coinbase whose block it still
\* has and a transaction it has mined or keeps in its pool.
TxsReceived(r) ==
  /\ req[r].at = "bodies"
  /\ req[r].asked = {}
  /\ ~req[r].failed
  /\ LET q     == req[r]
         dealt == Dealt(Wanted(q), Mined \cup pool)
     IN  req' = [req EXCEPT ![r] =
           [at |-> "Ok", calm |-> q.calm, start |-> q.start, end |-> q.end,
            rows |-> [h \in DOMAIN q.headers |->
                        [header |-> q.headers[h], coinbase |-> OnChain(q.headers[h]),
                         txs |-> dealt[h]]]]]
  /\ UNCHANGED <<chainVars, blocks_by_height>>

\* The answer is lost as a whole when the headers, a body or the transactions
\* fail; headers past the tip are such a failure.  The bodies that did arrive
\* stay cached.
RangeFailed(r) ==
  /\ \/ req[r].at = "headers"
     \/ req[r].at = "bodies" /\ req[r].asked = {}
  /\ req' = [req EXCEPT ![r] = [at |-> "Err", calm |-> TRUE]]
  /\ UNCHANGED <<chainVars, blocks_by_height>>

\* The request's deadline passes and the fetch is dropped where it stands.
Cancelled(r) ==
  /\ ~Free(r)
  /\ req' = [req EXCEPT ![r] = Idle]
  /\ UNCHANGED <<chainVars, blocks_by_height>>

\* `calm` records, for the properties only, that no reorganisation happened
\* while the request was being answered.
ReorgSeen ==
  /\ Reorg
  /\ req' = [r \in Requests |-> IF Free(r) THEN req[r] ELSE [req[r] EXCEPT !.calm = FALSE]]
  /\ UNCHANGED blocks_by_height

Next ==
  \/ (Mine \/ \E t \in Txs : Relay(t)) /\ UNCHANGED <<blocks_by_height, req>>
  \/ ReorgSeen
  \/ \E r \in Requests, g \in Ranges : RangeAsked(r, g)
  \/ \E r \in Requests :
       \/ HeadersReceived(r) \/ TxsReceived(r) \/ RangeFailed(r) \/ Cancelled(r)
       \/ \E h \in 0..(MaxHeight - 1) : BodyReceived(r, h) \/ BodyFailed(r, h)

Spec == Init /\ [][Next]_vars

-----------------------------------------------------------------------------

Answered(r) == req[r].at = "Ok"

\* While no reorganisation interferes, a range's answer is complete: every row
\* has its coinbase and exactly its block's transactions, though headers,
\* bodies, cached bodies and transactions come from different moments
\* (blocks_in_range).
WholeWhenCalm ==
  \A r \in Requests : Answered(r) /\ req[r].calm =>
    \A h \in DOMAIN req[r].rows :
      /\ req[r].rows[h].coinbase
      /\ req[r].rows[h].txs = req[r].rows[h].header.block.txs

\* No transaction is listed under two blocks of one answer, whatever
\* reorganisation came between the bodies (`fetched.remove`).
NoTxTwice ==
  \A r \in Requests : Answered(r) =>
    \A g, h \in DOMAIN req[r].rows :
      g # h => req[r].rows[g].txs \cap req[r].rows[h].txs = {}

\* "One block's header and every transaction in it" (BlockWithTxs): the
\* transactions of a row are transactions of the block its header names.
RowIsOneBlock ==
  \A r \in Requests : Answered(r) =>
    \A h \in DOMAIN req[r].rows :
      req[r].rows[h].txs \subseteq req[r].rows[h].header.block.txs
=============================================================================
