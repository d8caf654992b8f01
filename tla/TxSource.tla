------------------------------ MODULE TxSource ------------------------------
(***************************************************************************)
(* RpcChainSource::transactions (rpc_source.rs) and the transaction cache. *)
(*                                                                         *)
(* A request answers what it can from the cache, splits the rest into      *)
(* chunks and asks for all of them at once.  The daemon answers each chunk *)
(* from the chain and pool it has at that moment; when every chunk is in,  *)
(* they are handled in order up to the first that failed, and the answer   *)
(* is put back into the order asked for.                                   *)
(***************************************************************************)
EXTENDS Chain, Sequences, Sift

CONSTANTS
  Requests,       \* concurrent requests
  Asks,           \* the lists of hashes clients ask for
  MaxTxsPerCall,  \* MAX_TXS_PER_CALL, 500 in the code
  Window          \* REORG_WINDOW, 60 in the code

ASSUME WindowAssumption == Window \in Nat
ASSUME ChunkAssumption == MaxTxsPerCall \in Nat \ {0}
ASSUME AskAssumption == Asks \subseteq Seq(Txs)

VARIABLES
  txs,  \* hash -> TxEntry
  req   \* request -> where it is and what it holds

vars == <<height, chain, pool, txs, req>>

\* A transaction as the daemon reports it: where it is, and how deep.
TxEntry ==
  [tx : Txs, in_pool : {TRUE}, confirmations : {0}] \cup
  [tx : Txs, in_pool : {FALSE}, block_height : Nat, block : Block, confirmations : Nat]

-----------------------------------------------------------------------------
\* The daemon's side of get_transactions.

EntryFor(t) ==
  IF t \in Mined
  THEN [tx |-> t, in_pool |-> FALSE, block_height |-> HeightOf(t),
        block |-> chain[HeightOf(t)], confirmations |-> Confirmations(HeightOf(t))]
  ELSE [tx |-> t, in_pool |-> TRUE, confirmations |-> 0]

Answered(wanted) ==
  [kind |-> "found",
   txs |-> {EntryFor(t) : t \in wanted \cap (Mined \cup pool)},
   missed |-> wanted \ (Mined \cup pool)]

NoReply == [kind |-> "none"]
Failed  == [kind |-> "failed"]

-----------------------------------------------------------------------------
Idle == [at |-> "idle"]

Init ==
  /\ ChainInit
  /\ txs = [t \in {} |-> 0]
  /\ req = [r \in Requests |-> Idle]

\* Fault: a last chunk that is not full is never asked for.
FullChunksOnly(want) ==
  [i \in 1..(Len(want) \div MaxTxsPerCall) |->
     {want[j] : j \in ((i - 1) * MaxTxsPerCall + 1)..(i * MaxTxsPerCall)}]

\* `want.chunks(MAX_TXS_PER_CALL)`.
Chunks(want) ==
  [i \in 1..((Len(want) + MaxTxsPerCall - 1) \div MaxTxsPerCall) |->
     {want[j] : j \in {j \in 1..Len(want) :
                         (i - 1) * MaxTxsPerCall < j /\ j <= i * MaxTxsPerCall}}]

\* An empty list, or the cache hits and one call for each chunk of the rest.
FetchStarted(r, hashes) ==
  /\ req[r].at \in {"idle", "done"}
  /\ LET want == Within(hashes, Txs \ DOMAIN txs)
         chunks == Chunks(want)
     IN  req' = [req EXCEPT ![r] =
                   [at |-> "calling", hashes |-> hashes,
                    hits |-> [t \in {hashes[i] : i \in 1..Len(hashes)} \cap DOMAIN txs
                                |-> txs[t]],
                    chunks |-> chunks,
                    replies |-> [i \in DOMAIN chunks |-> NoReply]]]
  /\ UNCHANGED <<chainVars, txs>>

ChunkReplies(r, i) ==
  /\ req[r].at = "calling"
  /\ i \in DOMAIN req[r].replies
  /\ req[r].replies[i] = NoReply
  /\ \E reply \in {Answered(req[r].chunks[i]), Failed} :
       req' = [req EXCEPT ![r].replies[i] = reply]
  /\ UNCHANGED <<chainVars, txs>>

-----------------------------------------------------------------------------
\* Fault: any confirmed transaction is cached.
CacheableWhenMined(e) == ~e.in_pool

Cacheable(e) == ~e.in_pool /\ e.confirmations >= Window

\* The entries of the replies handled before `?` returns the first error.
Handled(replies) ==
  LET ok == {i \in DOMAIN replies : \A j \in 1..i : replies[j].kind = "found"}
  IN  [i \in ok |-> replies[i].txs]

Holding(sets, t) == {i \in DOMAIN sets : \E e \in sets[i] : e.tx = t}

\* Storing entries in turn under their hash: the last one for each stays.
Stored(sets) ==
  [t \in {e.tx : e \in UNION {sets[i] : i \in DOMAIN sets}} |->
     LET last == CHOOSE i \in Holding(sets, t) : \A j \in Holding(sets, t) : j <= i
     IN  CHOOSE e \in sets[last] : e.tx = t]

\* The later map wins where both have a key.
Over(new, old) ==
  [t \in DOMAIN new \cup DOMAIN old |-> IF t \in DOMAIN new THEN new[t] ELSE old[t]]

\* Each cacheable entry is stored in turn; an insert may evict any other.
CacheEntries(sets) ==
  LET all == Over(Stored([i \in DOMAIN sets |-> {e \in sets[i] : Cacheable(e)}]), txs)
  IN  \E kept \in SUBSET DOMAIN all : txs' = [t \in kept |-> all[t]]

\* Where a hash that was found is asked for first.
Firsts(hashes, found) ==
  {i \in 1..Len(hashes) : hashes[i] \in found /\ \A j \in 1..(i - 1) : hashes[j] # hashes[i]}

\* Fault: the answer comes out last hash first.
in_reverse_order(hashes, found) ==
  LET firsts == Within([i \in 1..Len(hashes) |-> Len(hashes) + 1 - i], Firsts(hashes, DOMAIN found))
  IN  [k \in 1..Len(firsts) |-> found[hashes[firsts[k]]]]

\* Each hash once, where it was first asked for: `remove` takes it away.
in_requested_order(hashes, found) ==
  LET firsts == Within([i \in 1..Len(hashes) |-> i], Firsts(hashes, DOMAIN found))
  IN  [k \in 1..Len(firsts) |-> found[hashes[firsts[k]]]]

FetchFinished(r) ==
  LET q == req[r] IN
  /\ q.at = "calling"
  /\ \A i \in DOMAIN q.replies : q.replies[i] # NoReply
  /\ CacheEntries(Handled(q.replies))
  /\ req' = [req EXCEPT ![r] =
       IF DOMAIN Handled(q.replies) = DOMAIN q.replies
       THEN [at |-> "done", result |-> "Ok", hashes |-> q.hashes,
             txs |-> in_requested_order(q.hashes, Over(Stored(Handled(q.replies)), q.hits)),
             missed |-> UNION {q.replies[i].missed : i \in DOMAIN q.replies}]
       ELSE [at |-> "done", result |-> "Rpc", hashes |-> q.hashes]]
  /\ UNCHANGED chainVars

\* The request's deadline passes and every call it waits for is dropped.
Cancelled(r) ==
  /\ req[r].at = "calling"
  /\ req' = [req EXCEPT ![r] = Idle]
  /\ UNCHANGED <<chainVars, txs>>

Next ==
  \/ ChainNext /\ UNCHANGED <<txs, req>>
  \/ \E r \in Requests, hashes \in Asks : FetchStarted(r, hashes)
  \/ \E r \in Requests :
       \/ req[r].at = "calling" /\ \E i \in DOMAIN req[r].replies : ChunkReplies(r, i)
       \/ FetchFinished(r)
       \/ Cancelled(r)

Spec == Init /\ [][Next]_vars

-----------------------------------------------------------------------------

\* What e says of its transaction's place is what the chain says.
PlacedAs(e) ==
  /\ ~e.in_pool
  /\ e.block_height < height
  /\ chain[e.block_height] = e.block
  /\ e.tx \in e.block.txs

\* Every cached transaction is in the block, at the height, the cache says:
\* neither a pool transaction nor one a reorganisation can still move "would
\* be cached as a lie" (RpcChainSource::transactions).
TxCacheSound == \A t \in DOMAIN txs : PlacedAs(txs[t])

Answer(r) == req[r].at = "done" /\ req[r].result = "Ok"

\* Where in the answer of r the transaction t stands.
Places(r, t) == {k \in 1..Len(req[r].txs) : req[r].txs[k].tx = t}

\* A hash asked for at another place too.
AskedAgain(hashes, i) == \E j \in 1..Len(hashes) : j # i /\ hashes[j] = hashes[i]

\* A successful answer accounts for every hash, however the cache and the chunks
\* split the work: it lists it once or says that it missed it.  It never lists one
\* twice, however often it was asked for; and it does both, list and miss, only for
\* one asked for more than once, of which one chunk may miss at its moment what
\* another finds at a later or an earlier one.
FoundOrMissed ==
  \A r \in Requests : Answer(r) =>
    \A i \in 1..Len(req[r].hashes) :
      LET t == req[r].hashes[i]
      IN  /\ t \in req[r].missed \/ Places(r, t) # {}
          /\ \A j, k \in Places(r, t) : j = k
          /\ t \in req[r].missed /\ Places(r, t) # {} => AskedAgain(req[r].hashes, i)

\* The answer lists transactions in the order they were asked for, whether
\* they came from the cache or from any chunk (in_requested_order).
InRequestedOrder ==
  \A r \in Requests : Answer(r) =>
    \A j, k \in 1..Len(req[r].txs) : j < k =>
      LET first(t) == CHOOSE i \in 1..Len(req[r].hashes) :
                        /\ req[r].hashes[i] = t
                        /\ \A h \in 1..(i - 1) : req[r].hashes[h] # t
      IN  first(req[r].txs[j].tx) < first(req[r].txs[k].tx)
=============================================================================
