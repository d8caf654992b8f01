------------------------------- MODULE Daemon -------------------------------
(***************************************************************************)
(* monerod, and the caches of the chain source in front of it, as the      *)
(* handlers see them: what a call may return when the chain has a given    *)
(* height.  The chain only grows here; BlockSource, TxSource, RangeSource  *)
(* and RingSource say what becomes of a call when it reorganises.          *)
(***************************************************************************)
EXTENDS Stages, PrivateLookup, FiniteSets, Functions, Sift

CONSTANTS
  Ledger,       \* the blocks, in order: hash, timestamp and txs, coinbase first
  Pooled,       \* the other transactions, in the order the pool lists them
  Received,     \* when each of them came
  Undecodable,  \* hashes of what is sent with JSON that cannot be read
  Unresolved,   \* hashes of transactions whose rings cannot be resolved
  Window,       \* REORG_WINDOW
  StartHeight,  \* the chain's height at first
  Faults        \* the errors of a call that fails for no fault of the caller's

\* None of them is how monerod says that there is no such block.
ASSUME FaultsAssumption ==
  \A f \in Faults : f = RpcErr(f.kind, f.detail) /\ chain_error("block", f) # "BlockNotFound"

BlockAt(h) == Ledger[h + 1]
InBlock(t, h) == \E i \in DOMAIN BlockAt(h).txs : BlockAt(h).txs[i] = t
HasBlock(id, height) ==
  IF id.is = "height" THEN id.height < height
  ELSE \E h \in 0..(height - 1) : BlockAt(h).hash = id.hash
HeightOf(id) ==
  IF id.is = "height" THEN id.height
  ELSE CHOOSE h \in 0..(Len(Ledger) - 1) : BlockAt(h).hash = id.hash

IsMined(t, height) == \E h \in 0..(height - 1) : InBlock(t, h)
MinedIn(t) == CHOOSE h \in 0..(Len(Ledger) - 1) : InBlock(t, h)
Mined(height) == UNION {Range(BlockAt(h).txs) : h \in 0..(height - 1)}
PoolAt(height) == Within(Pooled, {t \in Range(Pooled) : ~IsMined(t, height)})
InPool(t, height) == t \in Range(Pooled) /\ ~IsMined(t, height)
Known(t, height) == IsMined(t, height) \/ InPool(t, height)

Coinbase(t) == ~\E i \in DOMAIN Pooled : Pooled[i] = t

\* What monerod lets be a chain: a block begins with its coinbase and has no other,
\* and no transaction is in the chain twice.
ASSUME LedgerAssumption ==
  /\ Len(Ledger) \in Nat
  /\ \A h \in 0..(Len(Ledger) - 1) :
       LET txs == BlockAt(h).txs
       IN  /\ txs \in Seq([1..HashLen -> HexChars]) /\ txs # <<>>
           /\ \A i \in DOMAIN txs : Coinbase(txs[i]) <=> i = 1
           /\ \A g \in 0..(Len(Ledger) - 1) : \A i \in DOMAIN txs, j \in DOMAIN BlockAt(g).txs :
                txs[i] = BlockAt(g).txs[j] => g = h /\ i = j
  /\ Pooled \in Seq([1..HashLen -> HexChars]) /\ IsInjective(Pooled)

Header(h, height) ==
  [height |-> h, hash |-> BlockAt(h).hash, timestamp |-> BlockAt(h).timestamp,
   depth |-> height - 1 - h, num_txes |-> Len(BlockAt(h).txs) - 1]

Block(h, height) ==
  [header |-> Header(h, height), miner_tx_hash |-> Head(BlockAt(h).txs),
   tx_hashes |-> Tail(BlockAt(h).txs), decodes |-> BlockAt(h).hash \notin Undecodable]

Entry(t, height) ==
  LET mined == IsMined(t, height)
  IN  [tx_hash |-> t, coinbase |-> Coinbase(t), decodes |-> t \notin Undecodable,
       inputs |-> IF Coinbase(t) THEN 0 ELSE 1, outputs |-> 2, merge_mined |-> TRUE,
       fee |-> Len(t), size |-> IF Coinbase(t) THEN 1 ELSE 2,
       in_pool |-> ~mined,
       block_height |-> IF mined THEN MinedIn(t) ELSE 0,
       confirmations |-> IF mined THEN height - MinedIn(t) ELSE 0,
       block_timestamp |-> IF mined THEN BlockAt(MinedIn(t)).timestamp ELSE 0,
       received_timestamp |-> IF mined THEN 0 ELSE Received[t]]

Entries(hashes, height) ==
  LET known == Within(hashes, {t \in Range(hashes) : Known(t, height)})
  IN  [i \in DOMAIN known |-> Entry(known[i], height)]

\* Headers are never cached, and of the entries of a row nobody reads the depth.
Rows(first, last, height) ==
  [i \in 1..(last - first + 1) |->
     [header |-> Header(first + i - 1, height), txs |-> Entries(BlockAt(first + i - 1).txs, height)]]

Info(height) ==
  [height   |-> height,
   tx_count |-> Len(Within(Pooled, {t \in Range(Pooled) : IsMined(t, height)}))]

Absent == RpcErr("JsonRpc", INTERNAL)
PastTip == RpcErr("JsonRpc", TOO_BIG_HEIGHT)
NoMethod == RpcErr("JsonRpc", METHOD_NOT_FOUND)

\* The moments a cached reply may be of: every one so far for a block by hash, those
\* at which its depth was past the window for a block by height, and those at which
\* its confirmations were, one block earlier, for a transaction.
Moments(height) == StartHeight..height
BuriedAt(h, height) == height - 1 - h >= Window

\* Fault: a transaction is cached one confirmation short of the window.
ConfirmedOneShort(h, height) == height - h + 1 >= Window

ConfirmedAt(h, height) == height - h >= Window

BlockReplies(id, height) ==
  IF ~HasBlock(id, height) THEN {Err(IF id.is = "height" THEN PastTip ELSE Absent)}
  ELSE {Ok(Block(HeightOf(id), w)) : w \in {w \in Moments(height) :
          \/ w = height
          \/ id.is = "hash" /\ HasBlock(id, w)
          \/ BuriedAt(HeightOf(id), w)}}

\* An entry as the cache may have it since w.
AsOf(e, w) == IF IsMined(e.tx_hash, w) /\ ConfirmedAt(e.block_height, w) THEN Entry(e.tx_hash, w) ELSE e

\* Each entry was cached, or is fetched, at a moment of its own.
EntriesAsOf(hashes, height, at) ==
  LET entries == Entries(hashes, height) IN [i \in DOMAIN entries |-> AsOf(entries[i], at[entries[i].tx_hash])]

TransactionsReplies(hashes, height) ==
  {Ok(EntriesAsOf(hashes, height, at)) : at \in [Range(hashes) -> Moments(height)]}

RingsReply(entry) ==
  Ok([i \in 1..entry.inputs |->
    IF entry.tx_hash \in Unresolved THEN [ring |-> <<>>, ring_unavailable |-> TRUE]
    ELSE [ring |-> <<0, 1>>, ring_unavailable |-> FALSE]])

\* What a call made to a daemon with these offers may return at this height.
Replies(call, height, offers) ==
  CASE call.op = "block" -> BlockReplies(call.id, height)
    [] call.op = "transactions" -> TransactionsReplies(call.hashes, height)
    [] call.op = "resolve_rings" -> {RingsReply(call.entry)}
    [] call.op = "headers_range" ->
         IF call.last >= height THEN {Err(PastTip)}
         ELSE {Ok([i \in 1..(call.last - call.first + 1) |-> Header(call.first + i - 1, height)])}
    [] call.op = "blocks_in_range" ->
         IF call.last >= height THEN {Err(PastTip)} ELSE {Ok(Rows(call.first, call.last, height))}
    [] call.op = "txids_loose" ->
         LET found == {t \in Mined(height) : Matches(t, call.request)}
         IN  IF "txids_loose" \in offers THEN {Ok(list) : list \in Bijection(1..Cardinality(found), found)}
             ELSE {Err(NoMethod)}
    [] call.op = "alt_chains" ->
         {IF "alt_chains" \in offers THEN Ok(<<[height |-> 2, length |-> 1]>>) ELSE Err(NoMethod)}
    [] call.op = "mempool" ->
         IF "mempool" \in offers
         THEN {Ok([i \in DOMAIN PoolAt(height) |-> Entry(PoolAt(height)[i], height)])}
         ELSE {Err(RpcErr("Http", 404))}
    [] call.op = "pool_stats" ->
         IF "mempool" \in offers THEN {Ok(Len(PoolAt(height)))} ELSE {Err(RpcErr("Http", 404))}
    [] call.op = "fee_estimate" -> {Ok(1)}
    [] call.op = "last_block_header" -> {Ok([major_version |-> 16])}

\* The calls that may find the daemon failing: not what a cache may answer wholly,
\* which fails no call, nor the rings, whose failures are per input.
Failures(call) == IF call.op = "resolve_rings" THEN {} ELSE {Err(f) : f \in Faults}
=============================================================================
