------------------------------- MODULE Answers -------------------------------
(***************************************************************************)
(* What the answers of the explorer say, against the chain: of each kind of*)
(* body, that what it says was true since the request began, or of the     *)
(* moment the cache it came from was filled.                               *)
(***************************************************************************)
EXTENDS Explorer

Meanwhile(r) == reqs[r].from..height

\* A tip an answer may show by itself.
RecentTip(r, h) == h \in reqs[r].oldest..height

\* A tip that comes with the depth of the block at b: of this request, or of the
\* moment a cache was filled, if one takes it at that depth.
TipOf(r, b, h, cached) ==
  /\ b < h /\ h <= height
  /\ h \in Meanwhile(r) \/ cached

\* A block asked for by hash is cached at any depth, one asked for by height at the
\* window's; a transaction once its confirmations reach the window.
BlockTip(r, b, h, byHash) == TipOf(r, b, h, byHash \/ (h - 1) - b >= Window)
TxTip(r, b, h) == TipOf(r, b, h, h - b >= Window)

ReadableTxs(b) == SelectSeq(BlockAt(b).txs, LAMBDA t : t \notin Undecodable)

AreOf(list, hashes) == Hashes(list) = hashes /\ \A i \in DOMAIN list : list[i].coinbase = Coinbase(list[i].tx_hash)

\* A transaction in the pool came at a time, has no block and no depth; one in a
\* block has that block's height and time and is as deep as the tip says.
Placed(r, tx) ==
  LET t == tx.tx_hash
  IN  \/ /\ ~Coinbase(t) /\ ~IsMined(t, reqs[r].from)
         /\ tx.at = [block_height |-> 0, timestamp |-> Received[t], confirmations |-> 0]
      \/ /\ IsMined(t, height)
         /\ tx.at.block_height = MinedIn(t) /\ tx.at.timestamp = BlockAt(MinedIn(t)).timestamp
         /\ tx.at.confirmations = tx.current_height - MinedIn(t)

ShowsTx(r, body) ==
  LET t == What(r).arg.hash
  IN  /\ body.tx.tx_hash = t /\ t \notin Undecodable /\ body.tx.coinbase = Coinbase(t)
      /\ Placed(r, body.tx)
      /\ IF body.tx.at.confirmations > 0 THEN TxTip(r, MinedIn(t), body.tx.current_height)
         ELSE RecentTip(r, body.tx.current_height)
      /\ body.tx.inputs = {} <=> Coinbase(t)
      /\ \A inputs \in body.tx.inputs : \A i \in DOMAIN inputs : inputs[i] = {} <=> t \in Unresolved

\* The block at b, all of its transactions that can be read, in their order.
ShowsBlock(r, b, body, byHash) ==
  /\ body.block_height = b /\ body.hash = BlockAt(b).hash /\ body.timestamp = BlockAt(b).timestamp
  /\ AreOf(body.txs, ReadableTxs(b))
  /\ BlockTip(r, b, body.current_height, byHash)

\* A page goes down the chain from where it starts, and holds what is left of it.
ShowsPage(r, body) ==
  LET top == body.current_height - 1 - body.page * body.limit
  IN  /\ RecentTip(r, body.current_height)
      /\ top + 1 >= body.limit => Len(body.rows) = body.limit
      /\ \A i \in DOMAIN body.rows :
           LET row == body.rows[i]
           IN  /\ top + 1 >= body.limit => row.height = top + 1 - i
               /\ row.hash = BlockAt(row.height).hash /\ AreOf(row.txs, ReadableTxs(row.height))
      /\ body.limit > 0 => body.limit * body.total_page_no \in
           body.current_height..(body.current_height + body.limit - 1)

\* How many of the pool came after t, or with it and are listed before it.
Rank(t, pool) ==
  LET place(u) == CHOOSE i \in DOMAIN pool : pool[i] = u
  IN  Cardinality({u \in Range(pool) : \/ Received[u] > Received[t]
                                       \/ Received[u] = Received[t] /\ place(u) < place(t)})

IsNewestFirst(hashes, pool) ==
  \A i, k \in DOMAIN hashes : i < k => Rank(hashes[i], pool) < Rank(hashes[k], pool)

ShowsPool(r, body) ==
  \E w \in Meanwhile(r) :
    LET pool == PoolAt(w)
    IN  /\ body.txs_no = Len(pool)
        /\ Range(Hashes(body.txs)) = {t \in Readable(Range(pool)) :
             Rank(t, pool) \in (body.page * body.limit)..((body.page + 1) * body.limit - 1)}
        /\ IsNewestFirst(Hashes(body.txs), pool)

\* The pool and the last blocks: no transaction twice, and none of the window
\* missing unless the call for it failed.
ShowsRecent(r, body) ==
  LET hashes == Hashes(body.txs)
      shown    == body.current_height
      got    == reqs[r].got
      window == UNION {Range(BlockAt(b).txs) : b \in body.from_height..body.to_height}
      pooled == {hashes[i] : i \in 1..body.mempool_txs_no}
  IN  /\ RecentTip(r, shown) /\ body.to_height = shown - 1
      /\ shown >= Limits.recent_blocks => body.to_height - body.from_height + 1 = Limits.recent_blocks
      /\ IsInjective(hashes)
      /\ \E w \in Meanwhile(r) : pooled = IF got[2].ok THEN Readable(Range(PoolAt(w))) ELSE {}
      /\ Range(hashes) \ pooled = IF got[3].ok THEN Readable(window) ELSE {}
      /\ \A i \in DOMAIN body.txs :
           LET tx == body.txs[i]
           IN  /\ Placed(r, tx) /\ tx.current_height = shown
               /\ tx.at.confirmations = 0 <=> i <= body.mempool_txs_no

\* Only what the tip told is sure; the rest is shown or is zero.
ShowsNetwork(r, body) == RecentTip(r, body.height) /\ body.fee \in {0, 1} /\ body.hf \in {0, 16}

-----------------------------------------------------------------------------
\* The pages, under the strip with the tip.
ShowsIndex(r, body) ==
  LET shown == CHOOSE h \in body.chain : TRUE
      top   == shown - 1 - body.page * PerPage
  IN  /\ body.chain # {}
      /\ \A i \in DOMAIN body.rows :
           LET row == body.rows[i]
           IN  /\ row.hash = BlockAt(row.height).hash /\ row.tx_count = Len(BlockAt(row.height).txs)
               /\ top >= 0 => row.height = top + 1 - i

ShowsBlockPage(r, body) ==
  LET b == HeightOf(What(r).arg)
  IN  /\ body.height = b /\ body.hash = BlockAt(b).hash
      /\ BlockTip(r, b, b + body.depth + 1, What(r).arg.is = "hash")
      /\ Range(Hashes(body.txs)) = Range(ReadableTxs(b)) /\ IsInjective(Hashes(body.txs))
      /\ \A i \in DOMAIN body.txs : body.txs[i].coinbase = body.txs[i].p2pool
      /\ What(r).sort \notin {"fee", "size"} => Hashes(body.txs) = ReadableTxs(b)

ShowsTxPage(r, body) ==
  LET t == What(r).arg.hash
  IN  /\ body.tx_hash = t /\ t \notin Undecodable
      /\ IF body.in_pool THEN ~IsMined(t, reqs[r].from) /\ body.timestamp = Received[t]
         ELSE /\ body.timestamp = BlockAt(MinedIn(t)).timestamp
              /\ TxTip(r, MinedIn(t), MinedIn(t) + body.confirmations)
      /\ \A i \in DOMAIN body.inputs : \A m \in DOMAIN body.inputs[i].ring :
           body.spent_at - body.inputs[i].ring[m] <= body.oldest

ShowsPoolPage(r, body) ==
  \E w \in Meanwhile(r) :
    /\ Range(Hashes(body.txs)) = Readable(Range(PoolAt(w))) /\ IsInjective(Hashes(body.txs))
    /\ What(r).sort = "none" => IsNewestFirst(Hashes(body.txs), PoolAt(w))

\* The examples name blocks there are, and the lengths listed are those served.
ShowsDocs(r, body) ==
  /\ body.sample_height < height /\ body.sample_range_start <= body.sample_height
  /\ body.sample_height - body.sample_range_start < 10
  /\ body.lengths # {} => \E h \in reqs[r].oldest..height :
       body.lengths = {n \in Limits.postfix_min..Limits.postfix_max :
                         Share(n, h) \in MIN_ANONYMITY_SET..MAX_PRIVATE_TX_MATCHES}

ShowsRedirect(r, body) ==
  What(r).arg.is = "hash" =>
    (body.to = "/tx" => Errors(r) # {}) /\ (body.to = "/block" => HasBlock(What(r).arg, height))

\* Every answer says of the chain what was true: each block with all of its
\* transactions that can be read, each transaction in the pool or in the block that
\* holds it, at the depth and under the tip of one moment since it was asked or of
\* one at which a cache was filled; a list is in order, without gap or repeat
\* (shapes.rs, handlers.rs, html.rs).
AnswersShowTheChain ==
  \A r \in Requests : Answered(r) /\ Outcome(r).status \in {200, 303} =>
    LET body == Body(r)
        what == What(r)
    IN  /\ "chain" \in DOMAIN body => \A h \in body.chain : RecentTip(r, h)
        /\ CASE body.kind = "version" -> RecentTip(r, body.blockchain_height)
             [] body.kind = "tx" /\ IsApi(what) -> ShowsTx(r, body)
             [] body.kind = "tx" /\ ~IsApi(what) -> ShowsTxPage(r, body)
             [] body.kind = "block" /\ IsApi(what) ->
                  ShowsBlock(r, HeightOf(what.arg), body, what.arg.is = "hash")
             [] body.kind = "block" /\ ~IsApi(what) -> ShowsBlockPage(r, body)
             [] body.kind = "raw" -> body.hash \notin Undecodable /\ body.hash =
                  IF what.route = "/api/rawblock" THEN BlockAt(HeightOf(what.arg)).hash ELSE what.arg.hash
             [] body.kind = "page" -> ShowsPage(r, body)
             [] body.kind = "pool" /\ IsApi(what) -> ShowsPool(r, body)
             [] body.kind = "pool" /\ ~IsApi(what) -> ShowsPoolPage(r, body)
             [] body.kind = "network" -> ShowsNetwork(r, body)
             [] body.kind = "private" -> \A i \in DOMAIN body.txs :
                  LET tx == body.txs[i]
                  IN  Placed(r, tx) /\ TxTip(r, MinedIn(tx.tx_hash), tx.current_height)
             [] body.kind = "blocks" ->
                  \A i \in DOMAIN body.blocks :
                    /\ ShowsBlock(r, what.arg.start.value + i - 1, body.blocks[i], FALSE)
                    /\ body.blocks[i].current_height \in Meanwhile(r)
             [] body.kind = "recent" -> ShowsRecent(r, body)
             [] body.kind = "index" -> ShowsIndex(r, body)
             [] body.kind = "docs" -> ShowsDocs(r, body)
             [] body.kind = "redirect" -> ShowsRedirect(r, body)
             [] OTHER -> TRUE
=============================================================================
