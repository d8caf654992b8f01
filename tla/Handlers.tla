------------------------------ MODULE Handlers ------------------------------
(***************************************************************************)
(* The handlers of /api/* (handlers.rs), each an operator of its argument  *)
(* and of the replies it has had so far.                                   *)
(*                                                                         *)
(* An argument that is a block or a transaction is what reading it makes of*)
(* it (Values.parse): a height, a hash, or a text that is neither.  A query*)
(* parameter is missing, a number, or another text.                        *)
(***************************************************************************)
EXTENDS Stages, Windows, PrivateLookup, Shapes, PageParts, Functions, Sift

CONSTANTS
  DefaultLimit,            \* 25
  MAX_TRANSACTIONS_LIMIT,  \* 50
  MAX_MEMPOOL_LIMIT        \* 500

Need(got, call, Then(_, _)) == Needed(got, call, ApiStatus, Then)
Success(body, rest) == Answers(200, body, rest)
Refused(got) == Answers(400, Empty, got)

IsNumber(param) == param.given = "number"
Value(param, default) == IF IsNumber(param) THEN param.value ELSE default

-----------------------------------------------------------------------------
version(got) ==
  Need(got, InfoCall, LAMBDA info, rest :
    Success([kind |-> "version", blockchain_height |-> info.height], rest))

\* A mined transaction carries the tip in its confirmations; one in the pool
\* needs it asked for.
transaction(arg, got) ==
  IF arg.is # "hash" THEN Refused(got)
  ELSE Need(got, TransactionsCall(<<arg.hash>>), LAMBDA txs, rest :
    CASE txs = <<>> -> Answers(404, Empty, rest)
      [] txs # <<>> /\ ~Head(txs).decodes -> Answers(502, Empty, rest)
      [] OTHER ->
           Asked(rest, RingsCall(Head(txs)), LAMBDA rings, then :
             IF Head(txs).in_pool
             THEN Need(then, InfoCall, LAMBDA info, last :
                    Success([kind |-> "tx", tx |-> TxDetail(Head(txs), rings.value, info.height)], last))
             ELSE Success([kind |-> "tx", tx |-> TxDetail(Head(txs), rings.value,
                             Head(txs).block_height + Head(txs).confirmations)], then)))

\* The tip as of the moment the header was read.
current_height(header) == header.height + header.depth + 1

block_detail(header, entries) ==
  [kind |-> "block", block_height |-> header.height, current_height |-> current_height(header),
   hash |-> header.hash, timestamp |-> header.timestamp, txs |-> Summaries(entries)]

build_block_detail(id, got) ==
  Need(got, BlockCall(id), LAMBDA b, rest :
    Fetched(rest, <<b.miner_tx_hash>> \o b.tx_hashes, ApiStatus, LAMBDA txs, last :
      Success(block_detail(b.header, txs), last)))

block(arg, got) == IF arg.is = "text" THEN Refused(got) ELSE build_block_detail(arg, got)

raw_block(arg, got) ==
  IF arg.is = "text" THEN Refused(got)
  ELSE Need(got, BlockCall(arg), LAMBDA b, rest :
    IF b.decodes THEN Success([kind |-> "raw", hash |-> b.header.hash], rest)
    ELSE Answers(502, Empty, rest))

raw_transaction(arg, got) ==
  IF arg.is # "hash" THEN Refused(got)
  ELSE Need(got, TransactionsCall(<<arg.hash>>), LAMBDA txs, rest :
    CASE txs = <<>> -> Answers(404, Empty, rest)
      [] txs # <<>> /\ ~Head(txs).decodes -> Answers(502, Empty, rest)
      [] OTHER -> Success([kind |-> "raw", hash |-> Head(txs).tx_hash], rest))

\* A hint: what is not a number takes the default.  Any failure is the daemon's.
fee_estimate(grace, got) ==
  LET daemons(op, err) == 502
  IN  Needed(got, FeeCall(Value(grace, 10)), daemons, LAMBDA fee, rest :
        Success([kind |-> "fee", fee |-> fee, grace_blocks |-> Value(grace, 10)], rest))

-----------------------------------------------------------------------------
\* PageQuery::parse refuses a text, and a limit above the ceiling.
ReadsPage(query, default, max) ==
  /\ "text" \notin {query.page.given, query.limit.given}
  /\ Value(query.limit, default) <= max

BlockRow(row) ==
  [height |-> row.header.height, hash |-> row.header.hash, txs |-> Summaries(row.txs)]

Reversed(rows) == [i \in DOMAIN rows |-> rows[Len(rows) + 1 - i]]

\* A page of blocks, newest first.
transactions(query, got) ==
  LET page  == Value(query.page, 0)
      limit == Value(query.limit, DefaultLimit)
      Page(height, rows) ==
        [kind |-> "page", rows |-> [i \in DOMAIN rows |-> BlockRow(Reversed(rows)[i])],
         current_height |-> height, page |-> page, limit |-> limit,
         total_page_no |-> total_page_no(height, limit)]
  IN  IF ~ReadsPage(query, DefaultLimit, MAX_TRANSACTIONS_LIMIT) THEN Refused(got)
      ELSE Need(got, InfoCall, LAMBDA info, rest :
        LET start == ApiStart(info.height, limit, page)
        IN  IF ApiBlocks(info.height, limit, page) = {} THEN Success(Page(info.height, <<>>), rest)
            ELSE Need(rest, RangeCall(start, ApiEnd(info.height, start, limit)), LAMBDA rows, last :
                   Success(Page(info.height, rows), last)))

\* One page of the pool: rows that cannot be read are left out, and still counted.
mempool(query, got) ==
  LET page  == Value(query.page, 0)
      limit == Value(query.limit, MAX_MEMPOOL_LIMIT)
      skip  == Saturated(page * limit)
  IN  IF ~ReadsPage(query, MAX_MEMPOOL_LIMIT, MAX_MEMPOOL_LIMIT) THEN Refused(got)
      ELSE Need(got, MempoolCall, LAMBDA pool, rest :
        Success([kind |-> "pool",
                 txs  |-> Summaries(SubSeq(newest_first(pool), skip + 1, Lesser(skip + limit, Len(pool)))),
                 txs_no |-> Len(pool), page |-> page, limit |-> limit,
                 total_page_no |-> total_page_no(Len(pool), limit)], rest))

\* A hash may be a block's or a transaction's: whatever ended the first lookup,
\* the second is tried, and whatever ended that, nothing was found.
search(arg, got) ==
  CASE arg.is = "text" -> Refused(got)
    [] arg.is = "height" -> block(arg, got)
    [] arg.is = "hash" ->
         LET first == block(arg, got)
         IN  IF ~first.done \/ first.status = 200 THEN first
             ELSE LET second == transaction(arg, first.rest)
                  IN  IF ~second.done \/ second.status = 200 THEN second
                      ELSE Answers(404, Empty, second.rest)

\* Only the tip is needed: what else is missing is shown as zero.
network_info(got) ==
  LET OrZero(reply) == IF reply.ok THEN reply.value ELSE 0
  IN  Need(got, InfoCall, LAMBDA info, r1 :
        Asked(r1, FeeCall(10), LAMBDA fee, r2 :
          Asked(r2, LastHeaderCall, LAMBDA header, r3 :
            Asked(r3, PoolStatsCall, LAMBDA stats, r4 :
              Success([kind |-> "network", height |-> info.height, fee |-> OrZero(fee),
                       hf |-> IF header.ok THEN header.value.major_version ELSE 0,
                       bytes |-> OrZero(stats)], r4)))))

-----------------------------------------------------------------------------
\* The hashes are searched by whole bytes; what the byte more brought is sifted.
transaction_private(postfix, got) ==
  Need(got, InfoCall, LAMBDA info, r1 :
    IF check_postfix(postfix, total_transactions(info)) # "Ok"
       \/ from_hex_suffix(whole_byte_suffix(postfix)) = {}
    THEN Refused(r1)
    ELSE Need(r1, TxidsCall(CHOOSE q \in from_hex_suffix(whole_byte_suffix(postfix)) : TRUE),
      LAMBDA txids, r2 :
        LET matching == Within(txids, {t \in Range(txids) : EndsWith(t, postfix)})
        IN  IF Len(matching) > MAX_PRIVATE_TX_MATCHES THEN Refused(r2)
            ELSE Fetched(r2, matching, ApiStatus, LAMBDA txs, r3 :
              Success([kind |-> "private", txs |-> [i \in DOMAIN Decoded(txs) |->
                         LET e == Decoded(txs)[i]
                         IN  Unexpanded(e, e.block_height + e.confirmations)]], r3))))

\* The span is refused before the daemon is asked anything.
blocks_range(start, end, got) ==
  IF \/ ~IsNumber(start) \/ ~IsNumber(end)
     \/ start.value > end.value
     \/ (end.value - start.value) + 1 > Limits.block_range
  THEN Refused(got)
  ELSE Need(got, InfoCall, LAMBDA info, r1 :
    IF end.value > info.height THEN Answers(404, Empty, r1)
    ELSE Need(r1, RangeCall(start.value, end.value), LAMBDA rows, r2 :
      Success([kind |-> "blocks",
               blocks |-> [i \in DOMAIN rows |-> block_detail(rows[i].header, rows[i].txs)]], r2)))

\* The pool, then the window; either may be missing.
transactions_recent(got) ==
  Need(got, InfoCall, LAMBDA info, r1 :
    LET window == recent_window(info.height, Limits.recent_blocks)
        first  == CHOOSE h \in window : \A k \in window : h <= k
        last   == CHOOSE h \in window : \A k \in window : k <= h
        Listed(entries) == [i \in DOMAIN Decoded(entries) |-> Unexpanded(Decoded(entries)[i], info.height)]
    IN  Asked(r1, MempoolCall, LAMBDA pool, r2 :
          Asked(r2, RangeCall(first, last), LAMBDA rows, r3 :
            LET pooled == IF pool.ok THEN Listed(newest_first(pool.value)) ELSE <<>>
                mined[n \in 0..Len(IF rows.ok THEN rows.value ELSE <<>>)] ==
                  IF n = 0 THEN <<>> ELSE mined[n - 1] \o Listed(rows.value[n].txs)
            IN  Success([kind |-> "recent", current_height |-> info.height,
                         from_height |-> first, to_height |-> last,
                         mempool_txs_no |-> Len(pooled),
                         txs |-> pooled \o mined[IF rows.ok THEN Len(rows.value) ELSE 0]], r3))))
=============================================================================
