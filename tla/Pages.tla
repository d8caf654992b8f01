------------------------------- MODULE Pages --------------------------------
(***************************************************************************)
(* The handlers of the HTML pages (html.rs), in the form of Handlers.  A   *)
(* page carries the strip of the chain's state, which must not fail it: the*)
(* tip is asked for first, and `chain` is a set of at most one height.     *)
(***************************************************************************)
EXTENDS Stages, Windows, PrivateLookup, Shapes, PageParts, TLC

Page(status, chain, body, rest) == Answers(status, [chain |-> chain] @@ body, rest)

status_of(info) == IF info.ok THEN {info.value.height} ELSE {}

\* The tip, then the page under its strip.
Stripped(got, Then(_, _)) ==
  Asked(got, InfoCall, LAMBDA info, rest : Then(status_of(info), rest))

error_page(status, chain, rest) == Page(status, chain, Empty, rest)

-----------------------------------------------------------------------------
\* The index is the one page that needs the tip.
render_page(page, got) ==
  Stripped(got, LAMBDA chain, r1 :
    IF chain = {} THEN error_page(502, {}, r1)
    ELSE LET height == CHOOSE h \in chain : TRUE
             top    == HtmlTop(height, page)
         IN  Needed(r1, HeadersCall(HtmlBegin(top), top), PageStatus, LAMBDA headers, r2 :
               Page(200, chain,
                 [kind |-> "index", page |-> page,
                  rows |-> [i \in DOMAIN headers |->
                    LET h == headers[Len(headers) + 1 - i]
                    IN  [height |-> h.height, hash |-> h.hash, tx_count |-> h.num_txes + 1]]], r2)))

index(got) == render_page(0, got)

page_at(arg, got) ==
  IF arg.given = "number" THEN render_page(arg.value, got)
  ELSE Stripped(got, LAMBDA chain, rest : error_page(404, chain, rest))

\* The rows may be sorted; how many there are is counted, not taken from the header.
block(arg, sort, dir, got) ==
  Stripped(got, LAMBDA chain, r1 :
    IF arg.is = "text" THEN error_page(404, chain, r1)
    ELSE Needed(r1, BlockCall(arg), PageStatus, LAMBDA b, r2 :
      Fetched(r2, <<b.miner_tx_hash>> \o b.tx_hashes, PageStatus, LAMBDA txs, r3 :
        LET rows == [i \in DOMAIN Decoded(txs) |->
              LET e == Decoded(txs)[i]
              IN  [tx_hash |-> e.tx_hash, coinbase |-> e.coinbase, fee_atomic |-> e.fee,
                   p2pool |-> is_p2pool(e.coinbase, e.outputs, e.merge_mined), size |-> e.size]]
        IN  Page(200, chain,
              [kind |-> "block", height |-> b.header.height, hash |-> b.header.hash,
               depth |-> b.header.depth, tx_count |-> Len(rows),
               txs |-> sort_block_rows(rows, active_sort(sort, dir))], r3))))

\* A ring's ages are counted to the block that spent it, or to the tip.
transaction(arg, got) ==
  Stripped(got, LAMBDA chain, r1 :
    IF arg.is # "hash" THEN error_page(404, chain, r1)
    ELSE Needed(r1, TransactionsCall(<<arg.hash>>), PageStatus, LAMBDA txs, r2 :
      CASE txs = <<>> -> error_page(404, chain, r2)
        [] txs # <<>> /\ ~Head(txs).decodes -> error_page(502, chain, r2)
        [] OTHER ->
             Asked(r2, RingsCall(Head(txs)), LAMBDA rings, r3 :
               LET e        == Head(txs)
                   tip      == IF chain = {} THEN 0 ELSE CHOOSE h \in chain : TRUE
                   spent_at == IF e.in_pool THEN tip ELSE e.block_height
                   heights  == UNION {{in.ring[m] : m \in DOMAIN in.ring} : in \in {rings.value[i] : i \in DOMAIN rings.value}}
               IN  Page(200, chain,
                     [kind |-> "tx", tx_hash |-> e.tx_hash, in_pool |-> e.in_pool,
                      block_height |-> e.block_height, confirmations |-> e.confirmations,
                      timestamp |-> IF e.in_pool THEN e.received_timestamp ELSE e.block_timestamp,
                      oldest |-> axis_span(heights, spent_at), spent_at |-> spent_at,
                      inputs |-> rings.value], r3))))

mempool(sort, dir, asked_at, got) ==
  Stripped(got, LAMBDA chain, r1 :
    Needed(r1, MempoolCall, PageStatus, LAMBDA pool, r2 :
      LET txs == Decoded(newest_first(pool))
      IN  Page(200, chain,
            [kind |-> "pool",
             txs  |-> sort_pool_rows(
               [i \in DOMAIN txs |->
                  [tx_hash |-> txs[i].tx_hash, fee_atomic |-> txs[i].fee, size |-> txs[i].size,
                   waiting_secs |-> waiting_secs(asked_at, txs[i].received_timestamp)]],
               active_sort(sort, dir))], r2)))

alt_blocks(got) ==
  Stripped(got, LAMBDA chain, r1 :
    Needed(r1, AltChainsCall, PageStatus, LAMBDA alt, r2 :
      Page(200, chain,
        [kind |-> "alt",
         chains |-> [i \in DOMAIN alt |->
           [height |-> alt[i].height, tip |-> alt[i].height + alt[i].length - 1]]], r2)))

\* A redirect to the page of what was found; a hash that is no block's is taken to
\* be a transaction's.
search(arg, got) ==
  LET Redirect(to, rest) == Answers(303, [kind |-> "redirect", to |-> to], rest)
  IN  CASE arg.is = "empty" -> Redirect("/", got)
        [] arg.is = "height" -> Redirect("/block", got)
        [] arg.is = "hash" ->
             Asked(got, BlockCall(arg), LAMBDA b, rest : Redirect(IF b.ok THEN "/block" ELSE "/tx", rest))
        [] arg.is = "text" -> Stripped(got, LAMBDA chain, rest : error_page(404, chain, rest))

\* The tip is asked for again, from the cache if it is still fresh.
api_docs(got) ==
  Stripped(got, LAMBDA chain, r1 :
    Asked(r1, InfoCall, LAMBDA info, r2 :
      LET height == IF info.ok THEN info.value.height ELSE 0
          sample == IF height > 0 THEN height - 1 ELSE 0
      IN  Page(200, chain,
            [kind |-> "docs", sample_height |-> sample,
             sample_range_start |-> IF sample > 9 THEN sample - 9 ELSE 0,
             lengths |-> IF info.ok THEN acceptable_postfix_lengths(info.value) ELSE {}], r2)))

not_found(got) == Stripped(got, LAMBDA chain, rest : error_page(404, chain, rest))
=============================================================================
