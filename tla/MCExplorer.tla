----------------------------- MODULE MCExplorer -----------------------------
(***************************************************************************)
(* An instance of Explorer for TLC: a chain of eight blocks that grows by  *)
(* one, which mines three of the four transactions of the pool; hashes of  *)
(* four bits, and a request on every route, on some of them beside one that*)
(* only asks for the tip.                                                  *)
(***************************************************************************)
EXTENDS Answers

a == <<0, 0, 1, 1>>
b == <<0, 1, 1, 1>>
c == <<1, 0, 1, 1>>
d == <<1, 0, 0, 1>>

Coinbases == <<
  <<0, 0, 0, 0>>, <<0, 0, 0, 1>>, <<0, 0, 1, 0>>, <<0, 1, 0, 0>>, <<0, 1, 0, 1>>, <<0, 1, 1, 0>>,
  <<1, 0, 0, 0>>, <<1, 1, 1, 1>>, <<1, 0, 1, 0>>>>

MCLedger == [i \in 1..9 |->
  [hash |-> <<9, i>>, timestamp |-> 100 + i,
   txs  |-> IF i = 9 THEN <<Coinbases[i], c, b, d>> ELSE <<Coinbases[i]>>]]

MCPooled == <<a, b, c, d>>
MCReceived == (a :> 50 @@ b :> 60 @@ c :> 50 @@ d :> 70)

\* The rings of b cannot be resolved; c and the block at 5 cannot be read.
MCUndecodable == {c, <<9, 6>>}
MCUnresolved == {b}

MCLimits == [postfix_min |-> 2, postfix_max |-> 4, block_range |-> 3, recent_blocks |-> 2]

MCOffers == {{"txids_loose", "mempool"}, {"alt_chains"}}

MCFaults == {RpcErr("Transport", "Timeout"), RpcErr("JsonRpc", CORE_BUSY)}

MCLog == <<0, 69, 110, 139, 161, 179, 195, 208, 220, 230, 240, 248>>

-----------------------------------------------------------------------------
Height(h) == [is |-> "height", height |-> h]
Hash(h) == [is |-> "hash", hash |-> h]
Text == [is |-> "text"]
Number(n) == [given |-> "number", value |-> n]
NoNumber == [given |-> "text"]
NoParam == [given |-> "no"]

Route(routes, args) == [route : routes, arg : args]

\* Under a window of 2 the first tip has the block at 5 cached by height and that at 6
\* not, the coinbase of the block at 6 cached and that of the block at 7 not.
Blocks == {Text, Height(5), Height(6), Height(8), Hash(<<9, 6>>), Hash(<<9, 7>>), Hash(<<9, 9>>)}
Txs == {Text, Hash(a), Hash(b), Hash(c), Hash(<<1, 0, 0, 0>>), Hash(<<1, 1, 1, 1>>), Hash(<<1, 1, 1, 0>>)}

\* The last but one is for the coinbases of the blocks at 0 and at 6, each cached or not.
Postfixes == {<<1>>, <<1, 1>>, <<0, 1>>, <<2, 1>>, <<0, 1, 1>>, <<1, 0, 1>>, <<0, 0, 0>>, <<0, 1, 1, 1>>}
Span(i, j) == [start |-> i, end |-> j]
Query(p, l) == [page |-> p, limit |-> l]

Everything ==
  {[route |-> n] : n \in {"health", "unknown", "/", "/api", "/altblocks",
     "/api/networkinfo", "/api/transactions/recent"}}
  \cup Route({"/api/block", "/api/rawblock"}, Blocks)
  \cup Route({"/api/transaction", "/api/rawtransaction", "/tx"}, Txs)
  \cup Route({"/api/search"}, {Text, Height(8), Hash(<<9, 9>>), Hash(a), Hash(c)})
  \cup Route({"/search"}, {[is |-> "empty"], Text, Height(8), Hash(<<9, 9>>)})
  \cup Route({"/api/feeestimate"}, {NoParam, Number(3), NoNumber})
  \cup Route({"/api/transactions"}, {Query(NoParam, NoParam), Query(Number(1), Number(3)),
       Query(NoParam, Number(4)), Query(NoNumber, NoParam), Query(NoParam, Number(0))})
  \cup Route({"/api/mempool"}, {Query(NoParam, NoParam), Query(Number(1), Number(1)),
       Query(NoParam, Number(3))})
  \cup Route({"/api/blocks"}, {Span(Number(7), Number(8)), Span(Number(7), Number(9)),
       Span(Number(6), Number(9)), Span(Number(7), NoParam)})
  \cup Route({"/api/transaction/private"}, Postfixes)
  \cup Route({"/page"}, {Number(1), NoNumber})
  \cup [route : {"/block"}, arg : {Text, Height(8), Hash(<<9, 9>>)}, sort : {"none", "size"}, dir : {"desc"}]
  \cup [route : {"/mempool"}, sort : {"none", "fee"}, dir : {"asc"}]

\* Bound: two requests at once only on these routes, each of which puts the tip
\* together with another call; a request on any other runs alone, with whatever tip
\* the earlier ones left in the cache.
BesideAnother == {"idle", "/api/transactions", "/api/blocks", "/api/transaction", "/page", "/altblocks"}

TipContended == reqs["tip"] # NoRequest => What("page").route \in BesideAnother

MCRoutes == [r \in Requests |-> IF r = "page" THEN Everything ELSE {[route |-> "/api/version"]}]
=============================================================================
