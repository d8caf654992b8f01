# A TLA+ model of OxBlocks

OxBlocks is a block explorer for Monero: a web server that keeps nothing but an
in-memory cache and answers every page and API request by asking one `monerod`
over RPC. What makes it hard is not data but time. A request makes several
calls, other requests fill the same caches in between, the chain grows and
reorganises under all of them, calls fail, and a deadline may drop a handler
wherever it stands.

## The system

| Part | State | Operations | Interacts with |
|---|---|---|---|
| Cache (`explorer-core/cache.rs`) | map of entries with a recency reading, a clock, hit and miss counts, an optional time to live | `new`, `get`, `insert`, `evict_batch`, `stats` | used by every lookup; shared by all requests behind a mutex |
| Chain source (`explorer-core/rpc_source.rs`) | five caches: blocks by hash, blocks by height, transactions, outputs, info; a semaphore of RPC permits | `block`, `transactions`, `headers_range`, `blocks_in_range`, `resolve_ring(s)`, `info`, `fee_estimate`, `mempool`, `alternate_chains` | calls the RPC client, called by all handlers |
| RPC client (`monerod-rpc/client.rs`, `error.rs`, `url.rs`) | none | `post`, `collect_body`, `json_rpc`, `endpoint`, `check_status` | the daemon; one deadline spans connect, head and body |
| Wire types (`monerod-rpc/types.rs`) | none | deserialisation, `ring_members` | |
| API (`explorer-web/api/*.rs`) | none | one handler per route, `envelope`, the shapes of the answers, paging arithmetic, the k-anonymous lookup | the chain source, several calls to an answer |
| HTML (`explorer-web/html.rs`) | none | one handler per page under a strip with the chain's state, sorted tables, the strip of ages | the chain source |
| Server (`explorer-web/main.rs`, `config.rs`) | the routes' concurrency limits | middleware, deadline, panic handler, graceful shutdown | wraps every handler |
| tx_extra (`explorer-core/tx_extra.rs`) | a position in a blob | `parse`, `parse_field`, `read_varint`, accessors of the decoded fields | pages and API of a transaction |
| Values (`amount.rs`, `hash.rs`, `hex.rs`, `fmt.rs`, `tx.rs`) | none | reading and writing of hashes, hex, heights, amounts, dates and ages; the facts of a transaction | everything shown |

`monerod` itself is not in the repository. `Chain` and `Daemon` state what the code
relies on of it; those definitions are marked external in `PROJECT.json`.

### What is hard, and what makes each part correct

- **Cache.** It is bounded by one eviction pass whose cut-off is selected among
  ages; if two entries shared an age, the pass would drop too few or too many.
  Correct: never over capacity, least recently used first, nothing expired served.
- **Block, transaction and output caches.** A reply is cached by what the daemon
  said when it answered, after an `await` during which the chain may have moved.
  Correct: a cached entry is what the daemon would answer now, for reorganisations
  no deeper than the window the code names.
- **Ranges and rings.** One answer is put together from several calls at several
  moments. Correct: nothing listed twice or attributed to another place, and one
  failing part does not blank the rest.
- **Permits and shutdown.** Handlers hold and wait for permits in several stages and
  can be dropped anywhere. Correct: permits are conserved, everybody ends.
- **Paging.** Pages count back from a tip that moves, in wrapping and saturating
  `u64`. Correct: only blocks that exist are asked for, and a walk misses none.
- **The tip.** `info` is cached for a few seconds and shared; two lookups in flight
  may answer in either order. Correct: no tip older than its time to live and one call.
- **Answers.** A handler joins what it read of the tip, a block, the pool and a window
  at several moments, from caches filled at others. Correct: what an answer says was
  true of one moment since it was asked, or of when its cache was filled; the status
  lays the fault where it is.
- **k-anonymous lookup.** A postfix is held against the size of a chain that grows
  until its matches are fetched, and an odd one is narrowed to whole bytes before it
  is asked. Correct: the whole set is served or nothing is.
- **Conversions.** Replies with members left out, pruned transactions, dates, split
  integers. Correct: read back as written, and missing never taken for absent.
- **tx_extra.** Length fields chosen by whoever made the transaction. Correct: total,
  and exactly the format.

`PROJECT.json` lists these hazards at the lines where they bite, with the
properties that cover them.

## Modules

| Module | Models | Notes |
|---|---|---|
| `LruCache` | `Cache` of `cache.rs` | `map`, `clock`, the counters and the mutex's poisoning are the struct's fields; `capacity` and `ttl` are fixed by `new`. `get` and `insert` are one action each (the lock is held throughout), poisoned variants included. `Tick` is the clock on the wall. |
| `RecencyList` | what the cache promises | a list of entries in order of use; a lookup moves to the back, a full insert drops a batch off the front |
| `Chain` | `monerod`'s chain and pool (external) | grows, reorganises by at most `MaxReorg` blocks, returns transactions to the pool |
| `BlockSource` | `RpcChainSource::block` | a request is idle, sent, replied (the daemon has read its chain) or done; between any two steps the chain and other requests move |
| `TxSource` | `RpcChainSource::transactions` | chunks are answered each at its own moment, handled together at the end (`join_all`) |
| `RangeSource` | `headers_range`, `blocks_in_range` | headers, bodies (through the cache by height) and transactions are three moments |
| `RingSource` | `resolve_rings` and the two ways it resolves | the batch, the fallback per input, a cache that may lose any entry at any insert. The members a batch asks for are put in some order, each once; the answers are paired with them by position, so which order makes no difference |
| `ChainError` | `error.rs`, `chain.rs`, and the statuses pages and API answers give a failure | operators only: the RpcError of a call, what each method of the chain source makes of it, the HTTP status it ends in |
| `RpcClient` | one call of `client.rs` | sent, reading, done; the daemon may refuse, break off, stall or lie about a length at any step; timer and answer race |
| `RpcGate` | `rpc`/`bare`/`permit`, the middleware of `router`, `shutdown_signal` | a handler is a list of stages of concurrent calls |
| `Paging` | the windows of `/api/transactions`, the index pages, `/api/transactions/recent` | words of `Word` values; subtraction, multiplication and the signed reading as in the code |
| `Windows`, `PageParts` | which heights a page covers (`handlers.rs`, `html.rs`); sorted tables, their links, the strip of ages | operators; `Paging` walks the first, `Handlers` and `Pages` use both |
| `PrivateLookup` | `check_postfix`, `acceptable_postfix_lengths`, `whole_byte_suffix`, `from_hex_suffix` | operators; a character may be no hex digit |
| `Stages` | the form of a handler | an operator of the replies it has had: its value is the next call, or the answer. `Asked`, `Needed` and `Fetched` there, `Need` in `Handlers` and `Stripped` in `Pages` stand for `.await`, `.ok()` and `?` |
| `Shapes` | `shapes.rs` and the summaries of `rpc_source.rs` | what an answer says of a transaction by where it was found |
| `Handlers`, `Pages` | every handler of `handlers.rs` and of `html.rs` | call by call, in the code's order, with every early return |
| `Daemon` | `monerod` behind the chain source, as a handler sees it (external, but for what the caches make of a reply) | what each call may return at a height; failures are a constant |
| `Explorer` | routes, requests in flight, the cache of the tip | `info` is taken apart: looked up, read by the daemon, received; other calls are one step |
| `Answers` | | what each kind of answer must say of the chain |
| `TxExtra` | `tx_extra::parse` | one step per turn of the loop; the format is restated as an encoding, and the decoder is checked against it |
| `TxExtraFields` | its accessors | which of several fields counts |
| `Values`, `Transaction`, `Wire` | `hash.rs`, `hex.rs`, `fmt.rs`, `amount.rs`; `tx.rs` and the JSON of a transaction; the replies of `types.rs` | operators; a reply is the set of members a struct requires and of those with a default |
| `Decoding` | | the decoder and the conversions, over samples |
| `Sift` | the list `want` of `transactions`; the hashes a lookup by suffix keeps, and what a daemon knows of those asked for; the inputs that spend, the fields with a tag | `SelectSeq` in a form proofs can open |
| `CacheProofs`, `BlockSourceProofs`, `TxSourceProofs`, `RangeSourceProofs`, `RpcProofs`, `WebProofs` | | the theorems; `CacheProofs` is about `LruCache` and `RingSource`, `RpcProofs` about `RpcGate`, `RpcClient` and `Decoding`, `WebProofs` about `Paging` and about `Explorer`: the cache of the tip, the statuses of every route and the set a lookup by suffix is answered with |
| `ChainProofs`, `SiftProofs` | | lemmas: the chain keeps its types, holds no transaction twice and changes nothing buried; a sift keeps order and repeats nothing |
| `MC*` | | small instances for TLC |

`BlockSource`, `TxSource` and `RangeSource` extend `Chain`; `BlockSource` and
`RpcClient` extend `ChainError`. The sources do not embed
`LruCache`: an insert there keeps the new entry and *any* subset of the others,
which is more than an eviction pass may do (`EvictsOldestBatch`), so what holds of
them holds for every eviction order.

The composition is done twice, at two depths. The source modules take one method
apart and let the chain reorganise between its parts. `Explorer` composes all
handlers, the statuses of `ChainError`, and the cache of the tip: there a call is a
step, the chain only grows, and what a cache may return is stated in `Daemon`
by what the source modules show of it.

Operators marked "Fault:" in the modules are plausible mistakes. Nothing uses
them in the specification; each stands in for the definition it precedes to show
that the property named in `PROJECT.json` notices.

## Runs

| Run | Instance | What it shows |
|---|---|---|
| `lru` | 5 keys; a permanent cache of 4 that evicts 2 at a time, and an expiring one asked for capacity 0; 7 clock readings, 2 ticks | well typed and bounded, ages distinct, the oldest batch and nothing else is evicted, the pass never indexes past the ages, and the cache refines `RecencyList` |
| `block_reorg` | 2 lookups of one height by height and by 2 hashes, window 2, reorganisations up to 2, height 5 | the cache by height is never wrong however late a reply is; a hit answers what was asked |
| `tx_chunks` | 2 fetches of up to 3 hashes, one asked twice, in calls of 2; window 2, reorganisations of 1 | the cache is sound; each hash is listed once or missed, both only if it was asked for twice and its chunks were answered at different moments, which happens here; the order asked for is kept |
| `tx_window_edge` (violated) | reorganisations of exactly the window | transactions are cached one block early |
| `gate` | 4 request slots, 2 routes, handlers of stages 1, 2 or 3 calls; limit 2; 2 permits, or 0 asked for | permits conserved, no call outlives its request, every request ends, shutdown drains |
| `range_calm` | ranges of 2 and 3 (cut to 2), 2 transactions, window 2, reorganisations of 2 | rows are whole unless a reorganisation happened during the request; never a transaction twice |
| `range_mixed` (violated) | window and reorganisation 1 | with one, a row can mix two blocks |
| `ring_resolve` | two denominations, 5 transactions: a coinbase, a shared decoy, an overflowing offset sum, an empty ring, a repeated member | rings are whole and right or absent; no input is blanked by another |
| `paging` | heights to 9, limits 0 to 7, every page number of a 5-bit word | asks stay within the chain, a walk to the end sees every block, the recent window is the newest blocks |
| `client` | 6 calls in both conventions, a timeout of 2 ticks, a ceiling of 3 bytes, declared lengths 0 to 4 or none, frames of 1 to 3 | one deadline covers a call and ends it; the buffer stays below the ceiling whatever is declared; success is the daemon's own; 404 is said only on the daemon's word, 503 only for what may pass |
| `decoding` | every tx_extra blob of up to 6 bytes over 7 byte values; 2-bit digits, 5-bit varints, hashes of 2; bytes, texts, amounts, dates, ages, 128-bit values, transactions of both versions and all schemes, replies without any choice of members a release may leave out, tables and strips of up to 4 rows | the decoder decodes exactly the format and fails where it says; every conversion reads back; facts and fees are true or missing; replies of every release decode; lists keep their order |
| `api` | a request on any of 24 routes, with arguments that exist, do not, or are malformed, on five of them beside a request for the tip; 8 blocks and one more mined at any moment, which takes 3 of 4 pooled transactions; hashes of 4 bits, a band of 1 to 2 matches; calls that time out or find the daemon busy; daemons with and without the pool, the search by suffix and alternative chains | statuses lay the fault where it is; the private lookup serves whole sets within its band; every answer shows the chain of one moment; no tip is older than its time to live and one call |

**Why the bounds are enough.** The window is what the caches reason about, so the
chain is as long as a reorganisation of the window, a block buried by it and one
more. Two requests meet on every shared variable. The LRU instance lets a full
cache evict twice and refill. In `gate` three requests contend for one route with
room for two, and one stage asks for more calls than there are permits. The 5-bit
word wraps for pages a walk can reach. Varints of 5 bits in digits of 2 have a
short last digit, as 64 bits in digits of 7 do, so overflow, padding with zeros
and truncation all occur within three bytes. `MaxHeight`, `MaxClock`, `MaxTime`,
`MaxOutputs`, `MaxLen` and the samples of `decoding` are bounds of the model only.
Dates are those of the first four years, the turns of the century that is leap and
of the one that is not, and the end of year 9999. In `api` one block is mined:
every answer is joined from reads of at most two heights, so a second block would
separate no more of them. With the window of 2 the block at 5 and the coinbase of the
block at 6 are cached at the first tip and the block at 6 and the coinbase of that at 7
are not, and all are asked for, by the API, by a page and the second by a suffix it
shares with an older coinbase: moving either boundary of `Daemon`, or of `BlockTip` and
`TxTip`, by one refutes `AnswersShowTheChain`. The
pool has two transactions of the same second, one whose rings cannot be resolved
and one that cannot be read. Lengths of one and two characters, odd and even, fall
below, inside and above the band, before or after the block is mined. A second
request touches nothing of the first but the cache of the tip, so two at once
(`TipContended`) run only on the five routes of `BesideAnother`, which cover every way
of putting the tip together with another call; any other runs alone, on whatever tip
earlier requests left. The cache's
two ticks against one for a call let an old reply overtake a newer one. The two
kinds of failure are the transient one and the one that only `block` takes for
transient; `client` has them all. Checking for deadlock is off only in `decoding`:
a decoder that has returned has stopped.

**Symmetry** is over keys, requests, branches and transactions, none of which is
told apart by a constant of its run; the `gate` and `client` runs, which check
liveness, have none, nor have `api` and `decoding`.

**Fairness** is stated in `RpcGate` and `RpcClient` only. In `RpcGate` the runtime
polls a handler that is ready, tokio's semaphores serve waiters in order, so a free permit or a free place goes
to the first in line, and the RPC client's own deadline ends every call. The
request deadline is *not* assumed to fire: requests end without it. In `RpcClient`
time passes and the runtime polls a timer that is due; nothing is assumed of the
daemon, which may stall for ever. `EveryCallEnds` there is what `RpcGate` takes for
granted of a call. All other
modules are safety only.

## Proofs

All are checked by TLAPS for every value of the constants under the modules' own
`ASSUME`s: sets of the right kind, positive bounds, finitely many transactions, and
inputs that are sequences of key and coinbase inputs. A theorem that needs more says so,
and each such hypothesis is named below.

- **`CacheProofs`, the cache**: `TypeCorrect`, `CacheBounded`, `AgesDistinct`, `EvictionIsLru`,
  `EvictionNeverPanics`.
  The bound is not inductive alone. Room is made by dropping everything below the
  age at position `drop_count`; that is a batch of exactly `drop_count` only if
  ages are distinct, and ages are distinct only because each is below the clock.
  `IInv` is the conjunction, with a finite map. `CutIsExact` (the selected age has
  exactly n below it) and `EvictedBatch` carry the cardinalities. That the selected
  age exists at all, so that the code's indexing cannot panic, is `NthAgeExists`: the
  least number with more than n ages at or below it is an age, and the nth.
- **`CacheProofs`, the cache as a list**: `CacheIsRecencyList`: `LruCache` implements
  `RecencyList`, each step a step or a stutter of it. The mapping `ByUse` lists the
  entries by their ages: the i-th is the one with i ages at or below its own
  (`OrderIsByUse`). `IInv` makes the ages distinct, so there is exactly one such entry.
  A hit gives its entry the newest age and moves it to the back (`HitIsLookup`), a
  batch that goes is the front of the list (`EvictedIsRoom`), and what is stored comes
  last (`StoreIsLast`, `InsertIsPut`).
- **`CacheProofs`, the rings**: `RingsRight` and `SoundInputsResolved`, for any number of
  requests, inputs, denominations and evictions. In `RingIInv`, `Keyed` says that the
  daemon and the cache hold under a key the output of that key; `BatchOut` and `EachOut`
  say what a request under way knows, and asks, in each of the two ways; `Since` that
  the chain still has every index it had when the request began, whatever a
  reorganisation put there. The cache itself may lose any entry at any moment: what a
  batch has found is carried in the request, not read back.
- **`BlockSourceProofs`**: `TypeCorrect` and `HeightCacheCorrect`: if
  `MaxReorg <= Window` and the daemon serves main-chain blocks only, a block
  cached under a height is the chain's block there. The strengthening `Settled` says
  of every reply still under way what the cache says of its entries: if its depth is
  past the window, its block is on the chain at a height no reorganisation can reach
  any more. `BuriedStays` is the step that matters: burial only deepens.
  `HitsAnswer` needs neither hypothesis: `Named` says that what a cache holds under a
  height or a hash has that height or hash, and a reply answers its question (`RepliesAnswer`).
- **`TxSourceProofs`**: `TxCacheCorrect`: if `MaxReorg < Window`, a cached transaction
  is in the block the cache says, and that block is on the chain. The hypothesis is
  strict because the code compares confirmations with the window, and run
  `tx_window_edge` refutes the conclusion at equality. As above, `Settled` covers the
  replies of chunks already answered while others are awaited, and `Shaped` says that
  a fetch under way has finitely many of them. `EveryHashAccounted` and `OrderKept` hold
  of any window and chain, so their invariant, `Answering`, is another: each hash asked
  for is a hit or in a chunk, in one chunk only unless it was asked for twice
  (`Split`, from the arithmetic of `OneChunk` and what a sift picks), and each reply
  covers its chunk. `AnswerInOrder` turns that into places of the answer.
- **`RangeSourceProofs`**: `NeverTwice` holds of any window and chain: bodies may mix
  branches and claim a transaction twice, but each fetched one is dealt to one row.
  `CalmIsWhole`: if `MaxReorg <= Window`, every row of a request during which no
  reorganisation happened has all the transactions of the chain's block there. It joins
  three facts: bodies cached by height are the chain's (`Settled`), headers and bodies
  gathered so far still are (`Current`), and no two blocks of the chain hold one
  transaction (`Apart` of `ChainProofs`), without which dealing them out could leave a
  row short.
- **`RpcProofs`, a call**: `OneDeadline`, `BodyWithinCeiling`, `SuccessIsEarned`,
  `NotFoundIsEarned`, `RetryLaterEarned`. The last three speak of a result and of what
  was seen on the wire, which the code does not keep together: `Grounded`
  carries, for each kind of result, the answer it came from, and `HeadComes` that
  a body is read only under a head.
- **`RpcProofs`, the permits**: `PermitsAreConserved` and `CallsHaveRequests`, for any number of
  requests, routes and stages. Conservation is not inductive alone: a call granted
  twice would take a permit and add nothing to the set of calls in flight, so `Apart`
  says that no call is queued twice, or queued and in flight. A dropped handler
  sifts its calls out of the queue; that the rest keep their order and stay distinct
  is `SiftProofs`.
- **`RpcProofs`, what becomes of a reply**: `FieldsStandStill`, `FactsTrue`, `PruningSeen`,
  `RepliesDecoded`, `ListingsTrue`, the properties of `Decoding` that say what is shown
  is what was sent. The first is about steps: `ParseSound` says no more than that the
  decoder's state is one, since a field read later goes to the end of the list, where it
  is first of its tag only if there was none (`FirstStays`), and the pages' key may move
  only when it is the second (`CompatStays`). The others are functions of a
  sample, which never changes (`SampleKept`), and are proved of every sample: `JsonIs`
  lists the document of a transaction key by key, and each fact is read off it; sums of
  amounts, which the code saturates, are those of `Total` while they are in range
  (`SumOfIs`); the ranks of the rows of a table are 1 to n, each once, because the order
  of a sort is strict and total (`AheadIs`, `SortIs`); and a place on a strip is a share,
  rounded, which is all or nothing at the ends and grows with the age (`RoundedShare`).
  What they need of the samples is `SamplesAssumption`: transactions are such as
  `IsTransaction` admits, that is what the daemon holds, with sums that fit a word; rows
  carry their places; ages have a logarithm. `LogAssumption` asks only that the table of
  logarithms grows from 0.
- **`WebProofs`, the pages**: `PagesStayInChain`: for any word size, limit, page and height,
  pages ask only for blocks of the chain and at most the limit. The lemmas bound
  each of the three windows by itself. `WalksMissNothing` is about a walk of any length
  under a tip that moves. Its hypothesis, `Roomy`, keeps heights and limits below half a
  word, as those of a chain and limits up to 50 are of 2^64; beyond, the span of a page
  would wrap in the middle of a walk. What was seen does not reach down from the tip the
  walk began at, but from that of its last page, so `Walked` keeps that height, which no
  variable holds, under a quantifier, tied to the state by the page count or the page
  shown. The next page is counted from a tip no lower and so starts no lower than where
  that ends (`WalkGoesOn`), and the last page is as deep as its tip is high
  (`PagesRoundUp`, `HtmlBottom`).
- **`WebProofs`, the tip**: `TipsAreRecent`, an action property of the whole of `Explorer`,
  for any routes, requests, daemon and times; a handler's outcome is never expanded. The
  invariant compares heights with the past: what a call in flight has read is no lower
  than the chain was when it was asked for (`ReadSince`), and a stored tip is behind by
  the age of its entry and one call at most (`StoredSince`), whatever was stored before it.
  `TickKeeps` is the step that matters: calls, entries and the past grow older together,
  and the guard of `Tick`, the deadline of the client, bounds the calls.
- **`WebProofs`, the statuses**: `StatusesAreHonest`, for every route, chain, offer of the
  daemon and number of requests. A status says nothing of its cause by itself, so the
  invariant keeps the causes. `TalkIInv` adds to that of the tip that each
  reply a request holds was *heard* (`Heard`): the handler, given the replies before it,
  had come to a call, and the reply is one the daemon could make to that call at some
  height since the oldest tip a cache may have held, and no lower than any tip
  told before. That stands while the chain grows (`HeardStill`; its last part is what
  `RangeFails` needs). The rest is about one conversation, with no step in it: each
  handler is taken apart reply by reply, once (`BlockIs`, `TransactionIs`, `IndexIs`, ...:
  what it asks, and which status it ends in), each error is of nobody's fault, of what
  the daemon does not offer, or of what the chain did not hold (`ErrorsAre`), the
  API and the pages say which (`ApiFailure`, `PageFailure`), and what is absent now was
  absent before (`ChainGrows`). `EveryRoute` puts the routes together. What it needs of
  the constants: faults of the transport are errors of a call and never read as a block
  that is not there (`FaultsAssumption`); what a request may be is what the extractors
  make of a path or a query (`RoutesAssumption`); default limits are within their
  maximum, limits and heights within a word (`PageLimitsAssumption`, `ExplorerAssumption`).
- **`WebProofs`, the lookup by suffix**: `PrivateSetsServed`. The set a lookup shows is
  that of one moment, which no variable holds: `TimedIInv` adds to `TalkIInv` that each
  reply has a height it was given at (`Moment`), none before the request began, none
  before that of the reply before it. `Heard` is not enough here: its heights may
  be out of order, and a transaction found at one must still be mined when it is
  fetched. `PrivateSays` takes the handler apart with what it shows, and the rest is about
  the data. The request for the last whole bytes of a postfix misses nothing that ends in
  it (`SuffixMatches`); sifting the answer in whatever order it comes leaves each match
  once (`TxidsAre`, `MatchingIs`, `ListCounts`); what is fetched is all of it, and
  what is left out is what cannot be read (`FetchedAre`, `KeptAre`); a postfix that is
  served is one the rules let pass (`FitsIs`), and those count the chain rightly: monerod
  leaves the coinbases out of `tx_count`, so one for each block is added
  (`TransactionsCounted`). What it needs of the chain is `LedgerAssumption`: a block begins
  with its coinbase and has no other, no transaction is in the chain twice, and hashes have
  `HashLen` hex characters. The daemon may list what it finds in any order.

Where a proof needs induction over a sequence (`SiftProofs`, `Greatest` in
`TxSourceProofs`, the sums in `RpcProofs`) it takes the least number of a set of counterexamples.

Only model-checked: liveness (`EveryRequestEnds`, `ShutdownDrains`, `EveryCallEnds`),
since liveness under fairness is out of the prover's reach; of `decoding`, that what is
written is read back (`RoundTrip`, `DecodesTheFormat`, `ValuesReadBack`), where powers and
recursive functions compute both sides, of which the provers have no laws; and, of `api`,
that the bodies of answers show the chain (`AnswersShowTheChain`): the conversations of
`WebProofs` carry every status, and of the bodies only that of the lookup by suffix.
`RowIsOneBlock` is refuted, not proved.

## Where the code and its words disagree

Shown by a run:

1. `tx_window_edge`: transactions are cached at `confirmations >= REORG_WINDOW`,
   which is depth `REORG_WINDOW - 1`; blocks at depth `REORG_WINDOW`
   (`rpc_source.rs:313`).
2. `range_mixed`: a row of `blocks_in_range` may carry the header of one block and
   the transactions of another (`rpc_source.rs:416`).

Read in the code, not made into runs:

- The cache of outputs takes them however recent they are (`rpc_source.rs:588`), so
  an output a reorganisation replaced may be served after it. `RingSource` lets its
  cache hold what it was given and claims nothing across a reorganisation.
- A busy daemon that answers a call other than `block` with code -9 is reported as
  502: `is_transient` looks at the status `BUSY`, not at the code (`error.rs:129`).
- `block` caches by height whatever comes back with enough depth; `orphan_status` is
  not looked at (`rpc_source.rs:262`). A daemon that answers `get_block` for abandoned
  blocks leaves one under its height; `ServesOrphans` is FALSE in the run and in the
  theorem, and setting it TRUE refutes `HeightCacheSound`.
- `/api/search` answers 404 for a hash while the daemon is down (`handlers.rs:595`),
  where `envelope.rs:13` keeps 404 for what the chain does not hold; the HTML search
  redirects to `/tx` in the same case. `HonestStatuses` excepts the
  search by name (`Hides`).
- `/api/blocks` with `end` equal to the height passes the check of its range and ends
  in the daemon's refusal, 502, rather than 404 (`EndsAtHeight`).
- With `--postfix-min 1`, which the configuration takes, a postfix of one character
  is accepted by `check_postfix` and listed by the documentation page, but narrows to
  no whole byte and is answered 400 as not being hex, although "the documentation page
  cannot describe a rule the endpoint does not enforce" (`handlers.rs:862`).
  `PrivateServesTheSet` asks for two characters.
- "A usable band on every chain size" (`handlers.rs:783`) holds from
  `20 * 16^postfix_min` transactions on; below, no length is accepted. `limits()`
  does not see a configured range that accepts nothing.
- `main.rs:258` says "Fail at startup rather than on the first request"; a daemon that
  cannot be reached is logged as a warning and the server starts.
- `limits()` does not hold the request timeout against the RPC timeout.
- The block page counts only the transactions it can decode; the index counts all.
- `pseudo_outs_location` says `Absent` for an unknown scheme while `pseudo_outs` looks in
  both places for it (`types.rs:1552`).
- `/api/transactions/recent` under a tip up to the time to live old lists a transaction
  mined since neither in the pool nor in the window.
- A reply with `"error": null` is an error with code 0 (`client.rs:272`).
- A cached block keeps the depth of the moment it was fetched, and
  `handlers.rs:231` derives the current height from it; the cache by hash takes blocks
  of any depth and keeps them for ever. A cached transaction likewise keeps its
  confirmations (`handlers.rs:136`, `handlers.rs:989`). `AnswersShowTheChain` allows
  what that permits, each cache from its own boundary on.
- A hash asked for twice may be both listed and reported missed, if its two places fall
  into different chunks. A range asks so when bodies on either side of a
  reorganisation claim one transaction; nothing reads `missed` today. `FoundOrMissed`
  excepts it.
- `concurrency_limit` is applied by `Router::layer`, which wraps each route by itself:
  `--max-concurrent` bounds a route, not the server (`main.rs:150`,
  `config.rs:94`). `RpcGate` models it per route.
- `headers_range` cuts a span to 1000 silently while the configuration accepts
  wider ranges (`rpc_source.rs:338`). `RangeSource` models the cut.
- `tx_extra.rs` says a field takes two bytes at least; a lone `00` is a padding field.

## Not modelled

- Layout and wording: the templates and their escaping, the style sheet and its
  version hash, the members of answers that are copied from a reply without a
  condition, the JSON around them, log lines.
- The HTTP library's part: response headers, CORS, the body limit, decoding of query
  strings. A parameter is missing, a number or another text.
- Reading the command line (clap) and the daemon's URL (`url.rs`), once at start. The
  bounds they enforce are the assumptions on the constants.
- Reorganisations in `Explorer`: its answers are checked against a chain that grows,
  and what a reorganisation does to each call is in the source modules. A whole
  answer joined from calls on either side of one is not claimed to be of one chain.
- The test vectors and their helpers.

## Plan

What is left to do, in order:

1. Proofs: `AnswersShowTheChain`, for the routes whose bodies are not sums.
2. Reorganisations in `Explorer`, with what an answer may then mix named per route.
3. The members of answers that are copied, should one grow a condition.
