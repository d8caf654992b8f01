------------------------------ MODULE Explorer ------------------------------
(***************************************************************************)
(* The explorer put together: requests on every route, each running its    *)
(* handler (Handlers, Pages) call by call against a daemon whose chain     *)
(* grows in between and whose calls may fail (Daemon), and the cache of the*)
(* tip that all of them share (rpc_source.rs).                             *)
(*                                                                         *)
(* A call other than get_info is one step: what it returns is of the moment*)
(* it was read, and whatever happens before the handler goes on happens    *)
(* before its next call.  get_info is taken apart, because a reply that is *)
(* late is put in the cache late.                                          *)
(***************************************************************************)
EXTENDS Daemon, Windows, PageParts, Functions, TLC

CONSTANTS
  DefaultLimit,
  MAX_TRANSACTIONS_LIMIT,
  MAX_MEMPOOL_LIMIT,
  Requests,   \* how many are in progress at once
  Routes,     \* the requests each may be: a route with its arguments
  Offers,     \* what a daemon may offer of mempool, alt_chains, txids_loose
  Ttl,        \* time to live of the tip, in ticks
  CallMax,    \* the client's deadline for one call, in ticks
  MaxHeight   \* bound: the chain's height

Api == INSTANCE Handlers
Html == INSTANCE Pages

ASSUME ExplorerAssumption ==
  /\ Ttl \in Nat \ {0} /\ CallMax \in Nat
  /\ StartHeight \in Nat \ {0} /\ MaxHeight \in StartHeight..Len(Ledger) /\ MaxHeight < Word

ASSUME PageLimitsAssumption ==
  /\ MAX_TRANSACTIONS_LIMIT \in 0..(Word - 1) /\ DefaultLimit \in 0..MAX_TRANSACTIONS_LIMIT
  /\ MAX_MEMPOOL_LIMIT \in 0..(Word - 1)

\* What reading a path or a query makes of it.
IsParam(param) == param.given \in {"no", "text"} \/ (param.given = "number" /\ param.value \in Nat)
IsText(arg) == arg \in Seq(Range(arg))
IsId(arg) == arg.is \in {"text", "hash"} \/ (arg.is = "height" /\ arg.height \in Nat)

\* What a request may be; "unknown" stands for every path that is not served.
IsRequest(what) ==
  CASE what.route \in {"health", "unknown", "/", "/mempool", "/altblocks", "/api", "/api/version",
         "/api/networkinfo", "/api/transactions/recent"} -> TRUE
    [] what.route = "/api/transaction/private" -> IsText(what.arg)
    [] what.route \in {"/page", "/api/feeestimate"} -> IsParam(what.arg)
    [] what.route \in {"/api/transactions", "/api/mempool"} ->
         IsParam(what.arg.page) /\ IsParam(what.arg.limit)
    [] what.route = "/api/blocks" -> IsParam(what.arg.start) /\ IsParam(what.arg.end)
    [] what.route \in {"/block", "/tx", "/api/block", "/api/transaction", "/api/rawblock",
         "/api/rawtransaction", "/api/search"} -> IsId(what.arg)
    [] what.route = "/search" -> what.arg.is = "empty" \/ IsId(what.arg)
    [] OTHER -> FALSE

ASSUME RoutesAssumption == \A r \in Requests : \A what \in Routes[r] : IsRequest(what)

VARIABLES
  height,  \* of the daemon's chain
  seen,    \* the height at the start of this tick, of the one before, ...
  offers,  \* what this daemon offers
  tip,     \* the info cache, a set of at most one
  reqs     \* the requests in progress

vars == <<height, seen, offers, tip, reqs>>

\* `pending` is a call for the tip in flight, and its reply once it was read.
NewRequest(what) ==
  [what |-> what, got |-> <<>>, pending |-> {}, from |-> height, oldest |-> seen[Len(seen)]]

NoRequest == [what |-> [route |-> "idle"], got |-> <<>>, pending |-> {},
              from |-> StartHeight, oldest |-> StartHeight]

Init ==
  /\ height = StartHeight
  /\ seen = [i \in 1..(Ttl + CallMax) |-> StartHeight]
  /\ offers \in Offers
  /\ tip = {}
  /\ reqs = [r \in Requests |-> NoRequest]

-----------------------------------------------------------------------------
\* The routes.
Routed(what, got) ==
  CASE what.route = "idle" -> Answers(0, Empty, got)
    [] what.route = "health" -> Answers(200, Empty, got)
    [] what.route = "/api/version" -> Api!version(got)
    [] what.route = "/api/block" -> Api!block(what.arg, got)
    [] what.route = "/api/transaction" -> Api!transaction(what.arg, got)
    [] what.route = "/api/rawblock" -> Api!raw_block(what.arg, got)
    [] what.route = "/api/rawtransaction" -> Api!raw_transaction(what.arg, got)
    [] what.route = "/api/feeestimate" -> Api!fee_estimate(what.arg, got)
    [] what.route = "/api/transactions" -> Api!transactions(what.arg, got)
    [] what.route = "/api/mempool" -> Api!mempool(what.arg, got)
    [] what.route = "/api/search" -> Api!search(what.arg, got)
    [] what.route = "/api/networkinfo" -> Api!network_info(got)
    [] what.route = "/api/blocks" -> Api!blocks_range(what.arg.start, what.arg.end, got)
    [] what.route = "/api/transaction/private" -> Api!transaction_private(what.arg, got)
    [] what.route = "/api/transactions/recent" -> Api!transactions_recent(got)
    [] what.route = "/" -> Html!index(got)
    [] what.route = "/page" -> Html!page_at(what.arg, got)
    [] what.route = "/block" -> Html!block(what.arg, what.sort, what.dir, got)
    [] what.route = "/tx" -> Html!transaction(what.arg, got)
    [] what.route = "/mempool" -> Html!mempool(what.sort, what.dir, 5, got)
    [] what.route = "/altblocks" -> Html!alt_blocks(got)
    [] what.route = "/search" -> Html!search(what.arg, got)
    [] what.route = "/api" -> Html!api_docs(got)
    [] OTHER -> Html!not_found(got)

Outcome(r) == Routed(reqs[r].what, reqs[r].got)

Asking(r, op) == ~Outcome(r).done /\ (Outcome(r).call.op = "info" <=> op = "info")

\* A request with these replies, and this call for the tip in flight.
With(q, got, pending) ==
  [what |-> q.what, got |-> got, pending |-> pending, from |-> q.from, oldest |-> q.oldest]

Replied(r, reply) == [reqs EXCEPT ![r] = With(@, Append(@.got, reply), {})]

Begin(r) ==
  /\ reqs[r] = NoRequest
  /\ \E what \in Routes[r] : reqs' = [reqs EXCEPT ![r] = NewRequest(what)]
  /\ UNCHANGED <<height, seen, offers, tip>>

\* The answer is sent.
Finish(r) ==
  /\ reqs[r] # NoRequest /\ Outcome(r).done
  /\ reqs' = [reqs EXCEPT ![r] = NoRequest]
  /\ UNCHANGED <<height, seen, offers, tip>>

\* The chain source answers any other call, from the daemon or from a cache.
Call(r) ==
  /\ Asking(r, "other")
  /\ \E reply \in Replies(Outcome(r).call, height, offers) \cup Failures(Outcome(r).call) :
       reqs' = Replied(r, reply)
  /\ UNCHANGED <<height, seen, offers, tip>>

Fresh(entry) == entry.age < Ttl

\* Fault: a lookup makes the entry young again.
HitRenewed(entry) == [entry EXCEPT !.age = 0]

\* A lookup marks the entry used; its age still counts from when it was stored.
Hit(entry) == entry

TipHit(r) ==
  /\ Asking(r, "info") /\ reqs[r].pending = {}
  /\ \E entry \in tip : Fresh(entry) /\ tip' = {Hit(entry)} /\ reqs' = Replied(r, Ok(Info(entry.height)))
  /\ UNCHANGED <<height, seen, offers>>

\* An expired entry goes when it is found.
TipMiss(r) ==
  /\ Asking(r, "info") /\ reqs[r].pending = {}
  /\ ~\E entry \in tip : Fresh(entry)
  /\ tip' = {}
  /\ reqs' = [reqs EXCEPT ![r] = With(@, @.got, {[age |-> 0, read |-> {}]})]
  /\ UNCHANGED <<height, seen, offers>>

\* The daemon reads its tip.
TipRead(r) ==
  /\ \E p \in reqs[r].pending :
       p.read = {} /\ reqs' = [reqs EXCEPT ![r] = With(@, @.got, {[p EXCEPT !.read = {height}]})]
  /\ UNCHANGED <<height, seen, offers, tip>>

\* What comes is stored, whatever was stored meanwhile.
TipReceived(r) ==
  /\ \E p \in reqs[r].pending : \E read \in p.read :
       /\ tip' = {[height |-> read, age |-> 0]}
       /\ reqs' = Replied(r, Ok(Info(read)))
  /\ UNCHANGED <<height, seen, offers>>

TipFailed(r) ==
  /\ reqs[r].pending # {}
  /\ \E f \in Faults : reqs' = Replied(r, Err(f))
  /\ UNCHANGED <<height, seen, offers, tip>>

Mine ==
  /\ height < MaxHeight
  /\ height' = height + 1
  /\ UNCHANGED <<seen, offers, tip, reqs>>

\* No call outlives the client's deadline.
Tick ==
  /\ \A r \in Requests : \A p \in reqs[r].pending : p.age < CallMax
  /\ seen' = <<height>> \o SubSeq(seen, 1, Len(seen) - 1)
  /\ tip' = {[e EXCEPT !.age = IF @ < Ttl THEN @ + 1 ELSE @] : e \in tip}
  /\ reqs' = [r \in Requests |->
       With(reqs[r], reqs[r].got, {[p EXCEPT !.age = @ + 1] : p \in reqs[r].pending})]
  /\ UNCHANGED <<height, offers>>

Next ==
  \/ \E r \in Requests :
       \/ Begin(r) \/ Finish(r) \/ Call(r)
       \/ TipHit(r) \/ TipMiss(r) \/ TipRead(r) \/ TipReceived(r) \/ TipFailed(r)
  \/ Mine
  \/ Tick

Spec == Init /\ [][Next]_vars

-----------------------------------------------------------------------------
\* Statuses.

Answered(r) == reqs[r] # NoRequest /\ Outcome(r).done

What(r) == reqs[r].what
Body(r) == Outcome(r).body

IsApi(what) == what.route \in {
  "/api/version", "/api/block", "/api/transaction", "/api/rawblock", "/api/rawtransaction",
  "/api/feeestimate", "/api/transactions", "/api/mempool", "/api/search", "/api/networkinfo",
  "/api/blocks", "/api/transaction/private", "/api/transactions/recent"}

\* What a request names that is no height, hash, number or range served here.
Malformed(what) ==
  CASE what.route \in {"/api/block", "/api/rawblock", "/api/search", "/block", "/search"} ->
         what.arg.is = "text"
    [] what.route \in {"/api/transaction", "/api/rawtransaction", "/tx"} -> what.arg.is # "hash"
    [] what.route = "/page" -> what.arg.given # "number"
    [] what.route \in {"/api/transactions", "/api/mempool"} ->
         LET max == IF what.route = "/api/mempool" THEN MAX_MEMPOOL_LIMIT ELSE MAX_TRANSACTIONS_LIMIT
         IN  \/ "text" \in {what.arg.page.given, what.arg.limit.given}
             \/ what.arg.limit.given = "number" /\ what.arg.limit.value > max
    [] what.route = "/api/blocks" ->
         \/ {what.arg.start.given, what.arg.end.given} # {"number"}
         \/ what.arg.end.value - what.arg.start.value \notin 0..(Limits.block_range - 1)
    [] what.route = "unknown" -> TRUE
    [] OTHER -> FALSE

\* What a request names that a chain of this height does not hold.
NotThere(what, h) ==
  CASE what.route \in {"/api/block", "/api/rawblock", "/block"} -> ~HasBlock(what.arg, h)
    [] what.route \in {"/api/transaction", "/api/rawtransaction", "/tx"} -> ~Known(what.arg.hash, h)
    [] what.route = "/api/search" ->
         ~HasBlock(what.arg, h) /\ (what.arg.is = "height" \/ ~Known(what.arg.hash, h))
    [] what.route = "/api/blocks" -> what.arg.end.value > h
    [] OTHER -> FALSE

Errors(r) ==
  LET got == reqs[r].got IN {got[i].err : i \in {i \in DOMAIN got : ~got[i].ok}}

NotOffered == {NoMethod, RpcErr("Http", 404)}

Transient(f) == \E call \in {"block", "transactions"} : is_transient(call, f)

CannotBeRead(what) ==
  \/ /\ what.route \in {"/api/transaction", "/api/rawtransaction", "/tx"}
     /\ what.arg.hash \in Undecodable
  \/ /\ what.route = "/api/rawblock"
     /\ HasBlock(what.arg, height) /\ BlockAt(HeightOf(what.arg)).hash \in Undecodable

\* A search by hash answers 404 whatever ended its lookups (see the README).
Hides(r) ==
  /\ What(r).route = "/api/search" /\ What(r).arg.is = "hash"
  /\ Errors(r) \cap Faults # {} \/ What(r).arg.hash \in Undecodable

\* The last height asked for is the chain's height: the daemon is asked and refuses.
EndsAtHeight(r) == What(r).route = "/api/blocks" /\ PastTip \in Errors(r)

\* An answer's status says whose fault it is: 404 only for what the chain did not
\* hold when it was asked (at the oldest tip a cache may have held), 400 only for
\* what this explorer does not read or serve and before the daemon is asked, 5xx
\* only when a call failed, the daemon does not offer it or sent what cannot be
\* read; 501 and 503 name which (envelope.rs, on_chain_error, chain_error_page).
HonestStatuses ==
  \A r \in Requests : Answered(r) =>
    LET status == Outcome(r).status
        what   == What(r)
    IN  /\ Malformed(what) => status = IF IsApi(what) THEN 400 ELSE 404
        /\ status = 404 => Malformed(what) \/ Hides(r) \/ NotThere(what, reqs[r].oldest)
        /\ status = 400 /\ what.route # "/api/transaction/private" =>
             Malformed(what) /\ reqs[r].got = <<>>
        /\ status >= 500 =>
             Errors(r) \cap (Faults \cup NotOffered) # {} \/ CannotBeRead(what) \/ EndsAtHeight(r)
        /\ status = 501 => Errors(r) \cap NotOffered # {}
        /\ status = 503 => IF IsApi(what) THEN Errors(r) \cap NotOffered # {}
                           ELSE \E f \in Errors(r) : Transient(f)

-----------------------------------------------------------------------------
\* The tip.

\* Whatever calls cross and whichever is stored last, no handler is told a tip
\* older than the time to live and the longest call together: what it is told the
\* chain had reached since then (rpc_source.rs, info).
TipIsRecent == [][
  \A r \in Requests :
    /\ ~Outcome(r).done /\ Outcome(r).call.op = "info"
    /\ Len(reqs'[r].got) > Len(reqs[r].got) /\ reqs'[r].got[Len(reqs'[r].got)].ok
    => reqs'[r].got[Len(reqs'[r].got)].value.height \in seen[Len(seen)]..height]_vars

-----------------------------------------------------------------------------
\* The lookup by the end of a hash.

Readable(hashes) == {t \in hashes : t \notin Undecodable}
Ending(postfix, h) == {t \in Mined(h) : EndsWith(t, postfix)}
Hashes(list) == [i \in DOMAIN list |-> list[i].tx_hash]

\* How many transactions of a chain of this height end alike, on average.
Share(n, h) == Cardinality(Mined(h)) \div Radix^n

\* A postfix is answered with every transaction that ends in it and can be read,
\* each once, as of one moment since it was asked, and only if that was expected to
\* be a set of at least MIN_ANONYMITY_SET and is one of at most
\* MAX_PRIVATE_TX_MATCHES; the daemon learns of no postfix that is refused for its
\* form or for the set it names, and is told no more characters than were given
\* (handlers.rs, transaction_private).
PrivateServesTheSet ==
  \A r \in Requests : Answered(r) /\ What(r).route = "/api/transaction/private" =>
    LET postfix == What(r).arg
        got     == reqs[r].got
        share   == Share(Len(postfix), got[1].value.height)
        Serves  == /\ Len(postfix) \in Limits.postfix_min..Limits.postfix_max
                   /\ Len(postfix) > 1 /\ IsHexText(postfix)
                   /\ ~(share < MIN_ANONYMITY_SET \/ share > MAX_PRIVATE_TX_MATCHES)
        since   == reqs[r].from..height
    IN  /\ Outcome(r).status = 200 =>
             LET hashes == Hashes(Body(r).txs)
             IN  /\ IsInjective(hashes)
                 /\ \E w \in since : /\ Range(hashes) = Readable(Ending(postfix, w))
                                     /\ Cardinality(Ending(postfix, w)) <= MAX_PRIVATE_TX_MATCHES
        /\ Len(got) > 1 => Serves
        /\ Outcome(r).status = 400 =>
             ~Serves \/ \E w \in since : Cardinality(Ending(postfix, w)) > MAX_PRIVATE_TX_MATCHES
=============================================================================
