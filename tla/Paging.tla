------------------------------- MODULE Paging -------------------------------
(***************************************************************************)
(* Which blocks a numbered page holds: /api/transactions (handlers.rs), the*)
(* index pages (html.rs) and the window of /api/transactions/recent.       *)
(*                                                                         *)
(* Pages are counted back from a tip that moves, in u64 arithmetic that    *)
(* wraps or saturates where the code says so.  A client walks the pages of *)
(* a listing, one request each, and may ask for any page at all; the chain *)
(* grows between its requests.                                             *)
(***************************************************************************)
EXTENDS Windows, FiniteSets

CONSTANTS
  PageLimits,   \* `limit` parameters, at most MAX_TRANSACTIONS_LIMIT
  MaxBlocks     \* bound: blocks in the chain

ASSUME PageLimitAssumption == PageLimits \subseteq 0..(Word - 1)
ASSUME HeightAssumption == MaxBlocks \in 1..(Word - 1)

VARIABLES
  chain_height,  \* blocks in the chain
  listing,       \* what the client reads: "api", "html" or "recent"
  limit,         \* the limit it asks for
  page,          \* the page it has been given
  shown,         \* the heights on that page
  total,         \* total_page_no, as that page reports it
  covered,       \* every height shown on this walk
  since,         \* the height when the walk began
  walking        \* FALSE after a jump to some other page

pagingVars == <<chain_height, listing, limit, page, shown, total, covered, since, walking>>

-----------------------------------------------------------------------------
Blocks(l, lim, p) ==
  CASE l = "api" -> ApiBlocks(chain_height, lim, p)
    [] l = "html" -> HtmlBlocks(chain_height, p)
    [] l = "recent" -> recent_window(chain_height, lim)

Show(l, lim, p) ==
  /\ listing' = l /\ limit' = lim /\ page' = p
  /\ shown' = Blocks(l, lim, p)
  /\ total' = total_page_no(chain_height, lim)
  /\ UNCHANGED chain_height

PagingInit ==
  /\ chain_height = 1
  /\ listing = "html" /\ limit = PerPage /\ page = 0 /\ shown = {0} /\ total = 1
  /\ covered = {0} /\ since = 1 /\ walking = TRUE

\* A walk begins with page 0.
FirstPage(l, lim) ==
  /\ Show(l, lim, 0)
  /\ covered' = Blocks(l, lim, 0)
  /\ since' = chain_height
  /\ walking' = TRUE

\* A client of the API stops at the page count it was last told; a reader of
\* the index stops at block 0.
AtEnd ==
  CASE listing = "api" -> page + 1 >= total
    [] listing = "html" -> 0 \in shown
    [] listing = "recent" -> TRUE

NextPage ==
  /\ walking /\ ~AtEnd
  /\ Show(listing, limit, page + 1)
  /\ covered' = covered \cup Blocks(listing, limit, page + 1)
  /\ UNCHANGED <<since, walking>>

\* Any page number that parses as a u64.
Jump(l, lim, p) ==
  /\ Show(l, lim, p)
  /\ covered' = {} /\ since' = chain_height /\ walking' = FALSE

Grow ==
  /\ chain_height < MaxBlocks
  /\ chain_height' = chain_height + 1
  /\ UNCHANGED <<listing, limit, page, shown, total, covered, since, walking>>

PagingNext ==
  \/ \E lim \in PageLimits : FirstPage("api", lim)
  \/ FirstPage("html", PerPage)
  \/ \E lim \in PageLimits \ {0} : FirstPage("recent", lim)
  \/ NextPage
  \/ \E lim \in PageLimits, p \in 0..(Word - 1) : Jump("api", lim, p)
  \/ \E p \in 0..(Word - 1) : Jump("html", PerPage, p)
  \/ Grow

PagingSpec == PagingInit /\ [][PagingNext]_pagingVars

-----------------------------------------------------------------------------

\* Whatever page is asked for, the daemon is asked for blocks it has, and for
\* no more of them than the limit: the wrapped and saturated arithmetic of
\* transactions, render_page and recent_window never leaves the chain.
AsksWithinChain ==
  /\ shown \subseteq 0..(chain_height - 1)
  /\ Cardinality(shown) <= limit

\* The blocks a listing promises to whoever walks it to its end: all there
\* were when the walk began, or the newest `limit` of them.
Promised ==
  IF listing = "recent" THEN (since - Lesser(limit, since))..(since - 1) ELSE 0..(since - 1)

\* A client that walks a listing to its end has seen every block it promised,
\* although the tip moved under the walk ("never sees the oldest blocks",
\* total_page_no; recent_window).
WalkSeesEveryBlock == walking /\ AtEnd /\ limit > 0 => Promised \subseteq covered
=============================================================================
