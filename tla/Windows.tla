------------------------------ MODULE Windows -------------------------------
(***************************************************************************)
(* Which heights a page or a window of blocks covers, given the tip:       *)
(* /api/transactions and /api/transactions/recent (handlers.rs) and the    *)
(* index pages (html.rs), in u64 arithmetic that wraps or saturates where  *)
(* the code says so.                                                       *)
(***************************************************************************)
EXTENDS Integers

CONSTANTS
  Word,       \* 2^64 in the code
  PerPage     \* PER_PAGE, 25 in the code

ASSUME WordAssumption == Word \in Nat /\ Word > 1
ASSUME PerPageAssumption == PerPage \in 1..(Word - 1)

-----------------------------------------------------------------------------
Lesser(m, n) == IF m < n THEN m ELSE n
Saturated(n) == IF n < 0 THEN 0 ELSE Lesser(n, Word - 1)

\* The bits of n read as an i64.
Signed(n) == IF 2 * n < Word THEN n ELSE n - Word

\* /api/transactions: the span wraps, so a huge page lands anywhere.
ApiStart(h, lim, p) ==
  LET span == (lim * ((p + 1) % Word)) % Word
  IN  Saturated(Signed((h - span) % Word))

\* Fault: the last height is not held to the chain.
ApiEndPastTip(h, start, lim) == Saturated(Saturated(start + lim) - 1)

ApiEnd(h, start, lim) == Saturated(Lesser(Saturated(start + lim), h) - 1)

ApiBlocks(h, lim, p) ==
  LET start == ApiStart(h, lim, p)
  IN  IF start < h /\ lim > 0 THEN start..ApiEnd(h, start, lim) ELSE {}

\* Fault: the last, partial page is not counted.
total_page_no_floor(h, lim) == IF lim = 0 THEN 0 ELSE h \div lim

total_page_no(h, lim) == IF lim = 0 THEN 0 ELSE (h + lim - 1) \div lim

\* The index pages, whose arithmetic saturates at block 0.
HtmlTop(h, p) == Saturated(Saturated(h - 1) - Saturated(p * PerPage))

HtmlBegin(top) == Saturated(top - Saturated(PerPage - 1))

HtmlBlocks(h, p) == HtmlBegin(HtmlTop(h, p))..HtmlTop(h, p)

recent_window(h, blocks) ==
  LET to == Saturated(h - 1) IN Saturated(to - Saturated(blocks - 1))..to
=============================================================================
