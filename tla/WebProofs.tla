----------------------------- MODULE WebProofs ------------------------------
(***************************************************************************)
(* Proofs about what explorer-web shows: which blocks a page holds (Paging,*)
(* for every word size, limit, page and height), how old a tip a handler   *)
(* may be told, whose fault an answer's status says it is, and which set a *)
(* lookup by the end of a hash is answered with (Explorer, for every       *)
(* daemon, route and number of requests).                                  *)
(***************************************************************************)
EXTENDS Explorer, Paging, SiftProofs, FiniteSetTheorems, FunctionTheorems, TLAPS

\* What the chain is taken to be is used where it is named.
HIDE LedgerAssumption

\* What each listing may be asked with.
AskedWith(l, lim) ==
  \/ l = "api" /\ lim \in PageLimits
  \/ l = "html" /\ lim = PerPage
  \/ l = "recent" /\ lim \in PageLimits \ {0}

\* The inductive invariant: what the client holds was shown for a listing and
\* a limit that go together, and AsksWithinChain.
PagesIInv ==
  /\ chain_height \in 1..MaxBlocks
  /\ page \in Nat
  /\ AskedWith(listing, limit)
  /\ AsksWithinChain

-----------------------------------------------------------------------------
\* Saturated keeps every integer within a word.
LEMMA SaturatedInWord ==
  ASSUME NEW n \in Int
  PROVE  Saturated(n) \in 0..(Word - 1)
BY WordAssumption DEF Saturated, Lesser

\* An interval within the chain of at most lim blocks is within bounds.
LEMMA IntervalBounds ==
  ASSUME NEW lo \in Nat, NEW hi \in Int, NEW h \in Int, NEW lim \in Nat,
         hi < h, hi - lo < lim
  PROVE  lo..hi \subseteq 0..(h - 1) /\ Cardinality(lo..hi) <= lim
<1>1. lo..hi \subseteq 0..(h - 1)
  OBVIOUS
<1>2. Cardinality(lo..hi) = IF lo > hi THEN 0 ELSE hi - lo + 1
  BY FS_Interval
<1> QED
  BY <1>1, <1>2

\* The first height of an API page is a word, whatever wrapped on the way.
LEMMA ApiStartInWord ==
  ASSUME NEW h \in 1..MaxBlocks, NEW lim \in PageLimits, NEW p \in Nat
  PROVE  ApiStart(h, lim, p) \in 0..(Word - 1)
<1> DEFINE turn == (p + 1) % Word
           span == (lim * turn) % Word
<1>1. turn \in 0..(Word - 1)
  BY WordAssumption
<1>2. lim \in Nat
  BY PageLimitAssumption, WordAssumption
<1>3. lim * turn \in Int
  BY <1>1, <1>2
<1>4. span \in 0..(Word - 1)
  BY <1>3, WordAssumption
<1>5. (h - span) % Word \in 0..(Word - 1)
  BY <1>4, WordAssumption, HeightAssumption
<1>6. Signed((h - span) % Word) \in Int
  BY <1>5, WordAssumption DEF Signed
<1> QED
  BY <1>6, SaturatedInWord DEF ApiStart

\* /api/transactions asks for blocks of the chain, at most `limit` of them.
LEMMA ApiWithin ==
  ASSUME NEW h \in 1..MaxBlocks, NEW lim \in PageLimits, NEW p \in Nat
  PROVE  ApiBlocks(h, lim, p) \subseteq 0..(h - 1) /\ Cardinality(ApiBlocks(h, lim, p)) <= lim
<1> DEFINE start == ApiStart(h, lim, p)
           end == ApiEnd(h, start, lim)
<1>1. start \in 0..(Word - 1) /\ lim \in Nat /\ h \in Nat /\ h < Word /\ h > 0
  BY ApiStartInWord, PageLimitAssumption, WordAssumption, HeightAssumption
<1>2. CASE start < h /\ lim > 0
  <2>1. end \in Int /\ end < h /\ end - start < lim
    BY <1>1, <1>2, WordAssumption DEF ApiEnd, Saturated, Lesser
  <2> HIDE DEF start, end
  <2>2. start..end \subseteq 0..(h - 1) /\ Cardinality(start..end) <= lim
    BY <1>1, <2>1, IntervalBounds
  <2> QED
    BY <1>2, <2>2 DEF ApiBlocks, start, end
<1>3. CASE ~(start < h /\ lim > 0)
  BY <1>1, <1>3, FS_EmptySet DEF ApiBlocks
<1> QED
  BY <1>2, <1>3

\* An index page asks for blocks of the chain, at most PER_PAGE of them.
LEMMA HtmlWithin ==
  ASSUME NEW h \in 1..MaxBlocks, NEW p \in Nat
  PROVE  HtmlBlocks(h, p) \subseteq 0..(h - 1) /\ Cardinality(HtmlBlocks(h, p)) <= PerPage
<1> DEFINE back == Saturated(p * PerPage)
           top == HtmlTop(h, p)
           begin == HtmlBegin(top)
<1>1. p * PerPage \in Int
  BY PerPageAssumption, WordAssumption
<1>2. back \in 0..(Word - 1)
  BY <1>1, SaturatedInWord
<1> HIDE DEF back
<1>3. top \in 0..(h - 1)
  BY <1>2, HeightAssumption, WordAssumption DEF HtmlTop, Saturated, Lesser, back
<1> HIDE DEF top
<1>4. begin \in Nat /\ top - begin < PerPage
  BY <1>3, HeightAssumption, PerPageAssumption, WordAssumption DEF HtmlBegin, Saturated, Lesser
<1> HIDE DEF begin
<1>5. begin..top \subseteq 0..(h - 1) /\ Cardinality(begin..top) <= PerPage
  BY <1>3, <1>4, IntervalBounds, PerPageAssumption
<1> QED
  BY <1>5 DEF HtmlBlocks, top, begin

\* The recent window asks for blocks of the chain, at most as many as set.
LEMMA RecentWithin ==
  ASSUME NEW h \in 1..MaxBlocks, NEW lim \in PageLimits \ {0}
  PROVE  recent_window(h, lim) \subseteq 0..(h - 1) /\ Cardinality(recent_window(h, lim)) <= lim
<1> DEFINE to == Saturated(h - 1)
           from == Saturated(to - Saturated(lim - 1))
<1>1. lim \in 1..(Word - 1)
  BY PageLimitAssumption, WordAssumption
<1>2. to \in Int /\ to < h /\ from \in Nat /\ to - from < lim
  BY <1>1, HeightAssumption, WordAssumption DEF Saturated, Lesser
<1> HIDE DEF to, from
<1>3. from..to \subseteq 0..(h - 1) /\ Cardinality(from..to) <= lim
  BY <1>1, <1>2, IntervalBounds
<1> QED
  BY <1>3 DEF recent_window, to, from

\* A page shown now for a listing and a limit that go together keeps PagesIInv.
LEMMA ShowKeeps ==
  ASSUME PagesIInv, NEW l, NEW lim, AskedWith(l, lim), NEW p \in Nat, Show(l, lim, p)
  PROVE  PagesIInv'
<1>1. chain_height \in 1..MaxBlocks
  BY DEF PagesIInv
<1>2. Blocks(l, lim, p) \subseteq 0..(chain_height - 1) /\ Cardinality(Blocks(l, lim, p)) <= lim
  <2>1. CASE l = "api" /\ lim \in PageLimits
    BY <1>1, <2>1, ApiWithin DEF Blocks
  <2>2. CASE l = "html" /\ lim = PerPage
    BY <1>1, <2>2, HtmlWithin DEF Blocks
  <2>3. CASE l = "recent" /\ lim \in PageLimits \ {0}
    BY <1>1, <2>3, RecentWithin DEF Blocks
  <2> QED
    BY <2>1, <2>2, <2>3 DEF AskedWith
<1>3. AsksWithinChain'
  BY <1>2 DEF Show, AsksWithinChain
<1> QED
  BY <1>1, <1>3 DEF PagesIInv, Show, AskedWith

\* Init establishes the invariant.
LEMMA PagesInit ==
  PagingInit => PagesIInv
<1> SUFFICES ASSUME PagingInit PROVE PagesIInv
  OBVIOUS
<1>1. Cardinality({0}) = 1
  BY FS_Singleton
<1> QED
  BY <1>1, HeightAssumption, PerPageAssumption, WordAssumption
     DEF PagingInit, PagesIInv, AskedWith, AsksWithinChain

\* Every step keeps the invariant.
LEMMA PagesNext ==
  PagesIInv /\ [PagingNext]_pagingVars => PagesIInv'
<1> SUFFICES ASSUME PagesIInv, [PagingNext]_pagingVars PROVE PagesIInv'
  OBVIOUS
<1>1. ASSUME NEW lim \in PageLimits, FirstPage("api", lim) PROVE PagesIInv'
  BY <1>1, ShowKeeps DEF FirstPage, AskedWith
<1>2. CASE FirstPage("html", PerPage)
  BY <1>2, ShowKeeps DEF FirstPage, AskedWith
<1>3. ASSUME NEW lim \in PageLimits \ {0}, FirstPage("recent", lim) PROVE PagesIInv'
  BY <1>3, ShowKeeps DEF FirstPage, AskedWith
<1>4. CASE NextPage
  <2>1. PICK l, lim, p : l = listing /\ lim = limit /\ p = page + 1
    OBVIOUS
  <2>2. p \in Nat /\ AskedWith(l, lim)
    BY <2>1 DEF PagesIInv
  <2>3. Show(l, lim, p)
    BY <1>4, <2>1 DEF NextPage
  <2> QED
    BY <2>2, <2>3, ShowKeeps
<1>5. ASSUME NEW lim \in PageLimits, NEW p \in 0..(Word - 1), Jump("api", lim, p) PROVE PagesIInv'
  BY <1>5, ShowKeeps, WordAssumption DEF Jump, AskedWith
<1>6. ASSUME NEW p \in 0..(Word - 1), Jump("html", PerPage, p) PROVE PagesIInv'
  BY <1>6, ShowKeeps, WordAssumption DEF Jump, AskedWith
<1>7. CASE Grow
  <2>1. chain_height' \in 1..MaxBlocks /\ shown \subseteq 0..(chain_height' - 1)
    BY <1>7, HeightAssumption DEF Grow, PagesIInv, AsksWithinChain
  <2> QED
    BY <1>7, <2>1 DEF Grow, PagesIInv, AskedWith, AsksWithinChain
<1>8. CASE UNCHANGED pagingVars
  BY <1>8 DEF pagingVars, PagesIInv, AskedWith, AsksWithinChain
<1> QED
  BY <1>1, <1>2, <1>3, <1>4, <1>5, <1>6, <1>7, <1>8 DEF PagingNext

\* The daemon is only ever asked for blocks it has, and for no more than the
\* limit, whatever page number a client sends and however the sums wrap.
THEOREM PagesStayInChain == PagingSpec => []AsksWithinChain
<1>1. PagesIInv => AsksWithinChain
  BY DEF PagesIInv
<1> QED
  BY PagesInit, PagesNext, <1>1, PTL DEF PagingSpec
-----------------------------------------------------------------------------
\* Heights and limits stay below half a word, as those of a chain and limits
\* of at most MAX_TRANSACTIONS_LIMIT do of 2^64: a page walked to is counted
\* back without wrapping.
Roomy ==
  /\ 2 * MaxBlocks <= Word
  /\ \A lim \in PageLimits : 2 * lim <= Word

\* Pages 0 to p, the last of them counted from tip h, reach down to here.
Depth(h, lim, p) == h - lim * (p + 1)

\* What the client has read, if the page it holds was counted from tip h.
ReadAt(h) ==
  /\ total = total_page_no(h, limit)
  /\ listing = "html" => shown = HtmlBlocks(h, page)
  /\ \A k \in 0..(since - 1) : k >= Depth(h, limit, page) => k \in covered

\* The inductive invariant of a walk.  The tip moves between two pages, so
\* what was seen reaches down from the tip of the last page, not of the first.
Walked ==
  walking /\ limit > 0 =>
    IF listing = "recent" THEN Promised \subseteq covered
                          ELSE \E h \in since..chain_height : ReadAt(h)

WalkIInv ==
  /\ chain_height \in 1..MaxBlocks
  /\ page \in Nat
  /\ AskedWith(listing, limit)
  /\ since \in 1..chain_height
  /\ Walked
-----------------------------------------------------------------------------
\* The page count is the height over the limit, rounded up.
LEMMA PagesRoundUp ==
  ASSUME NEW h \in Nat, NEW lim \in Nat \ {0}
  PROVE  /\ total_page_no(h, lim) \in Nat
         /\ h <= lim * total_page_no(h, lim)
         /\ lim * total_page_no(h, lim) < h + lim
<1> DEFINE n == h + lim - 1
           q == n \div lim
<1>1. n \in Nat /\ lim > 0
  OBVIOUS
<1>2. q \in Nat /\ n = lim * q + (n % lim) /\ n % lim \in 0..(lim - 1)
  BY <1>1
<1>3. lim * q \in Nat
  BY <1>2
<1>4. total_page_no(h, lim) = q
  BY DEF total_page_no
<1> HIDE DEF q
<1>5. h <= lim * q /\ lim * q < h + lim
  BY <1>2, <1>3
<1> QED
  BY <1>2, <1>4, <1>5

\* A difference below zero by less than a word wraps once.
LEMMA WrapsOnce ==
  ASSUME NEW n \in Int, n < 0, n + Word >= 0
  PROVE  n % Word = n + Word
<1> DEFINE q == n \div Word
           r == n % Word
<1>1. q \in Int /\ r \in 0..(Word - 1) /\ n = Word * q + r /\ Word \in Nat /\ Word > 1
  BY WordAssumption
<1> HIDE DEF q
<1>2. ~(q >= 0)
  <2> SUFFICES ASSUME q >= 0 PROVE FALSE
    OBVIOUS
  <2>1. Word * q >= 0
    BY <1>1
  <2> QED
    BY <1>1, <2>1
<1>3. ~(q <= -2)
  <2> SUFFICES ASSUME q <= -2 PROVE FALSE
    OBVIOUS
  <2>1. Word * (-2 - q) >= 0
    BY <1>1
  <2>2. Word * (-2 - q) = Word * (-2) - Word * q
    BY <1>1
  <2> QED
    BY <1>1, <2>1, <2>2
<1>4. q = -1
  BY <1>1, <1>2, <1>3
<1> QED
  BY <1>1, <1>4

\* A page that has not wrapped starts its depth below the tip, or at block 0.
LEMMA ApiStartUnwrapped ==
  ASSUME Roomy, NEW h \in 1..MaxBlocks, NEW lim \in PageLimits \ {0}, NEW p \in Nat,
         lim * (p + 1) < h + lim
  PROVE  ApiStart(h, lim, p) = IF Depth(h, lim, p) < 0 THEN 0 ELSE Depth(h, lim, p)
<1> DEFINE s == lim * (p + 1)
<1>1. lim \in Nat /\ lim > 0 /\ 2 * lim <= Word /\ 2 * MaxBlocks <= Word
  BY PageLimitAssumption, WordAssumption DEF Roomy
<1>2. s \in Nat /\ p + 1 <= s
  BY <1>1
<1>3. s < h + lim
  OBVIOUS
<1>4. s < Word /\ p + 1 < Word
  BY <1>1, <1>2, <1>3, h \in Nat, h <= MaxBlocks, HeightAssumption, WordAssumption
<1>5. (p + 1) % Word = p + 1
  BY <1>4, WordAssumption
<1>6. s % Word = s
  BY <1>2, <1>4, WordAssumption
<1>7. Depth(h, lim, p) = h - s
  BY DEF Depth
<1>8. ApiStart(h, lim, p) = Saturated(Signed((h - s) % Word))
  BY <1>5, <1>6 DEF ApiStart
<1> HIDE DEF s
<1>9. h \in Nat /\ h < Word /\ 2 * h <= Word
  BY <1>1, HeightAssumption, WordAssumption
<1>10. CASE h - s >= 0
  <2>1. (h - s) % Word = h - s
    BY <1>2, <1>9, <1>10, WordAssumption
  <2>2. s > 0
    BY <1>2
  <2>3. Signed(h - s) = h - s
    BY <1>2, <1>9, <2>2, WordAssumption DEF Signed
  <2> QED
    BY <1>2, <1>7, <1>8, <1>9, <1>10, <2>1, <2>3, WordAssumption DEF Saturated, Lesser
<1>11. CASE h - s < 0
  <2>1. (h - s) + Word \in 0..(Word - 1)
    BY <1>2, <1>4, <1>9, <1>11, WordAssumption
  <2>2. (h - s) % Word = (h - s) + Word
    BY <1>2, <1>9, <1>11, <2>1, WrapsOnce
  <2>3. 2 * ((h - s) + Word) >= Word
    BY <1>1, <1>2, <1>3, <1>9, HeightAssumption, WordAssumption
  <2>4. Signed((h - s) + Word) = h - s
    BY <1>2, <1>9, <2>3, WordAssumption DEF Signed
  <2> QED
    BY <1>2, <1>7, <1>8, <1>9, <1>11, <2>2, <2>4, WordAssumption DEF Saturated
<1> QED
  BY <1>2, <1>9, <1>10, <1>11

\* A page of the API that was walked to holds every height between its own
\* depth and the page's before it.
LEMMA ApiCovers ==
  ASSUME Roomy, NEW h \in 1..MaxBlocks, NEW lim \in PageLimits \ {0}, NEW p \in Nat,
         lim * (p + 1) < h + lim,
         NEW k \in 0..(h - 1), k >= Depth(h, lim, p), k < Depth(h, lim, p) + lim
  PROVE  k \in ApiBlocks(h, lim, p)
<1> DEFINE d == Depth(h, lim, p)
           start == ApiStart(h, lim, p)
<1>1. lim \in Nat /\ lim > 0 /\ 2 * lim <= Word /\ 2 * MaxBlocks <= Word
  BY PageLimitAssumption, WordAssumption DEF Roomy
<1>2. d \in Int
  BY <1>1 DEF Depth
<1>3. start = IF d < 0 THEN 0 ELSE d
  BY ApiStartUnwrapped
<1>4. ApiBlocks(h, lim, p) = IF start < h /\ lim > 0 THEN start..ApiEnd(h, start, lim) ELSE {}
  BY DEF ApiBlocks
<1>5. k >= d /\ k < d + lim
  OBVIOUS
<1> HIDE DEF d, start
<1>6. start \in 0..k
  BY <1>2, <1>3, <1>5, h \in Int
<1>7. start + lim < Word /\ h < Word
  BY <1>1, <1>6, HeightAssumption, WordAssumption
<1>8. k <= ApiEnd(h, start, lim) /\ ApiEnd(h, start, lim) \in Int
  BY <1>1, <1>2, <1>3, <1>5, <1>6, <1>7, HeightAssumption, WordAssumption
     DEF ApiEnd, Saturated, Lesser
<1> QED
  BY <1>1, <1>4, <1>6, <1>8

\* So does a page of the index, and its top needs no bound.
LEMMA HtmlCovers ==
  ASSUME NEW h \in 1..MaxBlocks, NEW p \in Nat,
         NEW k \in 0..(h - 1), k >= Depth(h, PerPage, p), k < Depth(h, PerPage, p) + PerPage
  PROVE  k \in HtmlBlocks(h, p)
<1> DEFINE s == p * PerPage
<1>1. PerPage \in Nat /\ PerPage > 0 /\ PerPage < Word
  BY PerPageAssumption, WordAssumption
<1>2. s \in Nat
  BY <1>1
<1>3. Depth(h, PerPage, p) = h - s - PerPage
  BY <1>1 DEF Depth
<1>4. HtmlTop(h, p) = Saturated(Saturated(h - 1) - Saturated(s))
  BY DEF HtmlTop
<1> HIDE DEF s
<1>5. h \in Nat /\ h < Word
  BY HeightAssumption, WordAssumption
<1>6. HtmlTop(h, p) = h - 1 - s
  BY <1>1, <1>2, <1>3, <1>4, <1>5, WordAssumption DEF Saturated, Lesser
<1>7. k \in HtmlBegin(h - 1 - s)..(h - 1 - s)
  BY <1>1, <1>2, <1>3, <1>5, <1>6, WordAssumption DEF HtmlBegin, Saturated, Lesser
<1> QED
  BY <1>6, <1>7 DEF HtmlBlocks

\* An index page with block 0 on it is as deep as the chain.
LEMMA HtmlBottom ==
  ASSUME NEW h \in 1..MaxBlocks, NEW p \in Nat, 0 \in HtmlBlocks(h, p)
  PROVE  Depth(h, PerPage, p) <= 0
<1> DEFINE s == p * PerPage
<1>1. PerPage \in Nat /\ PerPage > 0 /\ PerPage < Word
  BY PerPageAssumption, WordAssumption
<1>2. s \in Nat
  BY <1>1
<1>3. Depth(h, PerPage, p) = h - s - PerPage
  BY <1>1 DEF Depth
<1>4. HtmlTop(h, p) = Saturated(Saturated(h - 1) - Saturated(s))
  BY DEF HtmlTop
<1> HIDE DEF s
<1>5. h \in Nat /\ h < Word
  BY HeightAssumption, WordAssumption
<1>6. HtmlTop(h, p) = IF h - 1 - s < 0 THEN 0 ELSE h - 1 - s
  BY <1>2, <1>4, <1>5, WordAssumption DEF Saturated, Lesser
<1>7. HtmlBegin(HtmlTop(h, p)) <= 0
  BY <1>1, <1>2, <1>5, <1>6, WordAssumption DEF HtmlBlocks, HtmlBegin, Saturated, Lesser
<1>8. HtmlTop(h, p) - PerPage + 1 <= 0
  BY <1>1, <1>2, <1>5, <1>6, <1>7, WordAssumption DEF HtmlBegin, Saturated, Lesser
<1> QED
  BY <1>1, <1>2, <1>3, <1>5, <1>6, <1>8
\* A limit a listing is asked with is a word.
LEMMA LimitIsWord ==
  ASSUME NEW l, NEW lim, AskedWith(l, lim)
  PROVE  lim \in 0..(Word - 1) /\ lim \in Nat
<1>1. lim \in PageLimits \/ lim = PerPage
  BY DEF AskedWith
<1>2. lim \in 0..(Word - 1)
  <2>1. CASE lim \in PageLimits
    BY <2>1, PageLimitAssumption
  <2>2. CASE lim = PerPage
    BY <2>2, PerPageAssumption, WordAssumption
  <2> QED
    BY <1>1, <2>1, <2>2
<1> QED
  BY <1>2, WordAssumption

\* A walk begins with a page that reaches down from the tip it began at.
LEMMA WalkBegins ==
  ASSUME Roomy, WalkIInv, NEW l, NEW lim, AskedWith(l, lim), FirstPage(l, lim)
  PROVE  WalkIInv'
<1>1. chain_height \in 1..MaxBlocks /\ chain_height \in Nat /\ chain_height' = chain_height /\ since' = chain_height
  BY HeightAssumption DEF WalkIInv, FirstPage, Show
<1>2. listing' = l /\ limit' = lim /\ page' = 0 /\ walking'
  BY DEF FirstPage, Show
<1>3. covered' = Blocks(l, lim, 0) /\ shown' = Blocks(l, lim, 0) /\ total' = total_page_no(chain_height, lim)
  BY DEF FirstPage, Show
<1>4. lim \in Nat
  BY LimitIsWord
<1>5. CASE l = "recent"
  <2>1. lim \in 1..(Word - 1)
    <3>1. lim \in 0..(Word - 1) /\ lim # 0
      BY <1>5, LimitIsWord DEF AskedWith
    <3> QED
      BY <3>1, WordAssumption
  <2>2. (chain_height - Lesser(lim, chain_height))..(chain_height - 1) \subseteq recent_window(chain_height, lim)
    BY <1>1, <2>1, HeightAssumption, WordAssumption DEF recent_window, Saturated, Lesser
  <2>3. Promised' \subseteq covered'
    BY <1>1, <1>2, <1>3, <1>5, <2>2 DEF Promised, Blocks
  <2> QED
    BY <1>1, <1>2, <1>5, <2>3 DEF WalkIInv, Walked, AskedWith
<1>6. CASE l # "recent" /\ lim > 0
  <2>1. Depth(chain_height, lim, 0) = chain_height - lim
    BY <1>4 DEF Depth
  <2>2. ASSUME NEW k \in 0..(chain_height - 1), k >= Depth(chain_height, lim, 0)
        PROVE  k \in Blocks(l, lim, 0)
    <3>1. k < Depth(chain_height, lim, 0) + lim
      BY <1>1, <1>4, <2>1
    <3>2. CASE l = "api" /\ lim \in PageLimits
      <4>1. lim \in PageLimits \ {0} /\ lim * (0 + 1) < chain_height + lim
        BY <1>1, <1>4, <1>6, <3>2
      <4>2. k \in ApiBlocks(chain_height, lim, 0)
        BY <1>1, <2>2, <3>1, <4>1, ApiCovers
      <4> QED
        BY <3>2, <4>2 DEF Blocks
    <3>3. CASE l = "html" /\ lim = PerPage
      <4>1. k \in HtmlBlocks(chain_height, 0)
        BY <1>1, <2>2, <3>1, <3>3, HtmlCovers
      <4> QED
        BY <3>3, <4>1 DEF Blocks
    <3> QED
      BY <1>6, <3>2, <3>3 DEF AskedWith
  <2>3. ReadAt(chain_height)'
    BY <1>1, <1>2, <1>3, <2>2 DEF ReadAt, Blocks, Depth, total_page_no, HtmlBlocks, HtmlTop, HtmlBegin
  <2>4. chain_height' \in since'..chain_height'
    BY <1>1
  <2>5. \E h \in since'..chain_height' : ReadAt(h)'
    BY <1>1, <2>3, <2>4
  <2> QED
    BY <1>1, <1>2, <1>6, <2>5 DEF WalkIInv, Walked, AskedWith
<1>7. CASE l # "recent" /\ ~(lim > 0)
  BY <1>1, <1>2, <1>7 DEF WalkIInv, Walked, AskedWith
<1> QED
  BY <1>5, <1>6, <1>7

\* The next page starts no lower than where what was seen ends.
LEMMA WalkGoesOn ==
  ASSUME Roomy, WalkIInv, NextPage
  PROVE  WalkIInv'
<1>1. chain_height \in 1..MaxBlocks /\ chain_height \in Nat /\ chain_height' = chain_height /\ since' = since
  BY HeightAssumption DEF WalkIInv, NextPage, Show
<1>2. since \in 1..chain_height /\ page \in Nat /\ AskedWith(listing, limit) /\ Walked
  BY DEF WalkIInv
<1>3. walking /\ walking' = walking /\ ~AtEnd /\ listing # "recent"
  BY DEF NextPage, AtEnd
<1>4. listing' = listing /\ limit' = limit /\ page' = page + 1
  BY DEF NextPage, Show
<1>5. /\ covered' = covered \cup Blocks(listing, limit, page + 1)
      /\ shown' = Blocks(listing, limit, page + 1)
      /\ total' = total_page_no(chain_height, limit)
  BY DEF NextPage, Show
<1>6. limit \in Nat
  BY <1>2, LimitIsWord
<1>7. CASE limit > 0
  <2>1. PICK h \in since..chain_height : ReadAt(h)
    BY <1>2, <1>3, <1>7 DEF Walked
  <2>2. h \in 1..MaxBlocks /\ h \in Nat /\ h <= chain_height
    BY <1>1, <1>2, <2>1, HeightAssumption
  <2>3. Depth(chain_height, limit, page + 1) \in Int /\ Depth(h, limit, page) \in Int
    BY <1>1, <1>2, <1>6, <2>2 DEF Depth
  <2>4. Depth(chain_height, limit, page + 1) = chain_height - limit * (page + 1) - limit
    BY <1>1, <1>2, <1>6 DEF Depth
  <2>5. Depth(h, limit, page) <= Depth(chain_height, limit, page + 1) + limit
    BY <1>1, <1>2, <1>6, <2>2, <2>4 DEF Depth
  <2>6. ASSUME NEW k \in 0..(since - 1), k >= Depth(chain_height, limit, page + 1)
        PROVE  k \in covered'
    <3>1. CASE k >= Depth(h, limit, page)
      BY <1>5, <2>1, <3>1 DEF ReadAt
    <3>2. CASE k < Depth(h, limit, page)
      <4>1. k \in 0..(chain_height - 1) /\ k < Depth(chain_height, limit, page + 1) + limit
        BY <1>1, <1>2, <1>6, <2>3, <2>5, <3>2
      <4>2. CASE listing = "api" /\ limit \in PageLimits
        <5>1. page + 1 < total
          <6>1. total \in Nat
            BY <1>6, <1>7, <2>1, <2>2, PagesRoundUp DEF ReadAt
          <6> QED
            BY <1>2, <1>3, <4>2, <6>1 DEF AtEnd
        <5>2. total \in Nat /\ limit * total < h + limit
          BY <1>6, <1>7, <2>1, <2>2, PagesRoundUp DEF ReadAt
        <5>3. limit * ((page + 1) + 1) <= limit * total
          <6>1. total - ((page + 1) + 1) \in Nat
            BY <1>2, <5>1, <5>2
          <6>2. limit * (total - ((page + 1) + 1)) >= 0
            BY <1>6, <6>1
          <6> QED
            BY <1>2, <1>6, <5>2, <6>2
        <5>4. limit * ((page + 1) + 1) < chain_height + limit
          BY <1>1, <1>2, <1>6, <2>2, <5>2, <5>3
        <5>5. k \in ApiBlocks(chain_height, limit, page + 1)
          BY <1>1, <1>2, <1>7, <2>6, <4>1, <4>2, <5>4, ApiCovers
        <5> QED
          BY <1>5, <4>2, <5>5 DEF Blocks
      <4>3. CASE listing = "html" /\ limit = PerPage
        <5>1. k \in HtmlBlocks(chain_height, page + 1)
          BY <1>1, <1>2, <2>6, <4>1, <4>3, HtmlCovers
        <5> QED
          BY <1>5, <4>3, <5>1 DEF Blocks
      <4> QED
        BY <1>2, <1>3, <4>2, <4>3 DEF AskedWith
    <3> QED
      BY <2>3, <3>1, <3>2
  <2>7. ReadAt(chain_height)'
    BY <1>1, <1>4, <1>5, <2>6 DEF ReadAt, Blocks, Depth, total_page_no, HtmlBlocks, HtmlTop, HtmlBegin
  <2>8. \E t \in since'..chain_height' : ReadAt(t)'
    BY <1>1, <1>2, <2>7
  <2> QED
    BY <1>1, <1>2, <1>3, <1>4, <2>8 DEF WalkIInv, Walked, AskedWith
<1>8. CASE ~(limit > 0)
  BY <1>1, <1>2, <1>4, <1>8 DEF WalkIInv, Walked, AskedWith
<1> QED
  BY <1>7, <1>8
\* Init establishes the invariant: one block, on the only page there is.
LEMMA WalkInit ==
  PagingInit => WalkIInv
<1> SUFFICES ASSUME PagingInit PROVE WalkIInv
  OBVIOUS
<1>1. PerPage \in Nat /\ PerPage > 0
  BY PerPageAssumption, WordAssumption
<1>2. total_page_no(1, PerPage) = 1
  <2>1. /\ total_page_no(1, PerPage) \in Nat
        /\ 1 <= PerPage * total_page_no(1, PerPage)
        /\ PerPage * total_page_no(1, PerPage) < 1 + PerPage
    BY <1>1, PagesRoundUp
  <2> DEFINE t == total_page_no(1, PerPage)
  <2> HIDE DEF t
  <2>2. t \in Nat /\ 1 <= PerPage * t /\ PerPage * t < 1 + PerPage
    BY <2>1 DEF t
  <2>3. t # 0
    BY <1>1, <2>2
  <2>4. ~(t >= 2)
    <3> SUFFICES ASSUME t >= 2 PROVE FALSE
      OBVIOUS
    <3>1. PerPage * (t - 2) >= 0
      BY <1>1, <2>2
    <3>2. PerPage * (t - 2) = PerPage * t - PerPage * 2
      BY <1>1, <2>2
    <3> QED
      BY <1>1, <2>2, <3>1, <3>2
  <2> QED
    BY <2>2, <2>3, <2>4 DEF t
<1>3. HtmlBlocks(1, 0) = {0}
  BY <1>1, PerPageAssumption, WordAssumption DEF HtmlBlocks, HtmlTop, HtmlBegin, Saturated, Lesser
<1>4. ReadAt(1)
  BY <1>2, <1>3 DEF PagingInit, ReadAt
<1> QED
  BY <1>4, HeightAssumption DEF PagingInit, WalkIInv, Walked, AskedWith

\* A block on top changes nothing that was read.
LEMMA WalkOutlivesGrowth ==
  ASSUME WalkIInv, Grow
  PROVE  WalkIInv'
<1>1. /\ chain_height \in 1..MaxBlocks /\ since \in 1..chain_height /\ page \in Nat
      /\ AskedWith(listing, limit) /\ Walked
  BY DEF WalkIInv
<1>2. /\ chain_height' = chain_height + 1 /\ chain_height' \in 1..MaxBlocks
      /\ UNCHANGED <<listing, limit, page, shown, total, covered, since, walking>>
  BY <1>1, HeightAssumption DEF Grow
<1>3. since' \in 1..chain_height'
  BY <1>1, <1>2, HeightAssumption
<1>4. Walked'
  <2>1. CASE walking /\ limit > 0 /\ listing # "recent"
    <3>1. PICK h \in since..chain_height : ReadAt(h)
      BY <1>1, <2>1 DEF Walked
    <3>2. h \in since'..chain_height'
      BY <1>1, <1>2, <3>1, HeightAssumption
    <3>3. ReadAt(h)'
      BY <1>2, <3>1 DEF ReadAt
    <3> QED
      BY <1>2, <2>1, <3>2, <3>3 DEF Walked
  <2>2. CASE ~(walking /\ limit > 0 /\ listing # "recent")
    BY <1>1, <1>2, <2>2 DEF Walked, Promised
  <2> QED
    BY <2>1, <2>2
<1> QED
  BY <1>1, <1>2, <1>3, <1>4 DEF WalkIInv, AskedWith

\* Every step keeps the invariant of a walk.
LEMMA WalkNext ==
  ASSUME Roomy
  PROVE  WalkIInv /\ [PagingNext]_pagingVars => WalkIInv'
<1> SUFFICES ASSUME WalkIInv, [PagingNext]_pagingVars PROVE WalkIInv'
  OBVIOUS
<1>1. ASSUME NEW lim \in PageLimits, FirstPage("api", lim) PROVE WalkIInv'
  BY <1>1, WalkBegins DEF AskedWith
<1>2. CASE FirstPage("html", PerPage)
  BY <1>2, WalkBegins DEF AskedWith
<1>3. ASSUME NEW lim \in PageLimits \ {0}, FirstPage("recent", lim) PROVE WalkIInv'
  BY <1>3, WalkBegins DEF AskedWith
<1>4. CASE NextPage
  BY <1>4, WalkGoesOn
<1>5. ASSUME NEW l, NEW lim, AskedWith(l, lim), NEW p \in 0..(Word - 1), Jump(l, lim, p)
      PROVE  WalkIInv'
  <2>1. chain_height \in 1..MaxBlocks /\ chain_height' = chain_height /\ since' = chain_height /\ ~walking' /\ p \in Nat
    BY <1>5, WordAssumption DEF WalkIInv, Jump, Show
  <2>2. listing' = l /\ limit' = lim /\ page' = p
    BY <1>5 DEF Jump, Show
  <2>3. since' \in 1..chain_height'
    BY <2>1, HeightAssumption
  <2> QED
    BY <1>5, <2>1, <2>2, <2>3 DEF WalkIInv, Walked, AskedWith
<1>6. ASSUME NEW lim \in PageLimits, NEW p \in 0..(Word - 1), Jump("api", lim, p) PROVE WalkIInv'
  BY <1>5, <1>6 DEF AskedWith
<1>7. ASSUME NEW p \in 0..(Word - 1), Jump("html", PerPage, p) PROVE WalkIInv'
  BY <1>5, <1>7 DEF AskedWith
<1>8. CASE Grow
  BY <1>8, WalkOutlivesGrowth
<1>9. CASE UNCHANGED pagingVars
  BY <1>9 DEF pagingVars, WalkIInv, Walked, AskedWith, Promised, ReadAt
<1> QED
  BY <1>1, <1>2, <1>3, <1>4, <1>6, <1>7, <1>8, <1>9 DEF PagingNext

\* At the end of a walk the last page is as deep as the tip it was counted
\* from, so nothing that was there at its beginning is left unseen.
LEMMA WalkEnds ==
  ASSUME WalkIInv
  PROVE  WalkSeesEveryBlock
<1> SUFFICES ASSUME walking, AtEnd, limit > 0 PROVE Promised \subseteq covered
  BY DEF WalkSeesEveryBlock
<1>1. CASE listing = "recent"
  BY <1>1 DEF WalkIInv, Walked
<1>2. CASE listing # "recent"
  <2>1. PICK h \in since..chain_height : ReadAt(h)
    BY <1>2 DEF WalkIInv, Walked
  <2>2. h \in 1..MaxBlocks /\ h \in Nat /\ since \in Nat /\ since <= h /\ page \in Nat
    BY <2>1, HeightAssumption DEF WalkIInv
  <2>3. AskedWith(listing, limit) /\ limit \in Nat
    BY LimitIsWord DEF WalkIInv
  <2>4. Depth(h, limit, page) <= 0
    <3>1. CASE listing = "api"
      <4>1. total \in Nat /\ h <= limit * total
        BY <2>1, <2>2, <2>3, PagesRoundUp DEF ReadAt
      <4>2. total <= page + 1
        BY <2>2, <3>1, <4>1 DEF AtEnd
      <4>3. limit * ((page + 1) - total) >= 0
        BY <2>2, <2>3, <4>1, <4>2
      <4>4. limit * ((page + 1) - total) = limit * (page + 1) - limit * total
        BY <2>2, <2>3, <4>1
      <4> QED
        BY <2>2, <2>3, <4>1, <4>3, <4>4 DEF Depth
    <3>2. CASE listing = "html"
      <4>1. limit = PerPage /\ 0 \in HtmlBlocks(h, page)
        BY <2>1, <2>3, <3>2 DEF AskedWith, AtEnd, ReadAt
      <4> QED
        BY <2>2, <4>1, HtmlBottom
    <3> QED
      BY <1>2, <2>3, <3>1, <3>2 DEF AskedWith
  <2>5. ASSUME NEW k \in 0..(since - 1) PROVE k \in covered
    <3>1. Depth(h, limit, page) \in Int
      BY <2>2, <2>3 DEF Depth
    <3>2. k >= Depth(h, limit, page)
      BY <2>2, <2>4, <3>1
    <3> QED
      BY <2>1, <3>2 DEF ReadAt
  <2> QED
    BY <1>2, <2>5 DEF Promised
<1> QED
  BY <1>1, <1>2

\* Whoever walks a listing to its end has seen every block it promised when
\* the walk began, however the tip moved between two of its pages, for every
\* limit, page size and chain that stays below half a word.
THEOREM WalksMissNothing ==
  ASSUME Roomy
  PROVE  PagingSpec => []WalkSeesEveryBlock
<1>1. WalkIInv /\ [PagingNext]_pagingVars => WalkIInv'
  BY WalkNext
<1>2. WalkIInv => WalkSeesEveryBlock
  BY WalkEnds
<1> QED
  BY WalkInit, <1>1, <1>2, PTL DEF PagingSpec

-----------------------------------------------------------------------------
(***************************************************************************)
(* The cache of the tip.  A height that is read is compared with the past: *)
(* seen[1] is the height at the start of this tick, seen[2] at the start of*)
(* the one before, and so on.                                              *)
(* A call in flight has read no less than was there when it was asked for  *)
(* (ReadSince), so what is stored is behind by its own age and one call at *)
(* most (StoredSince), whichever of several calls is stored last.          *)
(***************************************************************************)
USE ExplorerAssumption

Ages == Ttl + CallMax

\* A request is a record of its members, and its replies are a sequence.
Record(q) ==
  /\ q = [what |-> q.what, got |-> q.got, pending |-> q.pending, from |-> q.from, oldest |-> q.oldest]
  /\ \E S : q.got \in Seq(S)

\* A call for the tip that is in flight read it, if it has, since it was asked for.
ReadSince(p) ==
  /\ p = [age |-> p.age, read |-> p.read]
  /\ p.age \in 0..CallMax
  /\ \A h \in p.read : h \in seen[p.age + 1]..height

\* So a stored tip is as old as its entry and one call, at most.
StoredSince(e) ==
  /\ e = [height |-> e.height, age |-> e.age]
  /\ e.age \in 0..Ttl
  /\ Fresh(e) => e.height \in seen[CallMax + 1 + e.age]..height

\* The past, which never shrinks.
Remembered ==
  /\ height \in Nat
  /\ seen \in [1..Ages -> Nat]
  /\ seen[1] <= height
  /\ \A i, j \in 1..Ages : i <= j => seen[j] <= seen[i]

\* The inductive invariant.
TipIInv ==
  /\ Remembered
  /\ \A e \in tip : StoredSince(e)
  /\ reqs = [r \in Requests |-> reqs[r]]
  /\ \A r \in Requests : Record(reqs[r]) /\ \A p \in reqs[r].pending : ReadSince(p)

\* Init establishes the invariant: nothing stored, nothing in flight.
LEMMA TipInit == Init => TipIInv
<1> SUFFICES ASSUME Init PROVE TipIInv
  OBVIOUS
<1>1. StartHeight \in Nat /\ Ages \in Nat /\ Ages >= 1
  BY DEF Ages
<1>2. Remembered
  BY <1>1 DEF Init, Remembered, Ages
<1>3. Record(NoRequest) /\ NoRequest.pending = {}
  <2>1. <<>> \in Seq({})
    OBVIOUS
  <2> QED BY <2>1 DEF Record, NoRequest
<1> QED BY <1>2, <1>3 DEF Init, TipIInv

\* While the heights of the past stand and the chain grows at most, what was read
\* stays recent.
LEMMA StillRead ==
  ASSUME Remembered, height' \in Nat, height' >= height, UNCHANGED seen, NEW p, ReadSince(p)
  PROVE  ReadSince(p)'
<1>1. p.age + 1 \in 1..Ages
  BY DEF ReadSince, Ages
<1>2. seen[p.age + 1] \in Nat
  BY <1>1 DEF Remembered
<1> QED BY <1>2 DEF ReadSince, Remembered

\* And so does what was stored.
LEMMA StillStored ==
  ASSUME Remembered, height' \in Nat, height' >= height, UNCHANGED seen, NEW e, StoredSince(e)
  PROVE  StoredSince(e)'
<1> SUFFICES ASSUME Fresh(e) PROVE e.height \in seen[CallMax + 1 + e.age]..height'
  BY DEF StoredSince
<1>1. CallMax + 1 + e.age \in 1..Ages
  BY DEF StoredSince, Fresh, Ages
<1>2. seen[CallMax + 1 + e.age] \in Nat
  BY <1>1 DEF Remembered
<1> QED BY <1>2 DEF StoredSince, Remembered

\* A reply keeps a request a record, with nothing in flight.
LEMMA RepliedIs ==
  ASSUME reqs = [q \in Requests |-> reqs[q]], \A q \in Requests : Record(reqs[q]),
         NEW r \in Requests, NEW reply, reqs' = Replied(r, reply)
  PROVE  /\ reqs' = [q \in Requests |-> reqs'[q]]
         /\ \A q \in Requests : q # r => reqs'[q] = reqs[q]
         /\ Record(reqs'[r]) /\ reqs'[r].pending = {}
         /\ Len(reqs'[r].got) = Len(reqs[r].got) + 1
         /\ reqs'[r].got[Len(reqs'[r].got)] = reply
<1> DEFINE old == reqs[r].got
<1>1. PICK S : old \in Seq(S)
  BY DEF Record
<1>2. old \in Seq(S \cup {reply})
  BY <1>1
<1> HIDE DEF old
<1>3. /\ Append(old, reply) \in Seq(S \cup {reply})
      /\ Len(Append(old, reply)) = Len(old) + 1
      /\ Append(old, reply)[Len(old) + 1] = reply
  BY <1>2
<1>4. /\ reqs' = [q \in Requests |-> reqs'[q]]
      /\ \A q \in Requests : q # r => reqs'[q] = reqs[q]
      /\ reqs'[r] = With(reqs[r], Append(old, reply), {})
  BY DEF Replied, old
<1>5. Record(reqs'[r]) /\ reqs'[r].pending = {} /\ reqs'[r].got = Append(old, reply)
  BY <1>3, <1>4 DEF With, Record
<1> QED BY <1>3, <1>4, <1>5 DEF old

\* A tick shifts the past by one.
LEMMA PastShifts ==
  ASSUME Remembered, Tick
  PROVE  /\ seen' \in [1..Ages -> Nat]
         /\ seen'[1] = height
         /\ \A i \in 2..Ages : seen'[i] = seen[i - 1]
<1>1. Ages \in Nat /\ Ages >= 1
  BY DEF Ages
<1>2. seen \in Seq(Nat) /\ Len(seen) = Ages
  BY <1>1 DEF Remembered
<1> DEFINE rest == SubSeq(seen, 1, Ages - 1)
<1>3. rest \in Seq(Nat) /\ Len(rest) = Ages - 1 /\ \A i \in 1..(Ages - 1) : rest[i] = seen[i]
  BY <1>1, <1>2
<1> HIDE DEF rest
<1>4. seen' = <<height>> \o rest
  BY <1>2 DEF Tick, rest
<1>5. <<height>> \in Seq(Nat) /\ Len(<<height>>) = 1 /\ <<height>>[1] = height
  BY DEF Remembered
<1>6. /\ <<height>> \o rest \in Seq(Nat) /\ Len(<<height>> \o rest) = Ages
      /\ \A i \in 1..Ages : (<<height>> \o rest)[i] = IF i <= 1 THEN <<height>>[i] ELSE rest[i - 1]
  BY <1>1, <1>3, <1>5
<1>7. seen' \in [1..Ages -> Nat]
  BY <1>4, <1>6, LenProperties
<1>8. seen'[1] = height
  BY <1>1, <1>4, <1>5, <1>6
<1>9. ASSUME NEW i \in 2..Ages PROVE seen'[i] = seen[i - 1]
  BY <1>1, <1>3, <1>4, <1>6
<1> QED BY <1>7, <1>8, <1>9

\* Reads and entries grow a tick older together with the past.
LEMMA TickKeeps ==
  ASSUME TipIInv, Tick
  PROVE  TipIInv'
<1>1. Ages \in Nat /\ Ages >= 1 /\ height \in Nat /\ height' = height
  BY DEF Ages, TipIInv, Remembered, Tick
<1>2. /\ seen' \in [1..Ages -> Nat]
      /\ seen'[1] = height
      /\ \A i \in 2..Ages : seen'[i] = seen[i - 1]
  BY PastShifts DEF TipIInv
<1>3. Remembered'
  <2>1. \A i \in 1..Ages : seen[i] \in Nat /\ seen[i] <= height
    BY <1>1 DEF TipIInv, Remembered
  <2>2. ASSUME NEW i \in 1..Ages, NEW j \in 1..Ages, i <= j PROVE seen'[j] <= seen'[i]
    <3>1. CASE i = 1
      <4>1. CASE j = 1
        BY <1>1, <1>2, <3>1, <4>1
      <4>2. CASE j # 1
        <5>1. j \in 2..Ages /\ j - 1 \in 1..Ages
          BY <1>1, <4>2
        <5> QED BY <1>2, <2>1, <3>1, <5>1
      <4> QED BY <4>1, <4>2
    <3>2. CASE i # 1
      <4>1. /\ i \in 2..Ages /\ j \in 2..Ages
            /\ i - 1 \in 1..Ages /\ j - 1 \in 1..Ages /\ i - 1 <= j - 1
        BY <1>1, <2>2, <3>2
      <4>2. seen[j - 1] <= seen[i - 1]
        BY <4>1 DEF TipIInv, Remembered
      <4> QED BY <1>2, <4>1, <4>2
    <3> QED BY <3>1, <3>2
  <2> QED BY <1>1, <1>2, <2>2 DEF Remembered
<1>4. ASSUME NEW p, ReadSince(p), p.age < CallMax
      PROVE  ReadSince([p EXCEPT !.age = @ + 1])'
  <2> DEFINE n == [p EXCEPT !.age = @ + 1]
  <2>1. n = [age |-> p.age + 1, read |-> p.read]
    BY <1>4 DEF ReadSince
  <2>2. p.age \in Nat /\ p.age + 1 \in 0..CallMax /\ p.age + 2 \in 2..Ages
    BY <1>4 DEF ReadSince, Ages
  <2>3. seen'[p.age + 2] = seen[p.age + 1]
    <3>1. (p.age + 2) - 1 = p.age + 1
      BY <2>2
    <3> QED BY <1>2, <2>2, <3>1
  <2> HIDE DEF n
  <2>4. n.age = p.age + 1 /\ n.read = p.read /\ n.age + 1 = p.age + 2
    BY <2>1, <2>2
  <2>5. \A h \in n.read : h \in seen'[n.age + 1]..height'
    BY <1>1, <1>4, <2>3, <2>4 DEF ReadSince
  <2>6. n = [age |-> n.age, read |-> n.read] /\ n.age \in 0..CallMax
    BY <2>1, <2>2
  <2> QED BY <2>5, <2>6 DEF ReadSince, n
<1>5. ASSUME NEW e, StoredSince(e)
      PROVE  StoredSince([e EXCEPT !.age = IF @ < Ttl THEN @ + 1 ELSE @])'
  <2> DEFINE n == [e EXCEPT !.age = IF @ < Ttl THEN @ + 1 ELSE @]
  <2>1. n = [height |-> e.height, age |-> IF e.age < Ttl THEN e.age + 1 ELSE e.age]
    BY <1>5 DEF StoredSince
  <2> HIDE DEF n
  <2>2. n.height = e.height /\ n.age = (IF e.age < Ttl THEN e.age + 1 ELSE e.age)
    BY <2>1
  <2>3. n = [height |-> n.height, age |-> n.age] /\ n.age \in 0..Ttl
    BY <1>5, <2>1 DEF StoredSince
  <2>4. ASSUME Fresh(n) PROVE n.height \in seen'[CallMax + 1 + n.age]..height'
    <3>1. Fresh(e) /\ n.age = e.age + 1 /\ CallMax + 1 + n.age \in 2..Ages
      BY <1>5, <2>2, <2>4 DEF StoredSince, Fresh, Ages
    <3>2. seen'[CallMax + 1 + n.age] = seen[CallMax + 1 + e.age]
      <4>1. (CallMax + 1 + n.age) - 1 = CallMax + 1 + e.age
        BY <1>5, <3>1 DEF StoredSince
      <4> QED BY <1>2, <3>1, <4>1
    <3> QED BY <1>1, <1>5, <2>2, <3>1, <3>2 DEF StoredSince
  <2> QED BY <2>3, <2>4 DEF StoredSince, Fresh, n
<1>6. \A e \in tip' : StoredSince(e)'
  BY <1>5 DEF TipIInv, Tick
<1>7. reqs' = [r \in Requests |-> reqs'[r]]
  BY DEF Tick
<1>8. ASSUME NEW r \in Requests
      PROVE  Record(reqs'[r]) /\ \A p \in reqs'[r].pending : ReadSince(p)'
  <2> DEFINE q == reqs[r]
  <2>1. reqs'[r] = With(q, q.got, {[p EXCEPT !.age = @ + 1] : p \in q.pending})
    BY DEF Tick
  <2>2. Record(q) /\ \A p \in q.pending : ReadSince(p) /\ p.age < CallMax
    BY DEF TipIInv, Tick
  <2> HIDE DEF q
  <2>3. Record(reqs'[r])
    BY <2>1, <2>2 DEF Record, With
  <2>4. reqs'[r].pending = {[p EXCEPT !.age = @ + 1] : p \in q.pending}
    BY <2>1 DEF With
  <2> QED BY <1>4, <2>2, <2>3, <2>4
<1> QED BY <1>3, <1>6, <1>7, <1>8 DEF TipIInv

\* A step of one request, at a height that stands still.
LEMMA OneMoves ==
  ASSUME TipIInv, NEW r \in Requests, NEW q, reqs' = [reqs EXCEPT ![r] = q],
         Record(q), \A p \in q.pending : ReadSince(p),
         UNCHANGED <<height, seen>>, \A e \in tip' : StoredSince(e)
  PROVE  TipIInv'
<1>1. Remembered'
  BY DEF TipIInv, Remembered
<1>2. /\ reqs' = [s \in Requests |-> reqs'[s]]
      /\ \A s \in Requests : reqs'[s] = IF s = r THEN q ELSE reqs[s]
  BY DEF TipIInv
<1>3. \A s \in Requests : Record(reqs'[s]) /\ \A p \in reqs'[s].pending : ReadSince(p)
  BY <1>2 DEF TipIInv
<1>4. /\ \A p : ReadSince(p) => ReadSince(p)'
      /\ \A e : StoredSince(e) => StoredSince(e)'
  BY DEF ReadSince, StoredSince
<1> QED BY <1>1, <1>2, <1>3, <1>4 DEF TipIInv

\* What a call in flight has read is recent enough to be stored, or told.
LEMMA ReadIsRecent ==
  ASSUME Remembered, NEW p, ReadSince(p), NEW h \in p.read
  PROVE  h \in seen[CallMax + 1]..height /\ h \in seen[Ages]..height
<1>1. /\ p.age + 1 \in 1..Ages /\ CallMax + 1 \in 1..Ages /\ Ages \in 1..Ages
      /\ p.age + 1 <= CallMax + 1 /\ CallMax + 1 <= Ages
  BY DEF ReadSince, Ages
<1>2. /\ seen[CallMax + 1] <= seen[p.age + 1] /\ seen[Ages] <= seen[CallMax + 1]
      /\ seen[p.age + 1] \in Nat /\ seen[CallMax + 1] \in Nat /\ seen[Ages] \in Nat
  BY <1>1 DEF Remembered
<1>3. h \in seen[p.age + 1]..height
  BY DEF ReadSince
<1> QED BY <1>2, <1>3 DEF Remembered

\* So is a stored tip, as long as it is fresh.
LEMMA FreshIsRecent ==
  ASSUME Remembered, NEW e, StoredSince(e), Fresh(e)
  PROVE  e.height \in seen[Ages]..height
<1>1. /\ CallMax + 1 + e.age \in 1..Ages /\ Ages \in 1..Ages
      /\ CallMax + 1 + e.age <= Ages
  BY DEF StoredSince, Fresh, Ages
<1>2. /\ seen[Ages] <= seen[CallMax + 1 + e.age]
      /\ seen[CallMax + 1 + e.age] \in Nat /\ seen[Ages] \in Nat
  BY <1>1 DEF Remembered
<1> QED BY <1>2 DEF StoredSince, Remembered

\* A request that asked for the tip was told a recent one, in this step, if any.
ToldRecent ==
  \A r \in Requests :
    /\ ~Outcome(r).done /\ Outcome(r).call.op = "info"
    /\ Len(reqs'[r].got) > Len(reqs[r].got) /\ reqs'[r].got[Len(reqs'[r].got)].ok
    => reqs'[r].got[Len(reqs'[r].got)].value.height \in seen[Len(seen)]..height

\* Nobody is told anything by a step that adds no reply.
LEMMA NothingTold ==
  ASSUME TipIInv, \A r \in Requests : Len(reqs'[r].got) <= Len(reqs[r].got)
  PROVE  ToldRecent
<1>1. ASSUME NEW r \in Requests
      PROVE  Len(reqs[r].got) \in Nat
  BY DEF TipIInv, Record
<1> QED BY <1>1 DEF ToldRecent

\* One request is told something; if that is a tip, it is recent.
LEMMA OneTold ==
  ASSUME TipIInv, NEW r \in Requests, NEW reply, reqs' = Replied(r, reply),
         ~Outcome(r).done /\ Outcome(r).call.op = "info" /\ reply.ok =>
           reply.value.height \in seen[Ages]..height
  PROVE  ToldRecent
<1>1. Len(seen) = Ages
  BY DEF TipIInv, Remembered, Ages
<1>2. /\ \A q \in Requests : q # r => reqs'[q] = reqs[q]
      /\ reqs'[r].got[Len(reqs'[r].got)] = reply
  BY RepliedIs DEF TipIInv
<1>3. ASSUME NEW q \in Requests PROVE Len(reqs[q].got) \in Nat
  BY DEF TipIInv, Record
<1> QED BY <1>1, <1>2, <1>3 DEF ToldRecent

\* A reply that brings nothing to the cache keeps the invariant.
LEMMA ReplyKeeps ==
  ASSUME TipIInv, NEW r \in Requests, NEW reply, reqs' = Replied(r, reply),
         UNCHANGED <<height, seen>>, \A e \in tip' : StoredSince(e)
  PROVE  TipIInv'
<1> DEFINE q == With(reqs[r], Append(reqs[r].got, reply), {})
<1>1. reqs' = [reqs EXCEPT ![r] = q] /\ reqs'[r] = q
  BY DEF Replied, TipIInv
<1>2. Record(q) /\ q.pending = {}
  BY <1>1, RepliedIs DEF TipIInv
<1> HIDE DEF q
<1> QED BY <1>1, <1>2, OneMoves

\* Every step keeps the invariant, and tells nobody a tip that is not recent.
LEMMA TipNext ==
  TipIInv /\ [Next]_vars => TipIInv' /\ [ToldRecent]_vars
<1> SUFFICES ASSUME TipIInv, [Next]_vars PROVE TipIInv' /\ [ToldRecent]_vars
  OBVIOUS
<1>1. /\ Remembered /\ \A e \in tip : StoredSince(e)
      /\ reqs = [r \in Requests |-> reqs[r]]
      /\ \A r \in Requests : Record(reqs[r]) /\ \A p \in reqs[r].pending : ReadSince(p)
  BY DEF TipIInv
<1>2. \A r \in Requests : Len(reqs[r].got) \in Nat
  BY <1>1 DEF Record
<1>3. ASSUME NEW r \in Requests, Begin(r) PROVE TipIInv' /\ ToldRecent
  <2>1. PICK what \in Routes[r] : reqs' = [reqs EXCEPT ![r] = NewRequest(what)]
    BY <1>3 DEF Begin
  <2> DEFINE q == NewRequest(what)
  <2>2. Record(q) /\ q.pending = {} /\ q.got = <<>>
    <3>1. <<>> \in Seq({})
      OBVIOUS
    <3> QED BY <3>1 DEF Record, NewRequest
  <2>3. reqs[r].got = <<>>
    BY <1>3 DEF Begin, NoRequest
  <2> HIDE DEF q
  <2>4. reqs' = [reqs EXCEPT ![r] = q] /\ \A s \in Requests : reqs'[s].got = reqs[s].got
    BY <1>1, <2>1, <2>2, <2>3 DEF q
  <2> QED BY <1>1, <1>2, <1>3, <2>2, <2>4, OneMoves, NothingTold DEF Begin
<1>4. ASSUME NEW r \in Requests, Finish(r) PROVE TipIInv' /\ ToldRecent
  <2>1. Record(NoRequest) /\ NoRequest.pending = {} /\ Len(NoRequest.got) = 0
    <3>1. <<>> \in Seq({})
      OBVIOUS
    <3> QED BY <3>1 DEF Record, NoRequest
  <2>2. reqs' = [reqs EXCEPT ![r] = NoRequest] /\ \A e \in tip' : StoredSince(e)
    BY <1>1, <1>4 DEF Finish
  <2>3. \A s \in Requests : Len(reqs'[s].got) <= Len(reqs[s].got)
    BY <1>1, <1>2, <2>1, <2>2
  <2> QED BY <1>4, <2>1, <2>2, <2>3, OneMoves, NothingTold DEF Finish
<1>5. ASSUME NEW r \in Requests, Call(r) PROVE TipIInv' /\ ToldRecent
  <2>1. PICK reply : reqs' = Replied(r, reply)
    BY <1>5 DEF Call
  <2>2. ~(~Outcome(r).done /\ Outcome(r).call.op = "info")
    BY <1>5 DEF Call, Asking
  <2> QED BY <1>1, <1>5, <2>1, <2>2, ReplyKeeps, OneTold DEF Call
<1>6. ASSUME NEW r \in Requests, TipHit(r) PROVE TipIInv' /\ ToldRecent
  <2>1. PICK entry \in tip :
          Fresh(entry) /\ tip' = {Hit(entry)} /\ reqs' = Replied(r, Ok(Info(entry.height)))
    BY <1>6 DEF TipHit
  <2>2. entry.height \in seen[Ages]..height
    BY <1>1, <2>1, FreshIsRecent
  <2>3. Ok(Info(entry.height)).value.height = entry.height
    BY DEF Ok, Info
  <2>4. \A e \in tip' : StoredSince(e)
    BY <1>1, <2>1 DEF Hit
  <2> QED BY <1>6, <2>1, <2>2, <2>3, <2>4, ReplyKeeps, OneTold DEF TipHit
<1>7. ASSUME NEW r \in Requests, TipMiss(r) PROVE TipIInv' /\ ToldRecent
  <2> DEFINE p == [age |-> 0, read |-> {}]
             q == With(reqs[r], reqs[r].got, {p})
  <2>1. reqs' = [reqs EXCEPT ![r] = q] /\ tip' = {}
    BY <1>7 DEF TipMiss
  <2>2. ReadSince(p)
    BY DEF ReadSince
  <2>3. Record(q) /\ q.pending = {p} /\ q.got = reqs[r].got
    BY <1>1 DEF With, Record
  <2> HIDE DEF p, q
  <2>4. \A s \in Requests : reqs'[s].got = reqs[s].got
    BY <1>1, <2>1, <2>3
  <2>5. TipIInv'
    BY <1>7, <2>1, <2>2, <2>3, OneMoves DEF TipMiss
  <2>6. ToldRecent
    BY <1>2, <2>4, NothingTold
  <2> QED BY <2>5, <2>6
<1>8. ASSUME NEW r \in Requests, TipRead(r) PROVE TipIInv' /\ ToldRecent
  <2>1. PICK old \in reqs[r].pending :
          /\ old.read = {}
          /\ reqs' = [reqs EXCEPT ![r] = With(@, @.got, {[old EXCEPT !.read = {height}]})]
    BY <1>8 DEF TipRead
  <2> DEFINE p == [old EXCEPT !.read = {height}]
             q == With(reqs[r], reqs[r].got, {p})
  <2>2. reqs' = [reqs EXCEPT ![r] = q]
    BY <1>1, <2>1
  <2>3. ReadSince(p)
    <3>1. ReadSince(old)
      BY <1>1, <2>1
    <3>2. old.age + 1 \in 1..Ages /\ 1 \in 1..Ages
      BY <3>1 DEF ReadSince, Ages
    <3>3. height \in seen[old.age + 1]..height
      BY <1>1, <3>2 DEF Remembered
    <3>4. p = [age |-> old.age, read |-> {height}]
      <4>1. old = [age |-> old.age, read |-> old.read]
        BY <3>1 DEF ReadSince
      <4> HIDE DEF p
      <4>2. p = [[age |-> old.age, read |-> old.read] EXCEPT !.read = {height}]
        BY <4>1 DEF p
      <4> QED BY <4>2
    <3> HIDE DEF p
    <3> QED BY <3>1, <3>3, <3>4 DEF ReadSince
  <2>4. Record(q) /\ q.pending = {p} /\ q.got = reqs[r].got
    BY <1>1 DEF With, Record
  <2> HIDE DEF p, q
  <2>5. \A s \in Requests : reqs'[s].got = reqs[s].got
    BY <1>1, <2>2, <2>4
  <2>6. TipIInv'
    BY <1>1, <1>8, <2>2, <2>3, <2>4, OneMoves DEF TipRead
  <2>7. ToldRecent
    BY <1>2, <2>5, NothingTold
  <2> QED BY <2>6, <2>7
<1>9. ASSUME NEW r \in Requests, TipReceived(r) PROVE TipIInv' /\ ToldRecent
  <2>0. PICK p \in reqs[r].pending : \E h \in p.read :
          tip' = {[height |-> h, age |-> 0]} /\ reqs' = Replied(r, Ok(Info(h)))
    BY <1>9 DEF TipReceived
  <2>1. PICK h \in p.read :
          tip' = {[height |-> h, age |-> 0]} /\ reqs' = Replied(r, Ok(Info(h)))
    BY <2>0
  <2>2. h \in seen[CallMax + 1]..height /\ h \in seen[Ages]..height
    BY <1>1, <2>1, ReadIsRecent
  <2>3. Ok(Info(h)).value.height = h
    BY DEF Ok, Info
  <2>4. StoredSince([height |-> h, age |-> 0])
    BY <2>2 DEF StoredSince
  <2>5. \A e \in tip' : StoredSince(e)
    BY <2>1, <2>4
  <2> QED BY <1>9, <2>1, <2>2, <2>3, <2>5, ReplyKeeps, OneTold DEF TipReceived
<1>10. ASSUME NEW r \in Requests, TipFailed(r) PROVE TipIInv' /\ ToldRecent
  <2>1. PICK f \in Faults : reqs' = Replied(r, Err(f))
    BY <1>10 DEF TipFailed
  <2>2. ~Err(f).ok
    BY DEF Err
  <2> QED BY <1>1, <1>10, <2>1, <2>2, ReplyKeeps, OneTold DEF TipFailed
<1>11. ASSUME Mine PROVE TipIInv' /\ ToldRecent
  <2>1. /\ height' = height + 1 /\ height' \in Nat /\ height' >= height
        /\ UNCHANGED <<seen, tip, reqs>>
    BY <1>1, <1>11 DEF Mine, Remembered
  <2>2. Remembered'
    <3>1. seen[1] \in Nat
      BY <1>1 DEF Remembered, Ages
    <3> QED BY <1>1, <2>1, <3>1 DEF Remembered
  <2>3. \A e \in tip' : StoredSince(e)'
    BY <1>1, <2>1, StillStored
  <2>4. \A r \in Requests : Record(reqs'[r]) /\ \A p \in reqs'[r].pending : ReadSince(p)'
    BY <1>1, <2>1, StillRead
  <2>5. ToldRecent
    BY <1>2, <2>1, NothingTold
  <2> QED BY <1>1, <2>1, <2>2, <2>3, <2>4, <2>5 DEF TipIInv
<1>12. ASSUME Tick PROVE TipIInv' /\ ToldRecent
  <2>1. \A r \in Requests : reqs'[r].got = reqs[r].got
    BY <1>12 DEF Tick, With
  <2> QED BY <1>2, <1>12, <2>1, TickKeeps, NothingTold
<1>13. ASSUME UNCHANGED vars PROVE TipIInv' /\ [ToldRecent]_vars
  BY <1>13 DEF vars, TipIInv, Remembered, StoredSince, ReadSince, Record
<1> QED BY <1>3, <1>4, <1>5, <1>6, <1>7, <1>8, <1>9, <1>10, <1>11, <1>12, <1>13 DEF Next

\* No handler is told a tip older than the time to live and one call together,
\* however many requests share the cache and whichever of two calls that cross is
\* stored last.
THEOREM TipsAreRecent == Spec => TipIsRecent
<1>1. TipIInv /\ [Next]_vars => [ToldRecent]_vars
  BY TipNext
<1>2. TipIInv /\ [Next]_vars => TipIInv'
  BY TipNext
<1> QED BY TipInit, <1>1, <1>2, PTL DEF Spec, TipIsRecent, ToldRecent

-----------------------------------------------------------------------------
\* Every reply comes of the call its handler had come to: the invariant that the
\* statuses rest on, and its steps.

\* What the handler had come to before the i-th of its replies.
Before(what, got, i) == Routed(what, SubSeq(got, 1, i - 1))

\* That reply is to the call it had come to: a tip no older than `low`, or what the
\* daemon said at some height since, no lower than any tip told before.
Heard(what, got, i, low) ==
  LET asked == Before(what, got, i)
  IN  /\ ~asked.done
      /\ IF asked.call.op = "info"
         THEN (\E h \in low..height : got[i] = Ok(Info(h))) \/ (\E f \in Faults : got[i] = Err(f))
         ELSE \E h \in low..height :
                /\ got[i] \in Replies(asked.call, h, offers) \cup Failures(asked.call)
                /\ \A j \in 1..(i - 1) :
                     Before(what, got, j).call.op = "info" /\ got[j].ok => got[j].value.height <= h

\* A request is one the explorer reads, each of its replies came of the call its
\* handler had come to, and a call for the tip is in flight only when one was asked for.
Talked(q) ==
  /\ q = NoRequest \/ IsRequest(q.what)
  /\ q.oldest \in StartHeight..seen[Ages]
  /\ \A i \in 1..Len(q.got) : Heard(q.what, q.got, i, q.oldest)
  /\ q.pending # {} => ~Routed(q.what, q.got).done /\ Routed(q.what, q.got).call.op = "info"

\* The inductive invariant of the statuses.
TalkIInv ==
  /\ TipIInv
  /\ height \in StartHeight..MaxHeight
  /\ \A i \in 1..Ages : seen[i] >= StartHeight
  /\ \A r \in Requests : Talked(reqs[r])

\* Init establishes it: nobody has asked for anything.
LEMMA TalkInit == Init => TalkIInv
<1> SUFFICES ASSUME Init PROVE TalkIInv
  OBVIOUS
<1>1. Ages \in Nat /\ Ages >= 1
  BY DEF Ages
<1>2. seen = [i \in 1..Ages |-> StartHeight]
  BY DEF Init, Ages
<1>3. \A i \in 1..Ages : seen[i] = StartHeight
  BY <1>2
<1>4. Talked(NoRequest)
  <2>1. NoRequest.got = <<>> /\ NoRequest.pending = {} /\ NoRequest.oldest = StartHeight
    BY DEF NoRequest
  <2>2. Len(NoRequest.got) = 0
    BY <2>1
  <2> QED BY <1>1, <1>3, <2>1, <2>2 DEF Talked
<1>5. \A r \in Requests : Talked(reqs[r])
  BY <1>4 DEF Init
<1> QED BY <1>3, <1>5, TipInit DEF Init, TalkIInv

\* A reply that came stays what it was while the chain grows at most.
LEMMA HeardStill ==
  ASSUME NEW what, NEW got, NEW i, NEW low, Heard(what, got, i, low),
         low \in Nat, height \in Nat, height' \in Nat, height' >= height, UNCHANGED offers
  PROVE  Heard(what, got, i, low)'
<1>1. low..height \subseteq low..height'
  OBVIOUS
<1>2. CASE Before(what, got, i).call.op = "info"
  BY <1>1, <1>2 DEF Heard
<1>3. CASE Before(what, got, i).call.op # "info"
  BY <1>1, <1>3 DEF Heard
<1> QED BY <1>2, <1>3

\* The replies before the last of a longer conversation are the same.
LEMMA LongerKeeps ==
  ASSUME NEW S, NEW got \in Seq(S), NEW reply, NEW longer, longer = Append(got, reply)
  PROVE  /\ Len(longer) = Len(got) + 1 /\ Len(got) \in Nat
         /\ longer[Len(got) + 1] = reply
         /\ \A i \in 1..Len(got) : longer[i] = got[i]
         /\ \A i \in 1..(Len(got) + 1) : SubSeq(longer, 1, i - 1) = SubSeq(got, 1, i - 1)
         /\ SubSeq(longer, 1, Len(got)) = got
<1> DEFINE T == S \cup {reply}
<1>1. got \in Seq(T) /\ reply \in T
  OBVIOUS
<1>2. /\ Len(longer) = Len(got) + 1 /\ Len(got) \in Nat /\ longer \in Seq(T)
      /\ longer[Len(got) + 1] = reply
      /\ \A i \in 1..Len(got) : longer[i] = got[i]
  BY <1>1
<1>3. ASSUME NEW i \in 1..(Len(got) + 1) PROVE SubSeq(longer, 1, i - 1) = SubSeq(got, 1, i - 1)
  <2>1. i - 1 \in 0..Len(got)
    BY <1>2
  <2>2. SubSeq(longer, 1, i - 1) \in Seq(T) /\ SubSeq(got, 1, i - 1) \in Seq(T)
    BY <1>1, <1>2, <2>1
  <2>3. Len(SubSeq(longer, 1, i - 1)) = i - 1 /\ Len(SubSeq(got, 1, i - 1)) = i - 1
    BY <1>1, <1>2, <2>1
  <2>4. \A j \in 1..(i - 1) : SubSeq(longer, 1, i - 1)[j] = longer[j] /\ SubSeq(got, 1, i - 1)[j] = got[j]
    BY <1>1, <1>2, <2>1
  <2>5. \A j \in 1..(i - 1) : SubSeq(longer, 1, i - 1)[j] = SubSeq(got, 1, i - 1)[j]
    BY <1>2, <2>1, <2>4
  <2> HIDE DEF T
  <2> QED BY <2>2, <2>3, <2>5, SeqEqual
<1>4. SubSeq(got, 1, Len(got)) = got
  BY SubSeqFull
<1>5. SubSeq(longer, 1, Len(got)) = got
  <2>1. Len(got) + 1 \in 1..(Len(got) + 1) /\ (Len(got) + 1) - 1 = Len(got)
    BY <1>2
  <2> QED BY <1>3, <1>4, <2>1
<1> QED BY <1>2, <1>3, <1>5

\* The heights heard of before a reply are in the past of this one.
LEMMA TipsHeard ==
  ASSUME NEW what, NEW got, NEW low \in Nat, height \in Nat,
         NEW i, Heard(what, got, i, low), Before(what, got, i).call.op = "info", got[i].ok
  PROVE  got[i].value.height \in low..height
<1>1. \A f : ~Err(f).ok
  BY DEF Err
<1>2. \A h : Ok(Info(h)).value.height = h
  BY DEF Ok, Info
<1> QED BY <1>1, <1>2 DEF Heard

\* What a call that is not for the tip brings now is heard.
LEMMA OtherHeard ==
  ASSUME NEW what, NEW S, NEW got \in Seq(S), NEW low \in Nat, height \in Nat, low <= height,
         \A i \in 1..Len(got) : Heard(what, got, i, low),
         ~Routed(what, got).done, Routed(what, got).call.op # "info",
         NEW reply \in Replies(Routed(what, got).call, height, offers)
                      \cup Failures(Routed(what, got).call)
  PROVE  Heard(what, Append(got, reply), Len(got) + 1, low)
<1> DEFINE longer == Append(got, reply)
           n == Len(got) + 1
<1>0. /\ longer[n] = reply /\ Len(got) \in Nat
      /\ SubSeq(longer, 1, Len(got)) = got
      /\ \A j \in 1..Len(got) : longer[j] = got[j]
      /\ \A j \in 1..(Len(got) + 1) : SubSeq(longer, 1, j - 1) = SubSeq(got, 1, j - 1)
  BY LongerKeeps
<1>1. /\ longer[n] = reply /\ n - 1 = Len(got) /\ Len(got) \in Nat
      /\ SubSeq(longer, 1, n - 1) = got
      /\ \A j \in 1..(n - 1) : longer[j] = got[j] /\ Before(what, longer, j) = Before(what, got, j)
  <2>1. n - 1 = Len(got)
    BY <1>0
  <2>2. \A j \in 1..(n - 1) : j \in 1..Len(got) /\ j \in 1..(Len(got) + 1)
    BY <1>0, <2>1
  <2> HIDE DEF n, longer
  <2> QED BY <1>0, <2>1, <2>2 DEF Before
<1> HIDE DEF longer, n
<1>2. Before(what, longer, n) = Routed(what, got)
  BY <1>1 DEF Before
<1>3. \A j \in 1..(n - 1) : Before(what, longer, j).call.op = "info" /\ longer[j].ok =>
        longer[j].value.height <= height
  BY <1>1, TipsHeard
<1>4. height \in low..height
  OBVIOUS
<1>5. Heard(what, longer, n, low)
  BY <1>1, <1>2, <1>3, <1>4 DEF Heard
<1> QED BY <1>5 DEF longer, n

\* So is what a call for the tip brings.
LEMMA TipHeard ==
  ASSUME NEW what, NEW S, NEW got \in Seq(S), NEW low, NEW reply,
         ~Routed(what, got).done, Routed(what, got).call.op = "info",
         (\E h \in low..height : reply = Ok(Info(h))) \/ (\E f \in Faults : reply = Err(f))
  PROVE  Heard(what, Append(got, reply), Len(got) + 1, low)
<1> DEFINE longer == Append(got, reply)
           n == Len(got) + 1
<1>1. longer[n] = reply /\ SubSeq(longer, 1, n - 1) = got
  BY LongerKeeps
<1> HIDE DEF longer, n
<1>2. Before(what, longer, n) = Routed(what, got)
  BY <1>1 DEF Before
<1>3. Heard(what, longer, n, low)
  BY <1>1, <1>2 DEF Heard
<1> QED BY <1>3 DEF longer, n

\* A reply that is heard keeps a request one that was talked with.
LEMMA TalkGrows ==
  ASSUME NEW q, Record(q), Talked(q), NEW reply,
         Heard(q.what, Append(q.got, reply), Len(q.got) + 1, q.oldest),
         IsRequest(q.what)
  PROVE  Talked(With(q, Append(q.got, reply), {}))
<1>1. PICK S : q.got \in Seq(S)
  BY DEF Record
<1> DEFINE longer == Append(q.got, reply)
           p == With(q, longer, {})
<1>2. p.what = q.what /\ p.got = longer /\ p.pending = {} /\ p.oldest = q.oldest
  BY DEF With
<1>3. /\ Len(longer) = Len(q.got) + 1 /\ Len(q.got) \in Nat
      /\ \A i \in 1..Len(q.got) : longer[i] = q.got[i]
      /\ \A i \in 1..(Len(q.got) + 1) : SubSeq(longer, 1, i - 1) = SubSeq(q.got, 1, i - 1)
  BY <1>1, LongerKeeps
<1> HIDE DEF longer, p
<1>4. ASSUME NEW i \in 1..Len(q.got) PROVE Heard(q.what, longer, i, q.oldest)
  <2>1. Heard(q.what, q.got, i, q.oldest)
    BY DEF Talked
  <2>2. ASSUME NEW j \in 1..i
        PROVE  longer[j] = q.got[j] /\ Before(q.what, longer, j) = Before(q.what, q.got, j)
    <3>1. j \in 1..Len(q.got) /\ j \in 1..(Len(q.got) + 1)
      BY <1>3
    <3>2. SubSeq(longer, 1, j - 1) = SubSeq(q.got, 1, j - 1)
      BY <1>3, <3>1
    <3> QED BY <1>3, <3>1, <3>2 DEF Before
  <2>3. i \in 1..i /\ \A j \in 1..(i - 1) : j \in 1..i
    BY <1>3
  <2> QED BY <2>1, <2>2, <2>3 DEF Heard
<1>5. \A i \in 1..Len(longer) : Heard(q.what, longer, i, q.oldest)
  <2>1. Heard(q.what, longer, Len(q.got) + 1, q.oldest)
    BY DEF longer
  <2>2. \A i \in 1..Len(longer) : i \in 1..Len(q.got) \/ i = Len(q.got) + 1
    BY <1>3
  <2> QED BY <1>4, <2>1, <2>2
<1>6. Talked(p)
  BY <1>2, <1>5 DEF Talked
<1> QED BY <1>6 DEF p, longer

\* Unchanged by a step that leaves the chain and the past alone.
LEMMA TalkStands ==
  ASSUME UNCHANGED <<height, seen, offers>>, NEW q, Talked(q)
  PROVE  Talked(q)'
<1>1. ASSUME NEW i \in 1..Len(q.got) PROVE Heard(q.what, q.got, i, q.oldest)'
  <2>1. Heard(q.what, q.got, i, q.oldest)
    BY DEF Talked
  <2> QED BY <2>1 DEF Heard
<1> QED BY <1>1 DEF Talked

\* A step of one request, at a height that stands still.
LEMMA OneTalks ==
  ASSUME TalkIInv, TipIInv', UNCHANGED <<height, seen, offers>>,
         NEW r \in Requests, NEW q, reqs' = [reqs EXCEPT ![r] = q], Talked(q)
  PROVE  TalkIInv'
<1>1. \A s \in Requests : reqs'[s] = IF s = r THEN q ELSE reqs[s]
  BY DEF TalkIInv, TipIInv
<1>2. \A s \in Requests : Talked(reqs'[s])
  BY <1>1 DEF TalkIInv
<1>3. ASSUME NEW s \in Requests, NEW n, n = reqs'[s] PROVE Talked(n)'
  BY <1>2, <1>3, TalkStands
<1>4. (\A s \in Requests : Talked(reqs[s]))'
  BY <1>3
<1> QED BY <1>4 DEF TalkIInv

\* What was asked for in the past is older than what is told now.
LEMMA OldestHolds ==
  ASSUME TalkIInv, NEW r \in Requests
  PROVE  /\ reqs[r].oldest \in Nat /\ reqs[r].oldest <= height /\ height \in Nat
         /\ seen[Ages] \in Nat /\ reqs[r].oldest <= seen[Ages] /\ StartHeight <= reqs[r].oldest
<1>1. Ages \in 1..Ages /\ 1 \in 1..Ages
  BY DEF Ages
<1>2. seen[Ages] \in Nat /\ seen[1] \in Nat /\ seen[Ages] <= seen[1] /\ seen[1] <= height /\ height \in Nat
  BY <1>1 DEF TalkIInv, TipIInv, Remembered
<1>3. reqs[r].oldest \in StartHeight..seen[Ages]
  BY DEF TalkIInv, Talked
<1> QED BY <1>2, <1>3

\* A request that has come to a call is one the explorer reads.
LEMMA AskingIsRequest ==
  ASSUME TalkIInv, NEW r \in Requests, ~Outcome(r).done
  PROVE  IsRequest(reqs[r].what)
<1>1. reqs[r] # NoRequest
  <2>1. Routed([route |-> "idle"], <<>>).done
    BY DEF Routed, Answers
  <2> QED BY <2>1 DEF Outcome, NoRequest
<1> QED BY <1>1 DEF TalkIInv, Talked

\* A reply that is heard keeps the invariant.
LEMMA HeardKeeps ==
  ASSUME TalkIInv, TipIInv', UNCHANGED <<height, seen, offers>>,
         NEW r \in Requests, NEW reply, reqs' = Replied(r, reply), ~Outcome(r).done,
         Heard(reqs[r].what, Append(reqs[r].got, reply), Len(reqs[r].got) + 1, reqs[r].oldest)
  PROVE  TalkIInv'
<1> DEFINE q == reqs[r]
           p == With(q, Append(q.got, reply), {})
<1>1. reqs' = [reqs EXCEPT ![r] = p]
  BY DEF Replied, TalkIInv, TipIInv
<1>2. Record(q) /\ Talked(q)
  BY DEF TalkIInv, TipIInv
<1>3. IsRequest(q.what)
  BY AskingIsRequest
<1>4. Talked(p)
  BY <1>2, <1>3, TalkGrows
<1> HIDE DEF p
<1> QED BY <1>1, <1>4, OneTalks

\* Every step keeps the invariant.
LEMMA TalkNext == TalkIInv /\ [Next]_vars => TalkIInv'
<1> SUFFICES ASSUME TalkIInv, [Next]_vars PROVE TalkIInv'
  OBVIOUS
<1>1. TipIInv'
  BY TipNext DEF TalkIInv
<1>2. /\ Remembered /\ \A e \in tip : StoredSince(e)
      /\ \A r \in Requests : Record(reqs[r]) /\ \A p \in reqs[r].pending : ReadSince(p)
      /\ \A r \in Requests : Talked(reqs[r])
      /\ reqs = [r \in Requests |-> reqs[r]]
  BY DEF TalkIInv, TipIInv
<1>3. ASSUME NEW r \in Requests, Begin(r) PROVE TalkIInv'
  <2>1. PICK what \in Routes[r] : reqs' = [reqs EXCEPT ![r] = NewRequest(what)]
    BY <1>3 DEF Begin
  <2>2. IsRequest(what)
    BY RoutesAssumption
  <2>3. Len(seen) = Ages /\ Ages \in 1..Ages
    BY <1>2 DEF Remembered, Ages
  <2>4. seen[Ages] \in Nat /\ seen[Ages] >= StartHeight
    BY <2>3, <1>2 DEF TalkIInv, Remembered
  <2> DEFINE q == NewRequest(what)
  <2>5. q.what = what /\ q.got = <<>> /\ q.pending = {} /\ q.oldest = seen[Ages]
    BY <2>3 DEF NewRequest
  <2> HIDE DEF q
  <2>6. Len(q.got) = 0
    BY <2>5
  <2>7. Talked(q)
    BY <2>2, <2>4, <2>5, <2>6 DEF Talked
  <2> QED BY <1>1, <1>3, <2>1, <2>7, OneTalks DEF Begin, q
<1>4. ASSUME NEW r \in Requests, Finish(r) PROVE TalkIInv'
  <2>1. NoRequest.got = <<>> /\ NoRequest.pending = {} /\ NoRequest.oldest = StartHeight
    BY DEF NoRequest
  <2>2. Len(NoRequest.got) = 0
    BY <2>1
  <2>3. seen[Ages] \in Nat /\ StartHeight <= seen[Ages]
    BY <1>2, OldestHolds
  <2>4. Talked(NoRequest)
    BY <2>1, <2>2, <2>3 DEF Talked
  <2> QED BY <1>1, <1>4, <2>4, OneTalks DEF Finish
<1>5. ASSUME NEW r \in Requests, Call(r) PROVE TalkIInv'
  <2>1. PICK reply \in Replies(Outcome(r).call, height, offers) \cup Failures(Outcome(r).call) :
          reqs' = Replied(r, reply)
    BY <1>5 DEF Call
  <2>2. ~Outcome(r).done /\ Outcome(r).call.op # "info"
    BY <1>5 DEF Call, Asking
  <2>3. PICK S : reqs[r].got \in Seq(S)
    BY <1>2 DEF Record
  <2>4. \A i \in 1..Len(reqs[r].got) : Heard(reqs[r].what, reqs[r].got, i, reqs[r].oldest)
    BY <1>2 DEF Talked
  <2>5. Heard(reqs[r].what, Append(reqs[r].got, reply), Len(reqs[r].got) + 1, reqs[r].oldest)
    BY <2>1, <2>2, <2>3, <2>4, OldestHolds, OtherHeard DEF Outcome
  <2> QED BY <1>1, <1>5, <2>1, <2>2, <2>5, HeardKeeps DEF Call
<1>6. ASSUME NEW r \in Requests, NEW reply, reqs' = Replied(r, reply), UNCHANGED <<height, seen, offers>>,
             ~Outcome(r).done, Outcome(r).call.op = "info",
             (\E h \in seen[Ages]..height : reply = Ok(Info(h))) \/ (\E f \in Faults : reply = Err(f))
      PROVE  TalkIInv'
  <2>1. PICK S : reqs[r].got \in Seq(S)
    BY <1>2 DEF Record
  <2>2. (\E h \in reqs[r].oldest..height : reply = Ok(Info(h))) \/ (\E f \in Faults : reply = Err(f))
    BY <1>6, OldestHolds
  <2>3. Heard(reqs[r].what, Append(reqs[r].got, reply), Len(reqs[r].got) + 1, reqs[r].oldest)
    BY <1>6, <2>1, <2>2, TipHeard DEF Outcome
  <2> QED BY <1>1, <1>6, <2>3, HeardKeeps
<1>7. ASSUME NEW r \in Requests, TipHit(r) PROVE TalkIInv'
  <2>1. PICK entry \in tip : Fresh(entry) /\ reqs' = Replied(r, Ok(Info(entry.height)))
    BY <1>7 DEF TipHit
  <2>2. entry.height \in seen[Ages]..height
    BY <1>2, <2>1, FreshIsRecent
  <2> QED BY <1>6, <1>7, <2>1, <2>2 DEF TipHit, Asking
<1>8. ASSUME NEW r \in Requests, TipMiss(r) PROVE TalkIInv'
  <2> DEFINE q == With(reqs[r], reqs[r].got, {[age |-> 0, read |-> {}]})
  <2>1. reqs' = [reqs EXCEPT ![r] = q]
    BY <1>2, <1>8 DEF TipMiss
  <2>2. q.what = reqs[r].what /\ q.got = reqs[r].got /\ q.oldest = reqs[r].oldest
    BY DEF With
  <2>3. ~Routed(q.what, q.got).done /\ Routed(q.what, q.got).call.op = "info"
    BY <1>8, <2>2 DEF TipMiss, Asking, Outcome
  <2>4. IsRequest(q.what)
    BY <1>8, <2>2, AskingIsRequest DEF TipMiss, Asking
  <2>5. Talked(reqs[r])
    BY <1>2
  <2> HIDE DEF q
  <2>6. Talked(q)
    BY <2>2, <2>3, <2>4, <2>5 DEF Talked
  <2> QED BY <1>1, <1>8, <2>1, <2>6, OneTalks DEF TipMiss
<1>9. ASSUME NEW r \in Requests, TipRead(r) PROVE TalkIInv'
  <2>1. PICK old \in reqs[r].pending :
          reqs' = [reqs EXCEPT ![r] = With(@, @.got, {[old EXCEPT !.read = {height}]})]
    BY <1>9 DEF TipRead
  <2> DEFINE q == With(reqs[r], reqs[r].got, {[old EXCEPT !.read = {height}]})
  <2>2. reqs' = [reqs EXCEPT ![r] = q]
    BY <1>2, <2>1
  <2>3. q.what = reqs[r].what /\ q.got = reqs[r].got /\ q.oldest = reqs[r].oldest
    BY DEF With
  <2>4. Talked(reqs[r]) /\ reqs[r].pending # {}
    BY <1>2, <2>1
  <2>5. ~Routed(q.what, q.got).done /\ Routed(q.what, q.got).call.op = "info"
    BY <2>3, <2>4 DEF Talked
  <2>6. IsRequest(q.what)
    BY <2>3, <2>5, AskingIsRequest DEF Outcome
  <2> HIDE DEF q
  <2>7. Talked(q)
    BY <2>3, <2>4, <2>5, <2>6 DEF Talked
  <2> QED BY <1>1, <1>9, <2>2, <2>7, OneTalks DEF TipRead
<1>10. ASSUME NEW r \in Requests, reqs[r].pending # {} PROVE ~Outcome(r).done /\ Outcome(r).call.op = "info"
  BY <1>2, <1>10 DEF Talked, Outcome
<1>11. ASSUME NEW r \in Requests, TipReceived(r) PROVE TalkIInv'
  <2>1. PICK p \in reqs[r].pending : \E h \in p.read : reqs' = Replied(r, Ok(Info(h)))
    BY <1>11 DEF TipReceived
  <2>2. PICK h \in p.read : reqs' = Replied(r, Ok(Info(h)))
    BY <2>1
  <2>3. h \in seen[Ages]..height
    BY <1>2, <2>2, ReadIsRecent
  <2> QED BY <1>6, <1>10, <1>11, <2>1, <2>2, <2>3 DEF TipReceived
<1>12. ASSUME NEW r \in Requests, TipFailed(r) PROVE TalkIInv'
  BY <1>6, <1>10, <1>12 DEF TipFailed
<1>13. ASSUME Mine PROVE TalkIInv'
  <2>1. /\ height' = height + 1 /\ height' \in StartHeight..MaxHeight
        /\ UNCHANGED <<seen, offers, tip, reqs>> /\ height' \in Nat /\ height' >= height
    BY <1>13 DEF Mine, TalkIInv
  <2>2. ASSUME NEW r \in Requests PROVE Talked(reqs[r])'
    <3>1. Talked(reqs[r]) /\ reqs[r].oldest \in Nat /\ height \in Nat
      BY <1>2, OldestHolds
    <3>2. \A i \in 1..Len(reqs[r].got) : Heard(reqs[r].what, reqs[r].got, i, reqs[r].oldest)'
      BY <2>1, <3>1, HeardStill DEF Talked
    <3> QED BY <2>1, <3>1, <3>2 DEF Talked
  <2> QED BY <1>1, <2>1, <2>2 DEF TalkIInv
<1>14. ASSUME Tick PROVE TalkIInv'
  <2>1. /\ seen' \in [1..Ages -> Nat] /\ seen'[1] = height
        /\ \A i \in 2..Ages : seen'[i] = seen[i - 1]
    BY <1>2, <1>14, PastShifts
  <2>2. height \in StartHeight..MaxHeight /\ UNCHANGED <<height, offers>>
    BY <1>14 DEF Tick, TalkIInv
  <2>3. ASSUME NEW i \in 1..Ages PROVE seen'[i] >= StartHeight /\ seen'[i] >= seen[i]
    <3>1. CASE i = 1
      <4>1. seen[1] \in Nat /\ seen[1] <= height
        BY <1>2, <3>1 DEF Remembered
      <4> QED BY <2>1, <2>2, <3>1, <4>1
    <3>2. CASE i # 1
      <4>0. Ages \in Nat
        BY DEF Ages
      <4>1. i \in 2..Ages /\ i - 1 \in 1..Ages /\ i - 1 <= i
        BY <3>2, <4>0
      <4>2. seen[i] <= seen[i - 1] /\ seen[i - 1] \in Nat /\ seen[i] \in Nat /\ seen[i - 1] >= StartHeight
        BY <1>2, <4>1 DEF TalkIInv, Remembered
      <4> QED BY <2>1, <4>1, <4>2
    <3> QED BY <3>1, <3>2
  <2>4. ASSUME NEW r \in Requests, NEW n, n = reqs'[r] PROVE Talked(n)'
    <3> DEFINE q == reqs[r]
    <3>1. /\ n.what = q.what /\ n.got = q.got /\ n.oldest = q.oldest
          /\ n.pending = {[p EXCEPT !.age = @ + 1] : p \in q.pending}
          /\ n = With(q, q.got, {[p EXCEPT !.age = @ + 1] : p \in q.pending})
      BY <1>14, <2>4 DEF Tick, With
    <3>2. Talked(q) /\ Record(q) /\ q.oldest \in StartHeight..seen[Ages] /\ seen[Ages] \in Nat
      BY <1>2, OldestHolds DEF Talked
    <3>3. n.pending # {} => q.pending # {}
      BY <3>1
    <3>4. q = NoRequest => n = NoRequest
      <4>1. NoRequest.pending = {} /\ NoRequest.got = <<>>
        BY DEF NoRequest
      <4>2. {[p EXCEPT !.age = @ + 1] : p \in {}} = {}
        OBVIOUS
      <4> SUFFICES ASSUME q = NoRequest PROVE n = NoRequest
        OBVIOUS
      <4>3. n = With(NoRequest, <<>>, {})
        <5>1. {[p EXCEPT !.age = @ + 1] : p \in q.pending} = {}
          BY <4>1
        <5> QED BY <3>1, <4>1, <5>1
      <4> QED BY <4>3 DEF With, NoRequest
    <3>5. Ages \in 1..Ages
      BY DEF Ages
    <3>6. seen'[Ages] >= seen[Ages] /\ seen'[Ages] \in Nat
      BY <2>1, <2>3, <3>5
    <3>7. n.oldest \in StartHeight..seen'[Ages]
      BY <3>1, <3>2, <3>6
    <3> HIDE DEF q
    <3>8. n = NoRequest \/ IsRequest(n.what)
      BY <3>1, <3>2, <3>4 DEF Talked
    <3>9. n.pending # {} => ~Routed(n.what, n.got).done /\ Routed(n.what, n.got).call.op = "info"
      BY <3>1, <3>2, <3>3 DEF Talked
    <3>10. ASSUME NEW i \in 1..Len(n.got) PROVE Heard(n.what, n.got, i, n.oldest)'
      <4>1. Heard(n.what, n.got, i, n.oldest)
        BY <3>1, <3>2 DEF Talked
      <4>2. Heard(q.what, q.got, i, q.oldest)
        BY <3>1, <4>1
      <4> QED BY <2>2, <4>1 DEF Heard
    <3> QED BY <3>7, <3>8, <3>9, <3>10 DEF Talked
  <2>5. (\A r \in Requests : Talked(reqs[r]))'
    BY <2>4
  <2> QED BY <1>1, <2>2, <2>3, <2>5 DEF TalkIInv
<1>15. ASSUME UNCHANGED vars PROVE TalkIInv'
  <2>1. UNCHANGED <<height, seen, offers>> /\ UNCHANGED reqs
    BY <1>15 DEF vars
  <2>2. (\A r \in Requests : Talked(reqs[r]))'
    BY <1>2, <2>1, TalkStands
  <2> QED BY <1>1, <2>1, <2>2 DEF TalkIInv
<1> QED
  BY <1>3, <1>4, <1>5, <1>7, <1>8, <1>9, <1>11, <1>12, <1>13, <1>14, <1>15 DEF Next

-----------------------------------------------------------------------------
\* What an error of a call is, and what the API and the pages make of it.

\* A handler that has ended in a status, and one that has come to a call.
Says(a, status) == a.done /\ a.status = status
Puts(a, call) == ~a.done /\ a.call = call

\* A reply to what the handler had come to.
Reply(asked, reply, low) ==
  /\ ~asked.done
  /\ IF asked.call.op = "info"
     THEN (\E h \in low..height : reply = Ok(Info(h))) \/ (\E f \in Faults : reply = Err(f))
     ELSE \E h \in low..height : reply \in Replies(asked.call, h, offers) \cup Failures(asked.call)

RangeOps == {"headers_range", "blocks_in_range"}

\* What a failure is, whatever is made of it.
Blamed(f) == f \in Faults \cup NotOffered

\* A status of the API that says of a call's failure what it was.
ApiSays(call, f, s, low) ==
  /\ s \in {404, 502, 503}
  /\ s = 404 => call.op = "block" /\ ~HasBlock(call.id, low)
  /\ s = 503 => f \in NotOffered
  /\ Blamed(f) \/ s = 404 \/ (f = PastTip /\ call.op \in RangeOps)

\* And one of a page.
PageSays(call, f, s, low) ==
  /\ s \in {404, 501, 502, 503}
  /\ s = 404 => call.op = "block" /\ ~HasBlock(call.id, low)
  /\ s = 501 => f \in NotOffered
  /\ s = 503 => Transient(f)
  /\ Blamed(f) \/ s = 404 \/ (f = PastTip /\ call.op \in RangeOps)

\* The chain only grows: what it holds at a height it holds at every later one.
LEMMA ChainGrows ==
  ASSUME NEW low \in Nat, NEW h \in Nat, low <= h
  PROVE  /\ \A t : IsMined(t, low) => IsMined(t, h)
         /\ \A t : Known(t, low) => Known(t, h)
         /\ \A id : (id.is = "height" => id.height \in Nat) => (HasBlock(id, low) => HasBlock(id, h))
<1>1. 0..(low - 1) \subseteq 0..(h - 1)
  OBVIOUS
<1>2. \A t : IsMined(t, low) => IsMined(t, h)
  BY <1>1 DEF IsMined
<1>3. \A t : Known(t, low) => Known(t, h)
  BY <1>2 DEF Known, InPool
<1>4. ASSUME NEW id, id.is = "height" => id.height \in Nat, HasBlock(id, low) PROVE HasBlock(id, h)
  BY <1>1, <1>4 DEF HasBlock
<1> QED BY <1>2, <1>3, <1>4

\* The two families of handlers read the same table of failures.
LEMMA SameApiStatus == ASSUME NEW op, NEW f PROVE Api!ApiStatus(op, f) = ApiStatus(op, f)
BY DEF Api!ApiStatus, Api!on_chain_error, Api!chain_error, Api!classify_block_error, Api!CodeOf, Api!RpcErr,
       Api!NO_CODE, Api!WRONG_PARAM, Api!TOO_BIG_HEIGHT, Api!INTERNAL, Api!METHOD_NOT_FOUND, Api!RESTRICTED,
       ApiStatus, on_chain_error, chain_error, classify_block_error, CodeOf, RpcErr,
       NO_CODE, WRONG_PARAM, TOO_BIG_HEIGHT, INTERNAL, METHOD_NOT_FOUND, RESTRICTED

\* The pages' table of failures too is the same.
LEMMA SamePageStatus == ASSUME NEW op, NEW f PROVE Html!PageStatus(op, f) = PageStatus(op, f)
<1>1. Html!chain_error(op, f) = chain_error(op, f)
  BY DEF Html!chain_error, Html!classify_block_error, Html!CodeOf, Html!RpcErr,
       Html!NO_CODE, Html!WRONG_PARAM, Html!TOO_BIG_HEIGHT, Html!INTERNAL, Html!METHOD_NOT_FOUND, Html!RESTRICTED,
       chain_error, classify_block_error, CodeOf, RpcErr,
       NO_CODE, WRONG_PARAM, TOO_BIG_HEIGHT, INTERNAL, METHOD_NOT_FOUND, RESTRICTED
<1>2. Html!rpc_is_transient(f) <=> rpc_is_transient(f)
  BY DEF Html!rpc_is_transient, rpc_is_transient, Html!RpcErr, RpcErr
<1>3. Html!is_transient(op, f) <=> is_transient(op, f)
  BY <1>1, <1>2 DEF Html!is_transient, is_transient
<1>4. Html!chain_error_page(op, f) = chain_error_page(op, f)
  BY <1>1, <1>3 DEF Html!chain_error_page, chain_error_page
<1> QED BY <1>1, <1>4 DEF Html!PageStatus, PageStatus

Ops == {"info", "block", "transactions", "resolve_rings", "headers_range", "blocks_in_range",
        "txids_loose", "fee_estimate", "last_block_header", "mempool", "pool_stats", "alt_chains"}

\* What an error of a call is: of nobody's fault, of what the daemon does not offer,
\* or of what the chain does not hold.
LEMMA ErrorsAre ==
  ASSUME NEW low \in Nat, height \in Nat, NEW asked, NEW reply, Reply(asked, reply, low), ~reply.ok,
         asked.call.op \in Ops, asked.call.op = "block" /\ asked.call.id.is = "height" => asked.call.id.height \in Nat
  PROVE  \/ reply.err \in Faults
         \/ /\ asked.call.op = "block" /\ reply.err \in {PastTip, Absent}
            /\ ~HasBlock(asked.call.id, low)
         \/ asked.call.op \in RangeOps /\ reply.err = PastTip
         \/ asked.call.op \in {"txids_loose", "alt_chains"} /\ reply.err = NoMethod
         \/ asked.call.op \in {"mempool", "pool_stats"} /\ reply.err = RpcErr("Http", 404)
<1>0. /\ \A v : Ok(v).ok
      /\ \A e : Err(e).err = e
  BY DEF Ok, Err
<1> DEFINE call == asked.call
<1> HIDE DEF call
<1>1. CASE call.op = "info"
  BY <1>0, <1>1 DEF Reply, call
<1>2. CASE call.op # "info"
  <2>1. PICK h \in low..height : reply \in Replies(call, h, offers) \cup Failures(call)
    BY <1>2 DEF Reply, call
  <2>2. CASE reply \in Failures(call)
    BY <1>0, <2>2 DEF Failures
  <2>3. CASE reply \in Replies(call, h, offers)
    <3>1. CASE call.op = "block"
      <4>1. reply \in BlockReplies(call.id, h)
        BY <2>3, <3>1 DEF Replies
      <4>2. ~HasBlock(call.id, h) /\ reply = Err(IF call.id.is = "height" THEN PastTip ELSE Absent)
        BY <1>0, <4>1 DEF BlockReplies
      <4>3. ~HasBlock(call.id, low)
        BY <3>1, <4>2, ChainGrows DEF call
      <4> QED BY <1>0, <3>1, <4>2, <4>3 DEF call
    <3>2. CASE call.op = "transactions"
      <4>1. reply \in TransactionsReplies(call.hashes, h)
        BY <2>3, <3>2 DEF Replies
      <4>2. \E v : reply = Ok(v)
        BY <4>1 DEF TransactionsReplies
      <4> QED BY <1>0, <4>2
    <3>3. CASE call.op = "resolve_rings"
      BY <1>0, <2>3, <3>3 DEF Replies, RingsReply
    <3>4. CASE call.op \in RangeOps
      <4>1. CASE call.op = "headers_range"
        BY <1>0, <2>3, <4>1 DEF Replies, RangeOps, call
      <4>2. CASE call.op = "blocks_in_range"
        BY <1>0, <2>3, <4>2 DEF Replies, RangeOps, call
      <4> QED BY <3>4, <4>1, <4>2 DEF RangeOps
    <3>5. CASE call.op = "txids_loose"
      <4> DEFINE lists(n, found) == {Ok(list) : list \in Bijection(1..n, found)}
      <4>1. \/ \E n, found : reply \in lists(n, found)
            \/ reply = Err(NoMethod)
        <5> DEFINE found == {t \in Mined(h) : Matches(t, call.request)}
        <5>1. reply \in IF "txids_loose" \in offers THEN lists(Cardinality(found), found) ELSE {Err(NoMethod)}
          BY <2>3, <3>5 DEF Replies, call
        <5> HIDE DEF found
        <5> QED BY <5>1
      <4>2. (\E v : reply = Ok(v)) \/ reply = Err(NoMethod)
        BY <4>1
      <4> QED BY <1>0, <3>5, <4>2 DEF call
    <3>6. CASE call.op = "alt_chains"
      BY <1>0, <2>3, <3>6 DEF Replies, call
    <3>7. CASE call.op = "mempool"
      BY <1>0, <2>3, <3>7 DEF Replies, call
    <3>8. CASE call.op = "pool_stats"
      BY <1>0, <2>3, <3>8 DEF Replies, call
    <3>9. CASE call.op = "fee_estimate"
      BY <1>0, <2>3, <3>9 DEF Replies
    <3>10. CASE call.op = "last_block_header"
      BY <1>0, <2>3, <3>10 DEF Replies
    <3> QED BY <1>2, <3>1, <3>2, <3>3, <3>4, <3>5, <3>6, <3>7, <3>8, <3>9, <3>10 DEF Ops, RangeOps, call
  <2> QED BY <2>1, <2>2, <2>3
<1> QED BY <1>1, <1>2

\* A fault is never taken for a block that is not there, nor for what is not offered.
LEMMA FaultsAre ==
  ASSUME NEW f \in Faults, NEW op
  PROVE  /\ chain_error(op, f) # "BlockNotFound"
         /\ op # "block" /\ chain_error(op, f) \in {"NeedsUnrestricted", "NotProvided"} => f \in NotOffered
<1>1. f = RpcErr(f.kind, f.detail) /\ chain_error("block", f) # "BlockNotFound"
  BY FaultsAssumption
<1>2. CASE op = "block"
  BY <1>1, <1>2
<1>3. CASE op # "block"
  <2>1. chain_error(op, f) # "BlockNotFound"
    BY <1>3 DEF chain_error
  <2>2. CodeOf(f) = METHOD_NOT_FOUND => f = NoMethod
    BY <1>1 DEF CodeOf, NoMethod, METHOD_NOT_FOUND, NO_CODE
  <2>3. chain_error(op, f) \in {"NeedsUnrestricted", "NotProvided"} =>
          CodeOf(f) = METHOD_NOT_FOUND \/ f = RpcErr("Http", 404)
    BY <1>3 DEF chain_error
  <2> QED BY <2>1, <2>2, <2>3 DEF NotOffered
<1> QED BY <1>2, <1>3

\* The API says of a failure what it was.
LEMMA ApiFailure ==
  ASSUME NEW low \in Nat, height \in Nat, NEW asked, NEW reply, Reply(asked, reply, low), ~reply.ok,
         asked.call.op \in Ops, asked.call.op = "block" /\ asked.call.id.is = "height" => asked.call.id.height \in Nat
  PROVE  ApiSays(asked.call, reply.err, ApiStatus(asked.call.op, reply.err), low)
<1> DEFINE op == asked.call.op
           f == reply.err
           s == ApiStatus(op, f)
<1>0. /\ Absent = RpcErr("JsonRpc", INTERNAL) /\ PastTip = RpcErr("JsonRpc", TOO_BIG_HEIGHT)
      /\ CodeOf(Absent) = INTERNAL /\ CodeOf(PastTip) = TOO_BIG_HEIGHT /\ CodeOf(NoMethod) = METHOD_NOT_FOUND
      /\ NoMethod \in NotOffered /\ RpcErr("Http", 404) \in NotOffered
  BY DEF Absent, PastTip, NoMethod, CodeOf, RpcErr, NotOffered
<1>1. s \in {404, 502, 503}
  BY DEF ApiStatus, on_chain_error
<1>2. CASE f \in Faults
  <2>1. s # 404
    BY <1>2, FaultsAre DEF ApiStatus, on_chain_error
  <2>2. s = 503 => f \in NotOffered
    <3>1. ASSUME s = 503 PROVE op # "block" /\ chain_error(op, f) \in {"NeedsUnrestricted", "NotProvided"}
      BY <3>1 DEF ApiStatus, on_chain_error, chain_error, classify_block_error
    <3> QED BY <1>2, <3>1, FaultsAre
  <2> QED BY <1>1, <1>2, <2>1, <2>2 DEF ApiSays, Blamed
<1>3. CASE op = "block" /\ f \in {PastTip, Absent} /\ ~HasBlock(asked.call.id, low)
  <2>1. chain_error(op, f) = "BlockNotFound"
    BY <1>0, <1>3 DEF chain_error, classify_block_error, WRONG_PARAM, TOO_BIG_HEIGHT, INTERNAL,
          METHOD_NOT_FOUND, RESTRICTED, NO_CODE
  <2>2. s = 404
    BY <1>3, <2>1 DEF ApiStatus, on_chain_error
  <2> QED BY <1>3, <2>2 DEF ApiSays
<1>4. CASE op \in RangeOps /\ f = PastTip
  <2>1. chain_error(op, f) = "Rpc"
    BY <1>4 DEF chain_error, RangeOps
  <2>2. s = 502
    BY <1>4, <2>1 DEF ApiStatus, on_chain_error, RangeOps
  <2> QED BY <1>4, <2>2 DEF ApiSays
<1>5. CASE op \in {"txids_loose", "alt_chains", "mempool", "pool_stats"} /\ f \in NotOffered
  <2>1. s # 404
    BY <1>5 DEF ApiStatus, on_chain_error, chain_error
  <2> QED BY <1>1, <1>5, <2>1 DEF ApiSays, Blamed
<1> QED BY <1>0, <1>2, <1>3, <1>4, <1>5, ErrorsAre

\* So do the pages.
LEMMA PageFailure ==
  ASSUME NEW low \in Nat, height \in Nat, NEW asked, NEW reply, Reply(asked, reply, low), ~reply.ok,
         asked.call.op \in Ops, asked.call.op = "block" /\ asked.call.id.is = "height" => asked.call.id.height \in Nat
  PROVE  PageSays(asked.call, reply.err, PageStatus(asked.call.op, reply.err), low)
<1> DEFINE op == asked.call.op
           f == reply.err
           s == PageStatus(op, f)
<1>0. /\ CodeOf(Absent) = INTERNAL /\ CodeOf(PastTip) = TOO_BIG_HEIGHT /\ CodeOf(NoMethod) = METHOD_NOT_FOUND
      /\ NoMethod \in NotOffered /\ RpcErr("Http", 404) \in NotOffered
  BY DEF Absent, PastTip, NoMethod, CodeOf, RpcErr, NotOffered
<1>1. s \in {404, 501, 502, 503}
  BY DEF PageStatus, chain_error_page
<1>2. s = 503 => Transient(f)
  <2>1. s = 503 => is_transient(op, f)
    BY DEF PageStatus, chain_error_page
  <2>2. CASE op = "block"
    BY <2>1, <2>2 DEF Transient
  <2>3. CASE op # "block"
    <3>1. chain_error(op, f) # "Unavailable" /\ chain_error("transactions", f) = "Rpc"
      BY <2>3 DEF chain_error
    <3>2. is_transient(op, f) => is_transient("transactions", f)
      BY <3>1 DEF is_transient
    <3> QED BY <2>1, <3>2 DEF Transient
  <2> QED BY <2>2, <2>3
<1>3. CASE f \in Faults
  <2>1. s # 404
    BY <1>3, FaultsAre DEF PageStatus, chain_error_page
  <2>2. s = 501 => f \in NotOffered
    <3>1. ASSUME s = 501 PROVE op # "block" /\ chain_error(op, f) \in {"NeedsUnrestricted", "NotProvided"}
      BY <3>1 DEF PageStatus, chain_error_page
    <3> QED BY <1>3, <3>1, FaultsAre
  <2> QED BY <1>1, <1>2, <1>3, <2>1, <2>2 DEF PageSays, Blamed
<1>4. CASE op = "block" /\ f \in {PastTip, Absent} /\ ~HasBlock(asked.call.id, low)
  <2>1. chain_error(op, f) = "BlockNotFound"
    BY <1>0, <1>4 DEF chain_error, classify_block_error, WRONG_PARAM, TOO_BIG_HEIGHT, INTERNAL,
          METHOD_NOT_FOUND, RESTRICTED, NO_CODE
  <2>2. s = 404
    BY <1>4, <2>1 DEF PageStatus, chain_error_page, is_transient
  <2> QED BY <1>4, <2>2 DEF PageSays
<1>5. CASE op \in RangeOps /\ f = PastTip
  <2>1. chain_error(op, f) = "Rpc"
    BY <1>5 DEF chain_error, RangeOps
  <2>2. s \in {502, 503}
    BY <1>5, <2>1 DEF PageStatus, chain_error_page, RangeOps
  <2> QED BY <1>2, <1>5, <2>2 DEF PageSays
<1>6. CASE op \in {"txids_loose", "alt_chains", "mempool", "pool_stats"} /\ f \in NotOffered
  <2>1. s # 404
    BY <1>6 DEF PageStatus, chain_error_page, chain_error
  <2> QED BY <1>1, <1>2, <1>6, <2>1 DEF PageSays, Blamed
<1> QED BY <1>0, <1>3, <1>4, <1>5, <1>6, ErrorsAre

-----------------------------------------------------------------------------
\* Conversations, and the failures that end one honestly.

\* The errors among the replies.
Errs(got) == {got[i].err : i \in {i \in DOMAIN got : ~got[i].ok}}

\* HonestStatuses, of one request and its answer's status.
Fair(what, got, low, status) ==
  /\ Malformed(what) => status = IF IsApi(what) THEN 400 ELSE 404
  /\ status = 404 =>
       \/ Malformed(what)
       \/ /\ what.route = "/api/search" /\ what.arg.is = "hash"
          /\ Errs(got) \cap Faults # {} \/ what.arg.hash \in Undecodable
       \/ NotThere(what, low)
  /\ status = 400 /\ what.route # "/api/transaction/private" => Malformed(what) /\ got = <<>>
  /\ status >= 500 =>
       \/ Errs(got) \cap (Faults \cup NotOffered) # {}
       \/ CannotBeRead(what)
       \/ what.route = "/api/blocks" /\ PastTip \in Errs(got)
  /\ status = 501 => Errs(got) \cap NotOffered # {}
  /\ status = 503 => IF IsApi(what) THEN Errs(got) \cap NotOffered # {}
                     ELSE \E f \in Errs(got) : Transient(f)

\* A conversation: each reply to what the replies before had brought the handler to.
Conversed(what, got, low) ==
  /\ \E S : got \in Seq(S)
  /\ low \in Nat /\ low <= height /\ height \in Nat
  /\ \A i \in 1..Len(got) : Heard(what, got, i, low)

\* What the first replies were to, and their errors.
LEMMA Told ==
  ASSUME NEW what, NEW got, NEW low, Conversed(what, got, low)
  PROVE  /\ got # <<>> =>
              /\ Reply(Routed(what, <<>>), Head(got), low)
              /\ ~Head(got).ok => Head(got).err \in Errs(got)
         /\ got # <<>> /\ Tail(got) # <<>> =>
              /\ Reply(Routed(what, <<Head(got)>>), Head(Tail(got)), low)
              /\ ~Head(Tail(got)).ok => Head(Tail(got)).err \in Errs(got)
         /\ got # <<>> /\ Tail(got) # <<>> /\ Tail(Tail(got)) # <<>> =>
              /\ Reply(Routed(what, <<Head(got), Head(Tail(got))>>), Head(Tail(Tail(got))), low)
              /\ ~Head(Tail(Tail(got))).ok => Head(Tail(Tail(got))).err \in Errs(got)
<1> SUFFICES ASSUME got # <<>> PROVE
              /\ /\ Reply(Routed(what, <<>>), Head(got), low)
                 /\ ~Head(got).ok => Head(got).err \in Errs(got)
              /\ Tail(got) # <<>> =>
                 /\ Reply(Routed(what, <<Head(got)>>), Head(Tail(got)), low)
                 /\ ~Head(Tail(got)).ok => Head(Tail(got)).err \in Errs(got)
              /\ Tail(got) # <<>> /\ Tail(Tail(got)) # <<>> =>
                 /\ Reply(Routed(what, <<Head(got), Head(Tail(got))>>), Head(Tail(Tail(got))), low)
                 /\ ~Head(Tail(Tail(got))).ok => Head(Tail(Tail(got))).err \in Errs(got)
  OBVIOUS
<1>1. PICK S : got \in Seq(S)
  BY DEF Conversed
<1>2. Len(got) \in Nat /\ Len(got) >= 1 /\ DOMAIN got = 1..Len(got)
  BY <1>1
<1>3. Head(got) = got[1] /\ Tail(got) \in Seq(S) /\ Len(Tail(got)) = Len(got) - 1
      /\ \A i \in 1..(Len(got) - 1) : Tail(got)[i] = got[i + 1]
  BY <1>1, <1>2
<1>4. ASSUME NEW i \in 1..Len(got)
      PROVE  /\ Reply(Routed(what, SubSeq(got, 1, i - 1)), got[i], low)
             /\ ~got[i].ok => got[i].err \in Errs(got)
  <2>1. Heard(what, got, i, low)
    BY DEF Conversed
  <2>2. Reply(Routed(what, SubSeq(got, 1, i - 1)), got[i], low)
    BY <2>1 DEF Heard, Reply, Before
  <2> QED BY <1>2, <2>2 DEF Errs
<1>5. SubSeq(got, 1, 1 - 1) = <<>>
  <2>1. SubSeq(got, 1, 0) \in Seq(S) /\ Len(SubSeq(got, 1, 0)) = 0
    BY <1>1, <1>2
  <2> QED BY <2>1
<1>6. Reply(Routed(what, <<>>), Head(got), low) /\ (~Head(got).ok => Head(got).err \in Errs(got))
  <2>1. 1 \in 1..Len(got)
    BY <1>2
  <2>2. Reply(Routed(what, SubSeq(got, 1, 1 - 1)), got[1], low) /\ (~got[1].ok => got[1].err \in Errs(got))
    BY <1>4, <2>1
  <2> QED BY <1>3, <1>5, <2>2
<1>7. ASSUME Tail(got) # <<>>
      PROVE  /\ Len(got) >= 2 /\ Head(Tail(got)) = got[2]
             /\ SubSeq(got, 1, 1) = <<Head(got)>>
             /\ Reply(Routed(what, <<Head(got)>>), Head(Tail(got)), low)
             /\ ~Head(Tail(got)).ok => Head(Tail(got)).err \in Errs(got)
  <2>1. Len(Tail(got)) # 0
    BY <1>3, <1>7
  <2>2. Len(got) >= 2
    BY <1>2, <1>3, <2>1
  <2>3. Head(Tail(got)) = got[2]
    BY <1>3, <2>2, <1>2
  <2>4. SubSeq(got, 1, 1) \in Seq(S) /\ Len(SubSeq(got, 1, 1)) = 1 /\ SubSeq(got, 1, 1)[1] = got[1]
    BY <1>1, <1>2
  <2>5. SubSeq(got, 1, 1) = <<Head(got)>>
    <3>1. got[1] \in S
      BY <1>1, <1>2
    <3>2. <<got[1]>> \in Seq(S) /\ Len(<<got[1]>>) = 1 /\ <<got[1]>>[1] = got[1]
      BY <3>1
    <3>3. \A i \in 1..1 : SubSeq(got, 1, 1)[i] = <<got[1]>>[i]
      BY <2>4, <3>2
    <3>4. SubSeq(got, 1, 1) = <<got[1]>>
      BY <2>4, <3>2, <3>3, SeqEqual
    <3> QED BY <1>3, <3>4
  <2>6. Reply(Routed(what, SubSeq(got, 1, 2 - 1)), got[2], low) /\ (~got[2].ok => got[2].err \in Errs(got))
    BY <1>2, <1>4, <2>2
  <2>7. 2 - 1 = 1
    OBVIOUS
  <2> QED BY <2>2, <2>3, <2>5, <2>6, <2>7
<1>8. ASSUME Tail(got) # <<>>, Tail(Tail(got)) # <<>>
      PROVE  /\ Reply(Routed(what, <<Head(got), Head(Tail(got))>>), Head(Tail(Tail(got))), low)
             /\ ~Head(Tail(Tail(got))).ok => Head(Tail(Tail(got))).err \in Errs(got)
  <2> DEFINE u == Tail(got)
  <2>1. u \in Seq(S) /\ u # <<>> /\ Tail(u) \in Seq(S) /\ Len(Tail(u)) = Len(u) - 1 /\ Len(u) \in Nat
        /\ \A i \in 1..(Len(u) - 1) : Tail(u)[i] = u[i + 1]
    BY <1>3, <1>8
  <2>2. Len(Tail(u)) # 0
    <3>1. Tail(u) # <<>>
      BY <1>8
    <3> HIDE DEF u
    <3> QED BY <2>1, <3>1
  <2>3. Len(got) >= 3 /\ Len(u) = Len(got) - 1
    BY <1>2, <1>3, <2>1, <2>2
  <2> HIDE DEF u
  <2>4. Tail(u)[1] = u[2] /\ u[2] = got[3]
    <3>1. 1 \in 1..(Len(u) - 1) /\ 2 \in 1..(Len(got) - 1) /\ 1 + 1 = 2 /\ 2 + 1 = 3
      BY <1>2, <2>3
    <3> QED BY <1>3, <2>1, <3>1 DEF u
  <2>5. Head(Tail(u)) = got[3]
    BY <2>1, <2>2, <2>4
  <2>6. SubSeq(got, 1, 2) \in Seq(S) /\ Len(SubSeq(got, 1, 2)) = 2 /\ SubSeq(got, 1, 2)[1] = got[1]
        /\ SubSeq(got, 1, 2)[2] = got[2]
    BY <1>1, <1>2, <2>3
  <2>7. SubSeq(got, 1, 2) = <<got[1], got[2]>>
    <3>1. got[1] \in S /\ got[2] \in S
      BY <1>1, <1>2, <2>3
    <3>2. <<got[1], got[2]>> \in Seq(S) /\ Len(<<got[1], got[2]>>) = 2
          /\ <<got[1], got[2]>>[1] = got[1] /\ <<got[1], got[2]>>[2] = got[2]
      BY <3>1
    <3>3. \A i \in 1..2 : SubSeq(got, 1, 2)[i] = <<got[1], got[2]>>[i]
      BY <2>6, <3>2
    <3> QED BY <2>6, <3>2, <3>3, SeqEqual
  <2>8. Reply(Routed(what, SubSeq(got, 1, 3 - 1)), got[3], low) /\ (~got[3].ok => got[3].err \in Errs(got))
    BY <1>2, <1>4, <2>3
  <2>9. 3 - 1 = 2
    OBVIOUS
  <2> QED BY <1>3, <1>7, <1>8, <2>5, <2>7, <2>8, <2>9 DEF u
<1> QED BY <1>6, <1>7, <1>8

\* The members of short conversations.
LEMMA Firsts ==
  ASSUME NEW a, NEW b
  PROVE  /\ <<a>> # <<>> /\ Head(<<a>>) = a /\ Tail(<<a>>) = <<>>
         /\ <<a, b>> # <<>> /\ Head(<<a, b>>) = a /\ Tail(<<a, b>>) = <<b>>
         /\ Tail(<<a, b>>) # <<>> /\ Head(Tail(<<a, b>>)) = b /\ Tail(Tail(<<a, b>>)) = <<>>
<1>1. <<a>> # <<>> /\ Head(<<a>>) = a /\ Tail(<<a>>) = <<>>
  OBVIOUS
<1>2. <<a, b>> # <<>> /\ Head(<<a, b>>) = a 
  OBVIOUS
<1>3. Tail(<<a, b>>) = <<b>>
  OBVIOUS
<1>4. <<b>> # <<>> /\ Head(<<b>>) = b /\ Tail(<<b>>) = <<>>
  OBVIOUS
<1> QED BY <1>1, <1>2, <1>3, <1>4

\* And of one of three.
LEMMA FirstOfThree ==
  ASSUME NEW a, NEW b, NEW c
  PROVE  <<a, b, c>> # <<>> /\ Head(<<a, b, c>>) = a /\ Tail(<<a, b, c>>) = <<b, c>>
<1>1. <<a, b, c>> # <<>> /\ Head(<<a, b, c>>) = a
  OBVIOUS
<1>2. Tail(<<a, b, c>>) = <<b, c>>
  <2> DEFINE S == {a, b, c}
             s == <<a, b, c>>
             t == <<b, c>>
  <2>1. s \in Seq(S) /\ Len(s) = 3 /\ s[2] = b /\ s[3] = c /\ t \in Seq(S) /\ Len(t) = 2 /\ t[1] = b /\ t[2] = c
    OBVIOUS
  <2> HIDE DEF s, t, S
  <2>2. Tail(s) \in Seq(S) /\ Len(Tail(s)) = 2 /\ Tail(s)[1] = s[2] /\ Tail(s)[2] = s[3]
    BY <2>1
  <2>3. \A i \in 1..2 : i = 1 \/ i = 2
    OBVIOUS
  <2>4. \A i \in 1..2 : Tail(s)[i] = t[i]
    BY <2>1, <2>2, <2>3
  <2>5. Tail(s) = t
    BY <2>1, <2>2, <2>4, SeqEqual
  <2> QED BY <2>5 DEF s, t
<1> QED BY <1>1, <1>2

\* A failure that is reported as what it was, of a call that is not for a block nor
\* for a range.
LEMMA ApiEnds ==
  ASSUME NEW what, NEW got, NEW low \in Nat, height \in Nat, NEW asked, NEW reply, Reply(asked, reply, low),
         ~reply.ok, reply.err \in Errs(got), NEW op \in Ops \ {"block", "headers_range", "blocks_in_range"},
         asked.call.op = op, IsApi(what), ~Malformed(what)
  PROVE  Fair(what, got, low, ApiStatus(op, reply.err)) /\ Fair(what, got, low, 502)
<1> DEFINE s == ApiStatus(op, reply.err)
<1>1. asked.call.op # "block" /\ asked.call.op \in Ops /\ asked.call.op \notin RangeOps
  BY DEF RangeOps
<1>2. ApiSays(asked.call, reply.err, s, low)
  BY <1>1, ApiFailure
<1> HIDE DEF s
<1>3. s \in {502, 503} /\ Blamed(reply.err) /\ (s = 503 => reply.err \in NotOffered)
  BY <1>1, <1>2 DEF ApiSays
<1>4. Errs(got) \cap (Faults \cup NotOffered) # {} /\ (s = 503 => Errs(got) \cap NotOffered # {})
  BY <1>3 DEF Blamed
<1> QED BY <1>3, <1>4 DEF Fair, s

\* The same of a page.
LEMMA PageEnds ==
  ASSUME NEW what, NEW got, NEW low \in Nat, height \in Nat, NEW asked, NEW reply, Reply(asked, reply, low),
         ~reply.ok, reply.err \in Errs(got), NEW op \in Ops \ {"block", "headers_range", "blocks_in_range"},
         asked.call.op = op, ~IsApi(what), ~Malformed(what)
  PROVE  Fair(what, got, low, PageStatus(op, reply.err)) /\ Fair(what, got, low, 502)
<1> DEFINE s == PageStatus(op, reply.err)
<1>1. asked.call.op # "block" /\ asked.call.op \in Ops /\ asked.call.op \notin RangeOps
  BY DEF RangeOps
<1>2. PageSays(asked.call, reply.err, s, low)
  BY <1>1, PageFailure
<1> HIDE DEF s
<1>3. s \in {501, 502, 503} /\ Blamed(reply.err) /\ (s = 501 => reply.err \in NotOffered)
      /\ (s = 503 => Transient(reply.err))
  BY <1>1, <1>2 DEF PageSays
<1>4. Errs(got) \cap (Faults \cup NotOffered) # {} /\ (s = 501 => Errs(got) \cap NotOffered # {})
  BY <1>3 DEF Blamed
<1> QED BY <1>3, <1>4 DEF Fair, s

\* A block that is not found is not on the chain.
LEMMA ApiBlockEnds ==
  ASSUME NEW what, NEW got, NEW low \in Nat, height \in Nat, NEW asked, NEW reply, Reply(asked, reply, low),
         ~reply.ok, reply.err \in Errs(got), asked.call = BlockCall(what.arg), IsApi(what), ~Malformed(what),
         IsId(what.arg), ~HasBlock(what.arg, low) => NotThere(what, low)
  PROVE  Fair(what, got, low, ApiStatus("block", reply.err))
<1> DEFINE s == ApiStatus("block", reply.err)
<1>1. asked.call.op = "block" /\ asked.call.id = what.arg /\ asked.call.op \in Ops /\ asked.call.op \notin RangeOps
  BY DEF BlockCall, Ops, RangeOps
<1>2. asked.call.id.is = "height" => asked.call.id.height \in Nat
  BY <1>1 DEF IsId
<1>3. ApiSays(asked.call, reply.err, s, low)
  BY <1>1, <1>2, ApiFailure
<1> HIDE DEF s
<1>4. s \in {404, 502, 503} /\ (s = 404 => ~HasBlock(what.arg, low)) /\ (s = 503 => reply.err \in NotOffered)
      /\ (Blamed(reply.err) \/ s = 404)
  BY <1>1, <1>3 DEF ApiSays
<1>5. /\ s # 404 => Errs(got) \cap (Faults \cup NotOffered) # {}
      /\ s = 503 => Errs(got) \cap NotOffered # {}
  BY <1>4 DEF Blamed
<1> QED BY <1>4, <1>5 DEF Fair, s

\* The same of a page.
LEMMA PageBlockEnds ==
  ASSUME NEW what, NEW got, NEW low \in Nat, height \in Nat, NEW asked, NEW reply, Reply(asked, reply, low),
         ~reply.ok, reply.err \in Errs(got), asked.call = BlockCall(what.arg), ~IsApi(what), ~Malformed(what),
         IsId(what.arg), ~HasBlock(what.arg, low) => NotThere(what, low)
  PROVE  Fair(what, got, low, PageStatus("block", reply.err))
<1> DEFINE s == PageStatus("block", reply.err)
<1>1. asked.call.op = "block" /\ asked.call.id = what.arg /\ asked.call.op \in Ops /\ asked.call.op \notin RangeOps
  BY DEF BlockCall, Ops, RangeOps
<1>2. asked.call.id.is = "height" => asked.call.id.height \in Nat
  BY <1>1 DEF IsId
<1>3. PageSays(asked.call, reply.err, s, low)
  BY <1>1, <1>2, PageFailure
<1> HIDE DEF s
<1>4. s \in {404, 501, 502, 503} /\ (s = 404 => ~HasBlock(what.arg, low)) /\ (s = 501 => reply.err \in NotOffered)
      /\ (s = 503 => Transient(reply.err)) /\ (Blamed(reply.err) \/ s = 404)
  BY <1>1, <1>3 DEF PageSays
<1>5. /\ s # 404 => Errs(got) \cap (Faults \cup NotOffered) # {}
      /\ s = 501 => Errs(got) \cap NotOffered # {}
  BY <1>4 DEF Blamed
<1> QED BY <1>4, <1>5 DEF Fair, s

\* Success, a redirect, and no answer at all.
LEMMA SuccessIsFair ==
  ASSUME NEW what, ~Malformed(what), NEW got, NEW low, NEW s \in {0, 200, 303}
  PROVE  Fair(what, got, low, s)
BY DEF Fair

-----------------------------------------------------------------------------
\* The handlers of the API, reply by reply (Handlers).

\* The version: the tip alone.
LEMMA VersionIs ==
  ASSUME NEW got, NEW a, a = Api!version(got)
  PROVE  /\ got = <<>> => Puts(a, InfoCall)
         /\ got # <<>> /\ ~Head(got).ok => Says(a, ApiStatus("info", Head(got).err))
         /\ got # <<>> /\ Head(got).ok => Says(a, 200)
BY SameApiStatus DEF Says, Puts, Api!version, Api!Need, Api!Needed, Api!Asked, Api!Asks, Api!Answers, Api!Success,
   Api!InfoCall, InfoCall

\* A block: its header and hashes, then its transactions.
LEMMA BlockIs ==
  ASSUME NEW arg, NEW got, NEW a, a = Api!block(arg, got)
  PROVE  /\ arg.is = "text" => Says(a, 400) /\ a.rest = got
         /\ arg.is # "text" =>
              /\ got = <<>> => Puts(a, BlockCall(arg))
              /\ got # <<>> /\ ~Head(got).ok =>
                   Says(a, ApiStatus("block", Head(got).err)) /\ a.rest = Tail(got)
              /\ got # <<>> /\ Head(got).ok =>
                   \/ Says(a, 200)
                   \/ Tail(got) = <<>> /\ ~a.done /\ a.call.op = "transactions"
                   \/ /\ Tail(got) # <<>> /\ ~Head(Tail(got)).ok
                      /\ Says(a, ApiStatus("transactions", Head(Tail(got)).err))
BY SameApiStatus DEF Says, Puts, Api!block, Api!build_block_detail, Api!Need, Api!Needed, Api!Asked, Api!Asks,
   Api!Answers, Api!Success, Api!Refused, Api!Fetched, Api!BlockCall, Api!TransactionsCall, BlockCall

\* That of a block, as one thing.
Details(a, arg, got) ==
  arg.is # "text" =>
    /\ got = <<>> => Puts(a, BlockCall(arg))
    /\ got # <<>> /\ ~Head(got).ok =>
         Says(a, ApiStatus("block", Head(got).err)) /\ a.rest = Tail(got)
    /\ got # <<>> /\ Head(got).ok =>
         \/ Says(a, 200)
         \/ Tail(got) = <<>> /\ ~a.done /\ a.call.op = "transactions"
         \/ /\ Tail(got) # <<>> /\ ~Head(Tail(got)).ok
            /\ Says(a, ApiStatus("transactions", Head(Tail(got)).err))

\* What BlockIs says, of every conversation.
LEMMA BlockDetails ==
  ASSUME NEW arg, NEW got
  PROVE  Details(Api!block(arg, got), arg, got)
<1> DEFINE a == Api!block(arg, got)
<1>1. a = Api!block(arg, got)
  OBVIOUS
<1> HIDE DEF a
<1>2. Details(a, arg, got)
  BY <1>1, BlockIs DEF Details
<1> QED BY <1>1, <1>2

\* A raw block: one call, and what it brings may not decode.
LEMMA RawBlockIs ==
  ASSUME NEW arg, NEW got, NEW a, a = Api!raw_block(arg, got)
  PROVE  /\ arg.is = "text" => Says(a, 400)
         /\ arg.is # "text" =>
              /\ got = <<>> => Puts(a, BlockCall(arg))
              /\ got # <<>> /\ ~Head(got).ok => Says(a, ApiStatus("block", Head(got).err))
              /\ got # <<>> /\ Head(got).ok =>
                   Says(a, IF Head(got).value.decodes THEN 200 ELSE 502)
BY SameApiStatus DEF Says, Puts, Api!raw_block, Api!Need, Api!Needed, Api!Asked, Api!Asks,
   Api!Answers, Api!Success, Api!Refused, Api!BlockCall, BlockCall

\* A transaction looked up by its hash, then its rings and, in the pool, the tip.
LooksUp(a, arg, got) ==
  /\ arg.is # "hash" => Says(a, 400)
  /\ arg.is = "hash" =>
       /\ got = <<>> => Puts(a, TransactionsCall(<<arg.hash>>))
       /\ got # <<>> /\ ~Head(got).ok => Says(a, ApiStatus("transactions", Head(got).err))
       /\ got # <<>> /\ Head(got).ok =>
            \/ Says(a, 404) /\ Head(got).value = <<>>
            \/ Says(a, 502) /\ Head(got).value # <<>> /\ ~Head(Head(got).value).decodes
            \/ Says(a, 200)
            \/ ~a.done /\ a.call.op = "resolve_rings" /\ Tail(got) = <<>>
            \/ ~a.done /\ a.call.op = "info" /\ Tail(got) # <<>> /\ Tail(Tail(got)) = <<>>
            \/ /\ Tail(got) # <<>> /\ Tail(Tail(got)) # <<>> /\ ~Head(Tail(Tail(got))).ok
               /\ Says(a, ApiStatus("info", Head(Tail(Tail(got))).err))

\* A transaction: the lookup, then the tip its confirmations are counted from.
LEMMA TransactionIs ==
  ASSUME NEW arg, NEW got
  PROVE  LooksUp(Api!transaction(arg, got), arg, got)
<1> DEFINE a == Api!transaction(arg, got)
<1>1. arg.is # "hash" => Says(a, 400)
  BY DEF Says, Api!transaction, Api!Refused, Api!Answers
<1>2. arg.is = "hash" /\ got = <<>> => Puts(a, TransactionsCall(<<arg.hash>>))
  BY DEF Puts, Api!transaction, Api!Need, Api!Needed, Api!Asked, Api!Asks,
         Api!Answers, Api!Success, Api!TransactionsCall, TransactionsCall, Api!RingsCall, Api!InfoCall
<1>3. arg.is = "hash" /\ got # <<>> /\ ~Head(got).ok => Says(a, ApiStatus("transactions", Head(got).err))
  BY SameApiStatus DEF Says, Api!transaction, Api!Need, Api!Needed, Api!Asked, Api!Asks,
         Api!Answers, Api!Success, Api!TransactionsCall, TransactionsCall, Api!RingsCall, Api!InfoCall
<1>4. ASSUME arg.is = "hash", got # <<>>, Head(got).ok
      PROVE  \/ Says(a, 404) /\ Head(got).value = <<>>
             \/ Says(a, 502) /\ Head(got).value # <<>> /\ ~Head(Head(got).value).decodes
             \/ Says(a, 200)
             \/ ~a.done /\ a.call.op = "resolve_rings" /\ Tail(got) = <<>>
             \/ ~a.done /\ a.call.op = "info" /\ Tail(got) # <<>> /\ Tail(Tail(got)) = <<>>
             \/ /\ Tail(got) # <<>> /\ Tail(Tail(got)) # <<>> /\ ~Head(Tail(Tail(got))).ok
                /\ Says(a, ApiStatus("info", Head(Tail(Tail(got))).err))
  <2> DEFINE txs == Head(got).value
  <2>1. CASE txs = <<>>
    BY <1>4, <2>1 DEF Says, Api!transaction, Api!Need, Api!Needed, Api!Asked, Api!Asks,
         Api!Answers, Api!Success, Api!TransactionsCall, TransactionsCall, Api!RingsCall, Api!InfoCall
  <2>2. CASE txs # <<>> /\ ~Head(txs).decodes
    BY <1>4, <2>2 DEF Says, Api!transaction, Api!Need, Api!Needed, Api!Asked, Api!Asks,
         Api!Answers, Api!Success, Api!TransactionsCall, TransactionsCall, Api!RingsCall, Api!InfoCall
  <2>3. CASE txs # <<>> /\ Head(txs).decodes
    <3>1. CASE Tail(got) = <<>>
      BY <1>4, <2>3, <3>1 DEF Api!transaction, Api!Need, Api!Needed, Api!Asked, Api!Asks,
         Api!Answers, Api!Success, Api!TransactionsCall, TransactionsCall, Api!RingsCall, Api!InfoCall
    <3>2. CASE Tail(got) # <<>> /\ ~Head(txs).in_pool
      BY <1>4, <2>3, <3>2 DEF Says, Api!transaction, Api!Need, Api!Needed, Api!Asked, Api!Asks,
         Api!Answers, Api!Success, Api!TransactionsCall, TransactionsCall, Api!RingsCall, Api!InfoCall
    <3>3. CASE Tail(got) # <<>> /\ Head(txs).in_pool /\ Tail(Tail(got)) = <<>>
      BY <1>4, <2>3, <3>3 DEF Api!transaction, Api!Need, Api!Needed, Api!Asked, Api!Asks,
         Api!Answers, Api!Success, Api!TransactionsCall, TransactionsCall, Api!RingsCall, Api!InfoCall
    <3>4. CASE Tail(got) # <<>> /\ Head(txs).in_pool /\ Tail(Tail(got)) # <<>>
      BY <1>4, <2>3, <3>4, SameApiStatus DEF Says, Api!transaction, Api!Need, Api!Needed, Api!Asked, Api!Asks,
         Api!Answers, Api!Success, Api!TransactionsCall, TransactionsCall, Api!RingsCall, Api!InfoCall
    <3> QED BY <3>1, <3>2, <3>3, <3>4
  <2> QED BY <2>1, <2>2, <2>3
<1> HIDE DEF a
<1>5. LooksUp(a, arg, got)
  BY <1>1, <1>2, <1>3, <1>4 DEF LooksUp
<1> QED BY <1>5 DEF a

\* A raw transaction: the lookup alone.
LEMMA RawTransactionIs ==
  ASSUME NEW arg, NEW got
  PROVE  LooksUp(Api!raw_transaction(arg, got), arg, got)
<1> DEFINE a == Api!raw_transaction(arg, got)
<1>1. /\ arg.is # "hash" => Says(a, 400)
      /\ arg.is = "hash" =>
           /\ got = <<>> => Puts(a, TransactionsCall(<<arg.hash>>))
           /\ got # <<>> /\ ~Head(got).ok => Says(a, ApiStatus("transactions", Head(got).err))
           /\ got # <<>> /\ Head(got).ok =>
                \/ Says(a, 404) /\ Head(got).value = <<>>
                \/ Says(a, 502) /\ Head(got).value # <<>> /\ ~Head(Head(got).value).decodes
                \/ Says(a, 200)
  BY SameApiStatus DEF Says, Puts, Api!raw_transaction, Api!Need, Api!Needed, Api!Asked, Api!Asks,
     Api!Answers, Api!Success, Api!Refused, Api!TransactionsCall, TransactionsCall
<1> HIDE DEF a
<1>2. LooksUp(a, arg, got)
  BY <1>1 DEF LooksUp
<1> QED BY <1>2 DEF a

\* The fee estimate: one call, whatever is asked for.
LEMMA FeeIs ==
  ASSUME NEW arg, NEW got, NEW a, a = Api!fee_estimate(arg, got)
  PROVE  /\ got = <<>> => ~a.done /\ a.call.op = "fee_estimate"
         /\ got # <<>> /\ ~Head(got).ok => Says(a, 502)
         /\ got # <<>> /\ Head(got).ok => Says(a, 200)
BY DEF Says, Api!fee_estimate, Api!Needed, Api!Asked, Api!Asks, Api!Answers, Api!Success, Api!FeeCall

\* The listing of transactions: its query is read first, then the tip, then a range.
LEMMA TransactionsIs ==
  ASSUME NEW query, NEW got, NEW a, a = Api!transactions(query, got)
  PROVE  LET per == Api!Value(query.limit, DefaultLimit)
             told  == Head(got).value.height
             start == Api!ApiStart(told, per, Api!Value(query.page, 0))
         IN  /\ ~Api!ReadsPage(query, DefaultLimit, MAX_TRANSACTIONS_LIMIT) => Says(a, 400)
             /\ Api!ReadsPage(query, DefaultLimit, MAX_TRANSACTIONS_LIMIT) =>
                  /\ got = <<>> => Puts(a, InfoCall)
                  /\ got # <<>> /\ ~Head(got).ok => Says(a, ApiStatus("info", Head(got).err))
                  /\ got # <<>> /\ Head(got).ok =>
                       \/ Says(a, 200)
                       \/ /\ Tail(got) = <<>>
                          /\ Puts(a, RangeCall(start, Api!ApiEnd(told, start, per)))
                       \/ /\ Tail(got) # <<>> /\ ~Head(Tail(got)).ok
                          /\ Says(a, ApiStatus("blocks_in_range", Head(Tail(got)).err))
BY SameApiStatus DEF Says, Puts, Api!transactions, Api!Need, Api!Needed, Api!Asked, Api!Asks,
   Api!Answers, Api!Success, Api!Refused, Api!InfoCall, InfoCall, Api!RangeCall, RangeCall

\* The pool: its query is read first.
LEMMA MempoolIs ==
  ASSUME NEW query, NEW got, NEW a, a = Api!mempool(query, got)
  PROVE  /\ ~Api!ReadsPage(query, MAX_MEMPOOL_LIMIT, MAX_MEMPOOL_LIMIT) => Says(a, 400)
         /\ Api!ReadsPage(query, MAX_MEMPOOL_LIMIT, MAX_MEMPOOL_LIMIT) =>
              /\ got = <<>> => Puts(a, MempoolCall)
              /\ got # <<>> /\ ~Head(got).ok => Says(a, ApiStatus("mempool", Head(got).err))
              /\ got # <<>> /\ Head(got).ok => Says(a, 200)
BY SameApiStatus DEF Says, Puts, Api!mempool, Api!Need, Api!Needed, Api!Asked, Api!Asks,
   Api!Answers, Api!Success, Api!Refused, Api!MempoolCall, MempoolCall

\* A search: what a height or text is answered, and the two lookups of a hash.
LEMMA SearchIs ==
  ASSUME NEW arg, NEW got, NEW a, a = Api!search(arg, got)
  PROVE  /\ arg.is = "text" => Says(a, 400)
         /\ arg.is = "height" => a = Api!block(arg, got)
         /\ arg.is = "hash" =>
              LET first  == Api!block(arg, got)
                  second == Api!transaction(arg, first.rest)
              IN  \/ a = first /\ (~first.done \/ first.status = 200)
                  \/ /\ first.done /\ first.status # 200
                     /\ \/ a = second /\ (~second.done \/ second.status = 200)
                        \/ Says(a, 404) /\ second.done /\ second.status # 200
BY DEF Says, Api!search, Api!Refused, Api!Answers

\* The network's state: the tip, then what may be missing.
LEMMA NetworkIs ==
  ASSUME NEW got, NEW a, a = Api!network_info(got)
  PROVE  /\ got = <<>> => Puts(a, InfoCall)
         /\ got # <<>> /\ ~Head(got).ok => Says(a, ApiStatus("info", Head(got).err))
         /\ got # <<>> /\ Head(got).ok => ~a.done \/ Says(a, 200)
BY SameApiStatus DEF Says, Puts, Api!network_info, Api!Need, Api!Needed, Api!Asked, Api!Asks, Api!Answers, Api!Success,
   Api!InfoCall, InfoCall

\* The lookup by the end of a hash: the tip, the hashes, the transactions.
LEMMA PrivateIs ==
  ASSUME NEW postfix, NEW got, NEW a, a = Api!transaction_private(postfix, got)
  PROVE  /\ got = <<>> => Puts(a, InfoCall)
         /\ got # <<>> /\ ~Head(got).ok => Says(a, ApiStatus("info", Head(got).err))
         /\ got # <<>> /\ Head(got).ok =>
              \/ Says(a, 400) \/ Says(a, 200)
              \/ Tail(got) = <<>> /\ ~a.done /\ a.call.op = "txids_loose"
              \/ /\ Tail(got) # <<>> /\ ~Head(Tail(got)).ok
                 /\ Says(a, ApiStatus("txids_loose", Head(Tail(got)).err))
              \/ Tail(got) # <<>> /\ Tail(Tail(got)) = <<>> /\ ~a.done /\ a.call.op = "transactions"
              \/ /\ Tail(got) # <<>> /\ Tail(Tail(got)) # <<>> /\ ~Head(Tail(Tail(got))).ok
                 /\ Says(a, ApiStatus("transactions", Head(Tail(Tail(got))).err))
<1>1. got = <<>> => Puts(a, InfoCall)
  BY DEF Puts, InfoCall, Api!transaction_private, Api!Need, Api!Needed, Api!Asked, Api!Asks, Api!Answers,
         Api!InfoCall
<1>2. got # <<>> /\ ~Head(got).ok => Says(a, ApiStatus("info", Head(got).err))
  BY SameApiStatus DEF Says, Api!transaction_private, Api!Need, Api!Needed, Api!Asked, Api!Asks, Api!Answers,
         Api!InfoCall
<1>3. ASSUME got # <<>>, Head(got).ok
      PROVE  \/ Says(a, 400) \/ Says(a, 200)
             \/ Tail(got) = <<>> /\ ~a.done /\ a.call.op = "txids_loose"
             \/ /\ Tail(got) # <<>> /\ ~Head(Tail(got)).ok
                /\ Says(a, ApiStatus("txids_loose", Head(Tail(got)).err))
             \/ Tail(got) # <<>> /\ Tail(Tail(got)) = <<>> /\ ~a.done /\ a.call.op = "transactions"
             \/ /\ Tail(got) # <<>> /\ Tail(Tail(got)) # <<>> /\ ~Head(Tail(Tail(got))).ok
                /\ Says(a, ApiStatus("transactions", Head(Tail(Tail(got))).err))
  <2>1. CASE Tail(got) = <<>>
    BY <1>3, <2>1 DEF Says, Api!Refused, Api!TxidsCall, Api!transaction_private, Api!Need, Api!Needed, Api!Asked, Api!Asks, Api!Answers,
         Api!InfoCall
  <2>2. CASE Tail(got) # <<>> /\ ~Head(Tail(got)).ok
    BY <1>3, <2>2, SameApiStatus DEF Says, Api!Refused, Api!TxidsCall, Api!transaction_private, Api!Need, Api!Needed, Api!Asked, Api!Asks, Api!Answers,
         Api!InfoCall
  <2>3. CASE Tail(got) # <<>> /\ Head(Tail(got)).ok
    <3> DEFINE info == Head(got).value
               txids == Head(Tail(got)).value
               matching == Api!Within(txids, {t \in Api!Range(txids) : Api!EndsWith(t, postfix)})
               refused == \/ Api!check_postfix(postfix, Api!total_transactions(info)) # "Ok"
                          \/ Api!from_hex_suffix(Api!whole_byte_suffix(postfix)) = {}
    <3>1. CASE refused
      BY <1>3, <3>1 DEF Says, Api!Refused, Api!Answers, Api!transaction_private, Api!Need, Api!Needed, Api!Asked,
           Api!InfoCall, Api!TxidsCall
    <3>2. CASE ~refused /\ Len(matching) > MAX_PRIVATE_TX_MATCHES
      <4>1. a = Api!Refused(Tail(Tail(got)))
        BY <1>3, <2>3, <3>2 DEF Api!transaction_private, Api!Need, Api!Needed, Api!Asked,
           Api!InfoCall, Api!TxidsCall
      <4> QED BY <4>1 DEF Says, Api!Refused, Api!Answers
    <3>3. CASE ~refused /\ ~(Len(matching) > MAX_PRIVATE_TX_MATCHES) /\ matching = <<>>
      <4>1. \E b, r : a = Api!Success(b, r)
        BY <1>3, <2>3, <3>3, Zenon DEF Api!Fetched, Api!transaction_private, Api!Need, Api!Needed, Api!Asked,
           Api!InfoCall, Api!TxidsCall
      <4> QED BY <4>1 DEF Says, Api!Success, Api!Answers
    <3>4. CASE /\ ~refused /\ ~(Len(matching) > MAX_PRIVATE_TX_MATCHES) /\ matching # <<>>
               /\ Tail(Tail(got)) = <<>>
      BY <1>3, <2>3, <3>4 DEF Api!Fetched, Api!TransactionsCall, Api!Asks, Api!transaction_private, Api!Need, Api!Needed, Api!Asked,
           Api!InfoCall, Api!TxidsCall
    <3>5. CASE /\ ~refused /\ ~(Len(matching) > MAX_PRIVATE_TX_MATCHES) /\ matching # <<>>
               /\ Tail(Tail(got)) # <<>>
      <4>1. CASE ~Head(Tail(Tail(got))).ok
        BY <1>3, <2>3, <3>5, <4>1, SameApiStatus
        DEF Says, Api!Fetched, Api!TransactionsCall, Api!Answers, Api!transaction_private, Api!Need, Api!Needed, Api!Asked,
           Api!InfoCall, Api!TxidsCall
      <4>2. CASE Head(Tail(Tail(got))).ok
        <5>1. \E b, r : a = Api!Success(b, r)
          BY <1>3, <2>3, <3>5, <4>2, Zenon DEF Api!Fetched, Api!TransactionsCall, Api!transaction_private, Api!Need, Api!Needed, Api!Asked,
           Api!InfoCall, Api!TxidsCall
        <5> QED BY <5>1 DEF Says, Api!Success, Api!Answers
      <4> QED BY <4>1, <4>2
    <3> HIDE DEF refused, matching
    <3> QED BY <3>1, <3>2, <3>3, <3>4, <3>5
  <2> QED BY <2>1, <2>2, <2>3
<1> QED BY <1>1, <1>2, <1>3

\* A range of blocks: refused for its form before the tip, for its end after it.
LEMMA BlocksRangeIs ==
  ASSUME NEW start, NEW end, NEW got, NEW a, a = Api!blocks_range(start, end, got)
  PROVE  LET bad == \/ ~Api!IsNumber(start) \/ ~Api!IsNumber(end)
                    \/ start.value > end.value
                    \/ (end.value - start.value) + 1 > Limits.block_range
         IN  /\ bad => Says(a, 400)
             /\ ~bad =>
                  /\ got = <<>> => Puts(a, InfoCall)
                  /\ got # <<>> /\ ~Head(got).ok => Says(a, ApiStatus("info", Head(got).err))
                  /\ got # <<>> /\ Head(got).ok =>
                       \/ Says(a, 404) /\ end.value > Head(got).value.height
                       \/ Says(a, 200)
                       \/ Tail(got) = <<>> /\ Puts(a, RangeCall(start.value, end.value))
                       \/ /\ Tail(got) # <<>> /\ ~Head(Tail(got)).ok
                          /\ Says(a, ApiStatus("blocks_in_range", Head(Tail(got)).err))
BY SameApiStatus DEF Says, Puts, Api!blocks_range, Api!Need, Api!Needed, Api!Asked, Api!Asks,
   Api!Answers, Api!Success, Api!Refused, Api!InfoCall, InfoCall, Api!RangeCall, RangeCall

\* The latest transactions: the tip, then what may be missing.
LEMMA RecentIs ==
  ASSUME NEW got, NEW a, a = Api!transactions_recent(got)
  PROVE  /\ got = <<>> => Puts(a, InfoCall)
         /\ got # <<>> /\ ~Head(got).ok => Says(a, ApiStatus("info", Head(got).err))
         /\ got # <<>> /\ Head(got).ok => ~a.done \/ Says(a, 200)
BY SameApiStatus DEF Says, Puts, Api!transactions_recent, Api!Need, Api!Needed, Api!Asked, Api!Asks, Api!Answers, Api!Success,
   Api!InfoCall, InfoCall

-----------------------------------------------------------------------------
\* The handlers of the pages, reply by reply (Pages).

\* A page has the status it is given.
LEMMA PageIs ==
  ASSUME NEW status, NEW chain, NEW body, NEW rest
  PROVE  Says(Html!Page(status, chain, body, rest), status)
BY DEF Html!Page, Html!Answers, Says

\* So has an error page.
LEMMA ErrorPageIs ==
  ASSUME NEW status, NEW chain, NEW rest
  PROVE  Says(Html!error_page(status, chain, rest), status)
BY PageIs DEF Html!error_page

\* What is not served: the strip, then nothing found.
LEMMA NotFoundIs ==
  ASSUME NEW got, NEW a, a = Html!not_found(got)
  PROVE  IF got = <<>> THEN Puts(a, InfoCall) ELSE Says(a, 404)
BY ErrorPageIs DEF Html!not_found, Html!Stripped, Html!Asked, Html!Asks, Html!InfoCall, InfoCall, Puts

\* The documents of the API.
LEMMA DocsIs ==
  ASSUME NEW got, NEW a, a = Html!api_docs(got)
  PROVE  IF got = <<>> THEN Puts(a, InfoCall) ELSE ~a.done \/ Says(a, 200)
<1>1. CASE got = <<>>
  BY <1>1 DEF Html!api_docs, Html!Stripped, Html!Asked, Html!Asks, Html!InfoCall, InfoCall, Puts
<1>2. CASE got # <<>> /\ Tail(got) = <<>>
  BY <1>2 DEF Html!api_docs, Html!Stripped, Html!Asked, Html!Asks, Html!InfoCall
<1>3. CASE got # <<>> /\ Tail(got) # <<>>
  <2>1. \E c, b, r : a = Html!Page(200, c, b, r)
    BY <1>3, ZenonT(90) DEF Html!api_docs, Html!Stripped, Html!Asked
  <2> QED BY <1>3, <2>1, PageIs
<1> QED BY <1>1, <1>2, <1>3

\* A search on a page: a redirect, or nothing found.
LEMMA PageSearchIs ==
  ASSUME NEW arg, IsId(arg) \/ arg.is = "empty", NEW got, NEW a, a = Html!search(arg, got)
  PROVE  IF arg.is = "text" THEN IF got = <<>> THEN Puts(a, InfoCall) ELSE Says(a, 404)
         ELSE ~a.done \/ Says(a, 303)
<1>1. CASE arg.is = "text"
  BY <1>1, ErrorPageIs DEF Html!search, Html!Stripped, Html!Asked, Html!Asks, Html!InfoCall, InfoCall, Puts
<1>2. CASE arg.is \in {"empty", "height"}
  BY <1>2 DEF Html!search, Html!Answers, Says
<1>3. CASE arg.is = "hash"
  BY <1>3 DEF Html!search, Html!Asked, Html!Asks, Html!Answers, Says
<1> QED BY <1>1, <1>2, <1>3 DEF IsId

\* The alternative chains.
LEMMA AltBlocksIs ==
  ASSUME NEW got, NEW a, a = Html!alt_blocks(got)
  PROVE  /\ got = <<>> => Puts(a, InfoCall)
         /\ got # <<>> =>
              \/ Tail(got) = <<>> /\ Puts(a, AltChainsCall)
              \/ /\ Tail(got) # <<>> /\ ~Head(Tail(got)).ok
                 /\ Says(a, PageStatus("alt_chains", Head(Tail(got)).err))
              \/ Says(a, 200)
<1>1. CASE got = <<>>
  BY <1>1 DEF Html!alt_blocks, Html!Stripped, Html!Asked, Html!Asks, Html!InfoCall, InfoCall, Puts
<1>2. CASE got # <<>> /\ Tail(got) = <<>>
  BY <1>2 DEF Html!alt_blocks, Html!Stripped, Html!Needed, Html!Asked, Html!Asks, Html!AltChainsCall, AltChainsCall, Puts
<1>3. CASE got # <<>> /\ Tail(got) # <<>> /\ ~Head(Tail(got)).ok
  BY <1>3, SamePageStatus DEF Html!alt_blocks, Html!Stripped, Html!Needed, Html!Asked, Html!Answers,
     Html!AltChainsCall, Says
<1>4. CASE got # <<>> /\ Tail(got) # <<>> /\ Head(Tail(got)).ok
  <2>1. \E c, b, r : a = Html!Page(200, c, b, r)
    BY <1>4, Zenon DEF Html!alt_blocks, Html!Stripped, Html!Needed, Html!Asked
  <2> QED BY <1>4, <2>1, PageIs
<1> QED BY <1>1, <1>2, <1>3, <1>4

\* The pool.
LEMMA PoolPageIs ==
  ASSUME NEW sort, NEW dir, NEW at, NEW got, NEW a, a = Html!mempool(sort, dir, at, got)
  PROVE  /\ got = <<>> => Puts(a, InfoCall)
         /\ got # <<>> =>
              \/ Tail(got) = <<>> /\ Puts(a, MempoolCall)
              \/ /\ Tail(got) # <<>> /\ ~Head(Tail(got)).ok
                 /\ Says(a, PageStatus("mempool", Head(Tail(got)).err))
              \/ Says(a, 200)
<1>1. CASE got = <<>>
  BY <1>1 DEF Html!mempool, Html!Stripped, Html!Asked, Html!Asks, Html!InfoCall, InfoCall, Puts
<1>2. CASE got # <<>> /\ Tail(got) = <<>>
  BY <1>2 DEF Html!mempool, Html!Stripped, Html!Needed, Html!Asked, Html!Asks, Html!MempoolCall, MempoolCall, Puts
<1>3. CASE got # <<>> /\ Tail(got) # <<>> /\ ~Head(Tail(got)).ok
  BY <1>3, SamePageStatus DEF Html!mempool, Html!Stripped, Html!Needed, Html!Asked, Html!Answers,
     Html!MempoolCall, Says
<1>4. CASE got # <<>> /\ Tail(got) # <<>> /\ Head(Tail(got)).ok
  <2>1. \E c, b, r : a = Html!Page(200, c, b, r)
    BY <1>4, Zenon DEF Html!mempool, Html!Stripped, Html!Needed, Html!Asked
  <2> QED BY <1>4, <2>1, PageIs
<1> QED BY <1>1, <1>2, <1>3, <1>4

\* A transaction.
LEMMA TxPageIs ==
  ASSUME NEW arg, NEW got, NEW a, a = Html!transaction(arg, got)
  PROVE  /\ got = <<>> => Puts(a, InfoCall)
         /\ got # <<>> /\ arg.is # "hash" => Says(a, 404)
         /\ got # <<>> /\ arg.is = "hash" =>
              \/ Tail(got) = <<>> /\ Puts(a, TransactionsCall(<<arg.hash>>))
              \/ /\ Tail(got) # <<>> /\ ~Head(Tail(got)).ok
                 /\ Says(a, PageStatus("transactions", Head(Tail(got)).err))
              \/ /\ Tail(got) # <<>> /\ Head(Tail(got)).ok
                 /\ \/ Says(a, 404) /\ Head(Tail(got)).value = <<>>
                    \/ /\ Says(a, 502) /\ Head(Tail(got)).value # <<>>
                       /\ ~Head(Head(Tail(got)).value).decodes
                    \/ ~a.done
                    \/ Says(a, 200)
<1>1. CASE got = <<>>
  BY <1>1 DEF Html!transaction, Html!Stripped, Html!Asked, Html!Asks, Html!InfoCall, InfoCall, Puts
<1>2. CASE got # <<>> /\ arg.is # "hash"
  BY <1>2, ErrorPageIs DEF Html!transaction, Html!Stripped, Html!Asked
<1>3. CASE got # <<>> /\ arg.is = "hash" /\ Tail(got) = <<>>
  BY <1>3 DEF Html!transaction, Html!Stripped, Html!Needed, Html!Asked, Html!Asks,
     Html!TransactionsCall, TransactionsCall, Puts
<1>4. CASE got # <<>> /\ arg.is = "hash" /\ Tail(got) # <<>> /\ ~Head(Tail(got)).ok
  BY <1>4, SamePageStatus DEF Html!transaction, Html!Stripped, Html!Needed, Html!Asked, Html!Answers,
     Html!TransactionsCall, Says
<1>5. CASE got # <<>> /\ arg.is = "hash" /\ Tail(got) # <<>> /\ Head(Tail(got)).ok
  <2> DEFINE txs == Head(Tail(got)).value
  <2>1. CASE txs = <<>>
    <3>1. \E c, r : a = Html!error_page(404, c, r)
      BY <1>5, <2>1 DEF Html!transaction, Html!Stripped, Html!Needed, Html!Asked
    <3> QED BY <1>5, <2>1, <3>1, ErrorPageIs
  <2>2. CASE txs # <<>> /\ ~Head(txs).decodes
    <3>1. \E c, r : a = Html!error_page(502, c, r)
      BY <1>5, <2>2 DEF Html!transaction, Html!Stripped, Html!Needed, Html!Asked
    <3> QED BY <1>5, <2>2, <3>1, ErrorPageIs
  <2>3. CASE txs # <<>> /\ Head(txs).decodes /\ Tail(Tail(got)) = <<>>
    BY <1>5, <2>3 DEF Html!transaction, Html!Stripped, Html!Needed, Html!Asked, Html!Asks
  <2>4. CASE txs # <<>> /\ Head(txs).decodes /\ Tail(Tail(got)) # <<>>
    <3>1. \E c, b, r : a = Html!Page(200, c, b, r)
      BY <1>5, <2>4, ZenonT(60) DEF Html!transaction, Html!Stripped, Html!Needed, Html!Asked
    <3> QED BY <1>5, <2>4, <3>1, PageIs
  <2> QED BY <2>1, <2>2, <2>3, <2>4
<1> QED BY <1>1, <1>2, <1>3, <1>4, <1>5

\* A block.
LEMMA BlockPageIs ==
  ASSUME NEW arg, NEW sort, NEW dir, NEW got, NEW a, a = Html!block(arg, sort, dir, got)
  PROVE  /\ got = <<>> => Puts(a, InfoCall)
         /\ got # <<>> /\ arg.is = "text" => Says(a, 404)
         /\ got # <<>> /\ arg.is # "text" =>
              \/ Tail(got) = <<>> /\ Puts(a, BlockCall(arg))
              \/ /\ Tail(got) # <<>> /\ ~Head(Tail(got)).ok
                 /\ Says(a, PageStatus("block", Head(Tail(got)).err))
              \/ /\ Tail(got) # <<>> /\ Head(Tail(got)).ok /\ Tail(Tail(got)) = <<>>
                 /\ ~a.done /\ a.call.op = "transactions"
              \/ /\ Tail(got) # <<>> /\ Head(Tail(got)).ok /\ Tail(Tail(got)) # <<>>
                 /\ ~Head(Tail(Tail(got))).ok
                 /\ Says(a, PageStatus("transactions", Head(Tail(Tail(got))).err))
              \/ Says(a, 200)
<1>1. CASE got = <<>>
  BY <1>1 DEF Html!block, Html!Stripped, Html!Asked, Html!Asks, Html!InfoCall, InfoCall, Puts
<1>2. CASE got # <<>> /\ arg.is = "text"
  BY <1>2, ErrorPageIs DEF Html!block, Html!Stripped, Html!Asked
<1>3. CASE got # <<>> /\ arg.is # "text" /\ Tail(got) = <<>>
  BY <1>3 DEF Html!block, Html!Stripped, Html!Needed, Html!Asked, Html!Asks, Html!BlockCall, BlockCall, Puts
<1>4. CASE got # <<>> /\ arg.is # "text" /\ Tail(got) # <<>> /\ ~Head(Tail(got)).ok
  BY <1>4, SamePageStatus DEF Html!block, Html!Stripped, Html!Needed, Html!Asked, Html!Answers,
     Html!BlockCall, Says
<1>5. CASE got # <<>> /\ arg.is # "text" /\ Tail(got) # <<>> /\ Head(Tail(got)).ok
  <2> DEFINE b == Head(Tail(got)).value
             hashes == <<b.miner_tx_hash>> \o b.tx_hashes
  <2>1. CASE hashes = <<>>
    <3>1. \E c, v, r : a = Html!Page(200, c, v, r)
      BY <1>5, <2>1, Zenon DEF Html!block, Html!Stripped, Html!Needed, Html!Asked, Html!Fetched
    <3> QED BY <1>5, <3>1, PageIs
  <2>2. CASE hashes # <<>> /\ Tail(Tail(got)) = <<>>
    BY <1>5, <2>2 DEF Html!block, Html!Stripped, Html!Needed, Html!Asked, Html!Asks, Html!Fetched, Html!TransactionsCall
  <2>3. CASE hashes # <<>> /\ Tail(Tail(got)) # <<>> /\ ~Head(Tail(Tail(got))).ok
    BY <1>5, <2>3, SamePageStatus DEF Html!block, Html!Stripped, Html!Needed, Html!Asked, Html!Answers, Html!Fetched,
       Html!TransactionsCall, Says
  <2>4. CASE hashes # <<>> /\ Tail(Tail(got)) # <<>> /\ Head(Tail(Tail(got))).ok
    <3>1. \E c, v, r : a = Html!Page(200, c, v, r)
      BY <1>5, <2>4, Zenon DEF Html!block, Html!Stripped, Html!Needed, Html!Asked, Html!Fetched
    <3> QED BY <1>5, <3>1, PageIs
  <2> HIDE DEF hashes
  <2> QED BY <1>5, <2>1, <2>2, <2>3, <2>4
<1> QED BY <1>1, <1>2, <1>3, <1>4, <1>5

\* A page of the listing of blocks: without a tip there is none.
LEMMA IndexIs ==
  ASSUME NEW at, NEW got, NEW a, a = Html!render_page(at, got)
  PROVE  LET top == Html!HtmlTop(Head(got).value.height, at)
         IN  /\ got = <<>> => Puts(a, InfoCall)
             /\ got # <<>> /\ ~Head(got).ok => Says(a, 502)
             /\ got # <<>> /\ Head(got).ok =>
                  \/ Tail(got) = <<>> /\ Puts(a, HeadersCall(Html!HtmlBegin(top), top))
                  \/ /\ Tail(got) # <<>> /\ ~Head(Tail(got)).ok
                     /\ Says(a, PageStatus("headers_range", Head(Tail(got)).err))
                  \/ Says(a, 200)
<1>1. CASE got = <<>>
  BY <1>1 DEF Html!render_page, Html!Stripped, Html!Asked, Html!Asks, Html!InfoCall, InfoCall, Puts
<1>2. CASE got # <<>> /\ ~Head(got).ok
  <2>1. \E c, r : a = Html!error_page(502, c, r)
    BY <1>2 DEF Html!render_page, Html!Stripped, Html!Asked, Html!status_of
  <2> QED BY <1>2, <2>1, ErrorPageIs
<1>3. CASE got # <<>> /\ Head(got).ok
  <2> DEFINE told == Head(got).value.height
             top == Html!HtmlTop(told, at)
  <2>1. Html!status_of(Head(got)) = {told} /\ {told} # {} /\ (CHOOSE h \in {told} : TRUE) = told
    BY <1>3 DEF Html!status_of
  <2>2. CASE Tail(got) = <<>>
    BY <1>3, <2>1, <2>2 DEF Html!render_page, Html!Stripped, Html!Needed, Html!Asked, Html!Asks,
       Html!HeadersCall, HeadersCall, Puts
  <2>3. CASE Tail(got) # <<>> /\ ~Head(Tail(got)).ok
    BY <1>3, <2>1, <2>3, SamePageStatus DEF Html!render_page, Html!Stripped, Html!Needed, Html!Asked,
       Html!HeadersCall, Html!Answers, Says
  <2>4. CASE Tail(got) # <<>> /\ Head(Tail(got)).ok
    <3>1. \E c, v, r : a = Html!Page(200, c, v, r)
      BY <1>3, <2>1, <2>4, Zenon DEF Html!render_page, Html!Stripped, Html!Needed, Html!Asked
    <3> QED BY <1>3, <3>1, PageIs
  <2> QED BY <1>3, <2>2, <2>3, <2>4
<1> QED BY <1>1, <1>2, <1>3

\* What is no number has no page.
LEMMA PageAtIs ==
  ASSUME NEW arg, NEW got, NEW a, a = Html!page_at(arg, got)
  PROVE  IF arg.given = "number" THEN a = Html!render_page(arg.value, got)
         ELSE IF got = <<>> THEN Puts(a, InfoCall) ELSE Says(a, 404)
BY ErrorPageIs DEF Html!page_at, Html!Stripped, Html!Asked, Html!Asks, Html!InfoCall, InfoCall, Puts

-----------------------------------------------------------------------------
\* What the replies of a conversation tell.

Simple == Ops \ {"block", "headers_range", "blocks_in_range"}

\* The handler of each route.
LEMMA RoutedTo ==
  ASSUME NEW what, NEW got
  PROVE  /\ what.route = "idle" => Routed(what, got) = Answers(0, Empty, got)
         /\ what.route = "health" => Routed(what, got) = Answers(200, Empty, got)
         /\ what.route = "/api/version" => Routed(what, got) = Api!version(got)
         /\ what.route = "/api/block" => Routed(what, got) = Api!block(what.arg, got)
         /\ what.route = "/api/transaction" => Routed(what, got) = Api!transaction(what.arg, got)
         /\ what.route = "/api/rawblock" => Routed(what, got) = Api!raw_block(what.arg, got)
         /\ what.route = "/api/rawtransaction" => Routed(what, got) = Api!raw_transaction(what.arg, got)
         /\ what.route = "/api/feeestimate" => Routed(what, got) = Api!fee_estimate(what.arg, got)
         /\ what.route = "/api/transactions" => Routed(what, got) = Api!transactions(what.arg, got)
         /\ what.route = "/api/mempool" => Routed(what, got) = Api!mempool(what.arg, got)
         /\ what.route = "/api/search" => Routed(what, got) = Api!search(what.arg, got)
         /\ what.route = "/api/networkinfo" => Routed(what, got) = Api!network_info(got)
         /\ what.route = "/api/blocks" => Routed(what, got) = Api!blocks_range(what.arg.start, what.arg.end, got)
         /\ what.route = "/api/transaction/private" => Routed(what, got) = Api!transaction_private(what.arg, got)
         /\ what.route = "/api/transactions/recent" => Routed(what, got) = Api!transactions_recent(got)
         /\ what.route = "/" => Routed(what, got) = Html!index(got)
         /\ what.route = "/page" => Routed(what, got) = Html!page_at(what.arg, got)
         /\ what.route = "/block" => Routed(what, got) = Html!block(what.arg, what.sort, what.dir, got)
         /\ what.route = "/tx" => Routed(what, got) = Html!transaction(what.arg, got)
         /\ what.route = "/mempool" => Routed(what, got) = Html!mempool(what.sort, what.dir, 5, got)
         /\ what.route = "/altblocks" => Routed(what, got) = Html!alt_blocks(got)
         /\ what.route = "/search" => Routed(what, got) = Html!search(what.arg, got)
         /\ what.route = "/api" => Routed(what, got) = Html!api_docs(got)
         /\ what.route = "unknown" => Routed(what, got) = Html!not_found(got)
BY DEF Routed

\* The failures that end a handler, by the reply that failed.
LEMMA FirstFails ==
  ASSUME NEW what, NEW got, NEW low, Conversed(what, got, low), ~Malformed(what),
         got # <<>>, ~Head(got).ok, NEW op \in Simple, Routed(what, <<>>).call.op = op
  PROVE  /\ IsApi(what) => Fair(what, got, low, ApiStatus(op, Head(got).err))
         /\ ~IsApi(what) => Fair(what, got, low, PageStatus(op, Head(got).err))
         /\ Fair(what, got, low, 502)
<1>1. Reply(Routed(what, <<>>), Head(got), low) /\ Head(got).err \in Errs(got)
  BY Told
<1>2. low \in Nat /\ height \in Nat
  BY DEF Conversed
<1>3. CASE IsApi(what)
  BY <1>1, <1>2, <1>3, ApiEnds DEF Simple
<1>4. CASE ~IsApi(what)
  BY <1>1, <1>2, <1>4, PageEnds DEF Simple
<1> QED BY <1>3, <1>4

\* The same of the second reply.
LEMMA SecondFails ==
  ASSUME NEW what, NEW got, NEW low, Conversed(what, got, low), ~Malformed(what),
         got # <<>>, Tail(got) # <<>>, ~Head(Tail(got)).ok,
         NEW op \in Simple, Routed(what, <<Head(got)>>).call.op = op
  PROVE  /\ IsApi(what) => Fair(what, got, low, ApiStatus(op, Head(Tail(got)).err))
         /\ ~IsApi(what) => Fair(what, got, low, PageStatus(op, Head(Tail(got)).err))
<1>1. Reply(Routed(what, <<Head(got)>>), Head(Tail(got)), low) /\ Head(Tail(got)).err \in Errs(got)
  BY Told
<1>2. low \in Nat /\ height \in Nat
  BY DEF Conversed
<1>3. CASE IsApi(what)
  BY <1>1, <1>2, <1>3, ApiEnds DEF Simple
<1>4. CASE ~IsApi(what)
  BY <1>1, <1>2, <1>4, PageEnds DEF Simple
<1> QED BY <1>3, <1>4

\* And of the third.
LEMMA ThirdFails ==
  ASSUME NEW what, NEW got, NEW low, Conversed(what, got, low), ~Malformed(what),
         got # <<>>, Tail(got) # <<>>, Tail(Tail(got)) # <<>>, ~Head(Tail(Tail(got))).ok,
         NEW op \in Simple, Routed(what, <<Head(got), Head(Tail(got))>>).call.op = op
  PROVE  /\ IsApi(what) => Fair(what, got, low, ApiStatus(op, Head(Tail(Tail(got))).err))
         /\ ~IsApi(what) => Fair(what, got, low, PageStatus(op, Head(Tail(Tail(got))).err))
<1>1. Reply(Routed(what, <<Head(got), Head(Tail(got))>>), Head(Tail(Tail(got))), low)
      /\ Head(Tail(Tail(got))).err \in Errs(got)
  BY Told
<1>2. low \in Nat /\ height \in Nat
  BY DEF Conversed
<1>3. CASE IsApi(what)
  BY <1>1, <1>2, <1>3, ApiEnds DEF Simple
<1>4. CASE ~IsApi(what)
  BY <1>1, <1>2, <1>4, PageEnds DEF Simple
<1> QED BY <1>3, <1>4

\* What was told of the tip is of the past, and of a past no later than what is
\* heard next.
LEMMA ToldTip ==
  ASSUME NEW what, NEW got, NEW low, Conversed(what, got, low), got # <<>>, Head(got).ok,
         Routed(what, <<>>).call.op = "info"
  PROVE  Head(got).value.height \in low..height
<1>1. Reply(Routed(what, <<>>), Head(got), low)
  BY Told
<1>2. \A f : ~Err(f).ok
  BY DEF Err
<1>3. \A h : Ok(Info(h)).value.height = h
  BY DEF Ok, Info
<1> QED BY <1>1, <1>2, <1>3 DEF Reply

\* A second reply, after a tip, is of a chain no shorter than that tip.
LEMMA ToldFirst ==
  ASSUME NEW what, NEW got, NEW low, Conversed(what, got, low), got # <<>>, Head(got).ok, Tail(got) # <<>>,
         Routed(what, <<>>).call.op = "info", Routed(what, <<Head(got)>>).call.op # "info"
  PROVE  \E h \in low..height :
           /\ Head(Tail(got)) \in Replies(Routed(what, <<Head(got)>>).call, h, offers)
                                 \cup Failures(Routed(what, <<Head(got)>>).call)
           /\ Head(got).value.height <= h
<1>1. PICK S : got \in Seq(S)
  BY DEF Conversed
<1>2. Len(got) \in Nat /\ Head(got) = got[1] /\ Tail(got) \in Seq(S) /\ Len(Tail(got)) = Len(got) - 1
      /\ \A i \in 1..(Len(got) - 1) : Tail(got)[i] = got[i + 1]
  BY <1>1
<1>3. Len(Tail(got)) # 0
  BY <1>2
<1>4. Len(got) >= 2 /\ Head(Tail(got)) = got[2]
  BY <1>2, <1>3
<1>5. Heard(what, got, 2, low)
  BY <1>2, <1>4 DEF Conversed
<1>6. SubSeq(got, 1, 2 - 1) = <<Head(got)>> /\ SubSeq(got, 1, 1 - 1) = <<>>
  <2>1. got[1] \in S
    BY <1>1, <1>2, <1>4
  <2>2. SubSeq(got, 1, 1) \in Seq(S) /\ Len(SubSeq(got, 1, 1)) = 1 /\ SubSeq(got, 1, 1)[1] = got[1]
    BY <1>1, <1>2, <1>4
  <2>3. <<got[1]>> \in Seq(S) /\ Len(<<got[1]>>) = 1 /\ <<got[1]>>[1] = got[1]
    BY <2>1
  <2>4. \A i \in 1..1 : SubSeq(got, 1, 1)[i] = <<got[1]>>[i]
    BY <2>2, <2>3
  <2>5. SubSeq(got, 1, 1) = <<got[1]>>
    BY <2>2, <2>3, <2>4, SeqEqual
  <2>6. SubSeq(got, 1, 0) \in Seq(S) /\ Len(SubSeq(got, 1, 0)) = 0
    BY <1>1, <1>2
  <2>7. SubSeq(got, 1, 0) = <<>>
    BY <2>6
  <2>8. 2 - 1 = 1 /\ 1 - 1 = 0
    OBVIOUS
  <2> QED BY <1>2, <2>5, <2>7, <2>8
<1>7. Before(what, got, 2) = Routed(what, <<Head(got)>>) /\ Before(what, got, 1) = Routed(what, <<>>)
  BY <1>6 DEF Before
<1>8. PICK h \in low..height :
        /\ got[2] \in Replies(Routed(what, <<Head(got)>>).call, h, offers)
                      \cup Failures(Routed(what, <<Head(got)>>).call)
        /\ \A j \in 1..(2 - 1) : Before(what, got, j).call.op = "info" /\ got[j].ok => got[j].value.height <= h
  BY <1>5, <1>7 DEF Heard
<1>9. 1 \in 1..(2 - 1)
  OBVIOUS
<1> QED BY <1>2, <1>4, <1>7, <1>8, <1>9

\* A range within the chain is not refused.
LEMMA RangeFails ==
  ASSUME NEW what, NEW got, NEW low, Conversed(what, got, low), got # <<>>, Head(got).ok, Tail(got) # <<>>,
         Routed(what, <<>>).call.op = "info", NEW a, NEW b \in Int,
         Routed(what, <<Head(got)>>).call \in {RangeCall(a, b), HeadersCall(a, b)},
         b < Head(got).value.height, ~Head(Tail(got)).ok
  PROVE  Head(Tail(got)).err \in Faults
<1> DEFINE call == Routed(what, <<Head(got)>>).call
           reply == Head(Tail(got))
<1>1. call.op \in {"headers_range", "blocks_in_range"} /\ call.last = b
  BY DEF RangeCall, HeadersCall
<1>2. PICK h \in low..height : reply \in Replies(call, h, offers) \cup Failures(call) /\ Head(got).value.height <= h
  BY <1>1, ToldFirst
<1>3. Head(got).value.height \in Int /\ h \in Int
  <2>1. low \in Nat /\ height \in Nat
    BY DEF Conversed
  <2>2. Head(got).value.height \in low..height
    BY ToldTip
  <2> QED BY <1>2, <2>1, <2>2
<1>4. ~(call.last >= h)
  BY <1>1, <1>2, <1>3
<1>5. \A v : Ok(v).ok
  BY DEF Ok
<1> HIDE DEF call, reply
<1>6. reply \notin Replies(call, h, offers)
  <2>1. CASE call.op = "headers_range"
    BY <1>4, <1>5, <2>1 DEF Replies, reply
  <2>2. CASE call.op = "blocks_in_range"
    BY <1>4, <1>5, <2>2 DEF Replies, reply
  <2> QED BY <1>1, <2>1, <2>2
<1>7. \A e : Err(e).err = e
  BY DEF Err
<1> QED BY <1>2, <1>6, <1>7 DEF Failures, reply

\* A fault is a failure, whatever came before.
LEMMA FaultIsFair ==
  ASSUME NEW what, ~Malformed(what), NEW got, NEW low, Errs(got) \cap Faults # {}
  PROVE  Fair(what, got, low, 502)
BY DEF Fair

\* A transaction that is not found is not known; one that cannot be read is one that
\* is sent so.
LEMMA TransactionTold ==
  ASSUME NEW low \in Nat, height \in Nat, NEW asked, NEW reply, Reply(asked, reply, low), reply.ok, NEW t,
         asked.call = TransactionsCall(<<t>>)
  PROVE  /\ reply.value = <<>> => ~Known(t, low)
         /\ reply.value # <<>> /\ ~Head(reply.value).decodes => t \in Undecodable
<1>1. asked.call.op = "transactions" /\ asked.call.hashes = <<t>>
  BY DEF TransactionsCall
<1>2. PICK h \in low..height : reply \in Replies(asked.call, h, offers) \cup Failures(asked.call)
  BY <1>1 DEF Reply
<1>3. reply \in TransactionsReplies(<<t>>, h)
  BY <1>1, <1>2 DEF Failures, Err, Replies
<1> DEFINE E == Entries(<<t>>, h)
<1>4. PICK at : reply.value = EntriesAsOf(<<t>>, h, at)
  BY <1>3 DEF TransactionsReplies, Ok
<1> DEFINE known == Within(<<t>>, {u \in Range(<<t>>) : Known(u, h)})
<1>5. E = [i \in DOMAIN known |-> Entry(known[i], h)]
  BY DEF Entries
<1>6. \A u, k : Entry(u, k).tx_hash = u /\ (Entry(u, k).decodes <=> u \notin Undecodable)
  BY DEF Entry
<1>7. known \in Seq({t}) /\ (Known(t, h) => Len(known) >= 1) /\ Len(known) \in Nat
  <2>1. <<t>> \in Seq({t}) /\ Range(<<t>>) = {t} /\ Len(<<t>>) = 1 /\ <<t>>[1] = t
    BY DEF Range
  <2>2. known \in Seq({t})
    BY <2>1, SiftPicks
  <2>3. PICK p : Picks(known, p, <<t>>, {u \in Range(<<t>>) : Known(u, h)}, Len(<<t>>))
    BY <2>1, SiftPicks
  <2>4. Len(known) \in Nat
    BY <2>2
  <2>5. ASSUME Known(t, h) PROVE Len(known) >= 1
    <3>1. <<t>>[1] \in {u \in Range(<<t>>) : Known(u, h)} /\ 1 \in 1..Len(<<t>>)
      BY <2>1, <2>5
    <3> HIDE DEF known
    <3>2. \E k \in 1..Len(known) : p[k] = 1
      BY <2>3, <3>1 DEF Picks
    <3> QED BY <2>4, <3>2
  <2> QED BY <2>2, <2>4, <2>5
<1> HIDE DEF known, E
<1>8. DOMAIN known = 1..Len(known) /\ DOMAIN E = 1..Len(known)
  BY <1>5, <1>7
<1>9. reply.value = [i \in 1..Len(known) |-> AsOf(E[i], at[E[i].tx_hash])]
  BY <1>4, <1>8 DEF EntriesAsOf, E
<1>10. ASSUME NEW i \in 1..Len(known) PROVE reply.value[i].decodes <=> t \notin Undecodable
  <2>1. known[i] = t
    BY <1>7
  <2>2. E[i] = Entry(t, h)
    BY <1>5, <1>8, <2>1
  <2>3. reply.value[i] = Entry(t, at[t]) \/ reply.value[i] = Entry(t, h)
    BY <1>6, <1>9, <2>2 DEF AsOf
  <2> QED BY <1>6, <2>3
<1> DEFINE V == {reply.value[i] : i \in 1..Len(known)}
<1>11. reply.value \in Seq(V) /\ Len(reply.value) = Len(known)
  <2>1. reply.value \in [1..Len(known) -> V]
    BY <1>9
  <2> HIDE DEF V
  <2> QED BY <1>7, <2>1
<1> HIDE DEF V
<1>12. reply.value = <<>> => ~Known(t, h)
  BY <1>7, <1>11
<1>13. ~Known(t, h) => ~Known(t, low)
  BY ChainGrows
<1>14. reply.value # <<>> => Head(reply.value) = reply.value[1] /\ 1 \in 1..Len(known)
  BY <1>7, <1>11
<1> QED BY <1>10, <1>12, <1>13, <1>14

\* So is a block.
LEMMA BlockTold ==
  ASSUME NEW low \in Nat, height \in Nat, NEW asked, NEW reply, Reply(asked, reply, low), reply.ok, NEW id,
         IsId(id), asked.call = BlockCall(id), ~reply.value.decodes
  PROVE  HasBlock(id, height) /\ BlockAt(HeightOf(id)).hash \in Undecodable
<1>1. asked.call.op = "block" /\ asked.call.id = id
  BY DEF BlockCall
<1>2. PICK h \in low..height : reply \in Replies(asked.call, h, offers) \cup Failures(asked.call)
  BY <1>1 DEF Reply
<1>3. reply \in BlockReplies(id, h)
  BY <1>1, <1>2 DEF Failures, Err, Replies
<1>4. HasBlock(id, h) /\ \E w : reply = Ok(Block(HeightOf(id), w))
  BY <1>3 DEF BlockReplies, Err
<1>5. HasBlock(id, height)
  BY <1>4, ChainGrows DEF IsId
<1>6. PICK w : reply.value = Block(HeightOf(id), w)
  BY <1>4 DEF Ok
<1>7. reply.value.decodes <=> BlockAt(HeightOf(id)).hash \notin Undecodable
  <2>1. \A b, k : Block(b, k).decodes <=> BlockAt(b).hash \notin Undecodable
    BY Zenon DEF Block
  <2> QED BY <1>6, <2>1
<1> QED BY <1>5, <1>7

-----------------------------------------------------------------------------
\* The routes, one by one.

\* Refused before anything is asked: nothing was.
LEMMA RefusedFirst ==
  ASSUME NEW what, NEW got, NEW low, Conversed(what, got, low), Routed(what, <<>>).done
  PROVE  got = <<>>
BY Told DEF Reply

\* What a route that is malformed is answered.
LEMMA RefusedIsFair ==
  ASSUME NEW what, NEW got, NEW low, Malformed(what), NEW s, s = IF IsApi(what) THEN 400 ELSE 404,
         IsApi(what) => got = <<>>
  PROVE  Fair(what, got, low, s)
BY DEF Fair

\* One call that may fail, and nothing else that can go wrong.
LEMMA OneCallIsFair ==
  ASSUME NEW what, NEW got, NEW low, Conversed(what, got, low), ~Malformed(what),
         NEW op \in Simple, ~Routed(what, <<>>).done, Routed(what, <<>>).call.op = op,
         NEW a, a.done, got = <<>> => a = Routed(what, <<>>),
         got # <<>> /\ ~Head(got).ok =>
           Says(a, IF IsApi(what) THEN ApiStatus(op, Head(got).err) ELSE PageStatus(op, Head(got).err)) \/ Says(a, 502),
         got # <<>> /\ Head(got).ok => ~a.done \/ Says(a, 200)
  PROVE  Fair(what, got, low, a.status)
<1>1. got # <<>>
  OBVIOUS
<1>2. CASE Head(got).ok
  BY <1>1, <1>2, SuccessIsFair DEF Says
<1>3. CASE ~Head(got).ok
  BY <1>1, <1>3, FirstFails DEF Says
<1> QED BY <1>2, <1>3

\* The routes that need the tip and nothing else.
LEMMA VersionRoutes ==
  ASSUME NEW what, NEW got, NEW low, Conversed(what, got, low), Routed(what, got).done,
         what.route \in {"/api/version", "/api/networkinfo", "/api/transactions/recent"}
  PROVE  Fair(what, got, low, Routed(what, got).status)
<1>1. ~Malformed(what) /\ IsApi(what) /\ "info" \in Simple
  BY DEF Malformed, IsApi, Simple, Ops
<1>2. CASE what.route = "/api/version"
  <2>1. Routed(what, got) = Api!version(got) /\ Routed(what, <<>>) = Api!version(<<>>)
    BY <1>2, RoutedTo
  <2>2. Puts(Routed(what, <<>>), InfoCall)
    BY <2>1, VersionIs
  <2>3. ~Routed(what, <<>>).done /\ Routed(what, <<>>).call.op = "info"
    BY <2>2 DEF Puts, InfoCall
  <2> QED BY <1>1, <2>1, <2>3, VersionIs, OneCallIsFair
<1>3. CASE what.route = "/api/networkinfo"
  <2>1. Routed(what, got) = Api!network_info(got) /\ Routed(what, <<>>) = Api!network_info(<<>>)
    BY <1>3, RoutedTo
  <2>2. Puts(Routed(what, <<>>), InfoCall)
    BY <2>1, NetworkIs
  <2>3. ~Routed(what, <<>>).done /\ Routed(what, <<>>).call.op = "info"
    BY <2>2 DEF Puts, InfoCall
  <2> QED BY <1>1, <2>1, <2>3, NetworkIs, OneCallIsFair
<1>4. CASE what.route = "/api/transactions/recent"
  <2>1. Routed(what, got) = Api!transactions_recent(got) /\ Routed(what, <<>>) = Api!transactions_recent(<<>>)
    BY <1>4, RoutedTo
  <2>2. Puts(Routed(what, <<>>), InfoCall)
    BY <2>1, RecentIs
  <2>3. ~Routed(what, <<>>).done /\ Routed(what, <<>>).call.op = "info"
    BY <2>2 DEF Puts, InfoCall
  <2> QED BY <1>1, <2>1, <2>3, RecentIs, OneCallIsFair
<1> QED BY <1>2, <1>3, <1>4

\* The fee estimate.
LEMMA FeeRoute ==
  ASSUME NEW what, NEW got, NEW low, Conversed(what, got, low), Routed(what, got).done,
         what.route = "/api/feeestimate"
  PROVE  Fair(what, got, low, Routed(what, got).status)
<1>1. ~Malformed(what) /\ IsApi(what) /\ "fee_estimate" \in Simple
  BY DEF Malformed, IsApi, Simple, Ops
<1>2. Routed(what, got) = Api!fee_estimate(what.arg, got) /\ Routed(what, <<>>) = Api!fee_estimate(what.arg, <<>>)
  BY RoutedTo
<1>3. ~Routed(what, <<>>).done /\ Routed(what, <<>>).call.op = "fee_estimate"
  BY <1>2, FeeIs
<1> QED BY <1>1, <1>2, <1>3, FeeIs, OneCallIsFair

\* The pool.
LEMMA MempoolRoute ==
  ASSUME NEW what, NEW got, NEW low, Conversed(what, got, low), Routed(what, got).done,
         what.route = "/api/mempool", IsRequest(what)
  PROVE  Fair(what, got, low, Routed(what, got).status)
<1> DEFINE reads == Api!ReadsPage(what.arg, MAX_MEMPOOL_LIMIT, MAX_MEMPOOL_LIMIT)
<1>1. IsApi(what) /\ "mempool" \in Simple
  BY DEF IsApi, Simple, Ops
<1>2. Routed(what, got) = Api!mempool(what.arg, got) /\ Routed(what, <<>>) = Api!mempool(what.arg, <<>>)
  BY RoutedTo
<1>3. Malformed(what) <=> ~reads
  <2>1. IsParam(what.arg.page) /\ IsParam(what.arg.limit)
    BY DEF IsRequest
  <2>2. MAX_MEMPOOL_LIMIT \in Int
    BY PageLimitsAssumption, WordAssumption
  <2> QED BY <2>1, <2>2 DEF Malformed, Api!ReadsPage, Api!Value, Api!IsNumber, IsParam
<1> HIDE DEF reads
<1>4. CASE ~reads
  <2>1. Says(Routed(what, got), 400) /\ Says(Routed(what, <<>>), 400)
    BY <1>2, <1>4, MempoolIs DEF reads
  <2>2. got = <<>>
    BY <2>1, RefusedFirst DEF Says
  <2> QED BY <1>1, <1>3, <1>4, <2>1, <2>2, RefusedIsFair DEF Says
<1>5. CASE reads
  <2>1. Puts(Routed(what, <<>>), MempoolCall)
    BY <1>2, <1>5, MempoolIs DEF reads
  <2>2. ~Routed(what, <<>>).done /\ Routed(what, <<>>).call.op = "mempool"
    BY <2>1 DEF Puts, MempoolCall
  <2>3. got # <<>> /\ ~Head(got).ok => Says(Routed(what, got), ApiStatus("mempool", Head(got).err))
    BY <1>2, <1>5, MempoolIs DEF reads
  <2>4. got # <<>> /\ Head(got).ok => Says(Routed(what, got), 200)
    BY <1>2, <1>5, MempoolIs DEF reads
  <2> QED BY <1>1, <1>3, <1>5, <2>2, <2>3, <2>4, OneCallIsFair
<1> QED BY <1>4, <1>5

\* A block's hashes and their transactions.
LEMMA BlockRoute ==
  ASSUME NEW what, NEW got, NEW low, Conversed(what, got, low), Routed(what, got).done, IsRequest(what),
         \/ what.route = "/api/block"
         \/ what.route = "/api/search" /\ what.arg.is = "height"
  PROVE  Fair(what, got, low, Routed(what, got).status)
<1> DEFINE a == Routed(what, got)
<1>0. low \in Nat /\ height \in Nat
  BY DEF Conversed
<1>1. IsApi(what) /\ IsId(what.arg) /\ "transactions" \in Simple
  BY DEF IsApi, IsRequest, Simple, Ops
<1>2. /\ Malformed(what) <=> what.arg.is = "text"
      /\ ~HasBlock(what.arg, low) => NotThere(what, low)
  BY DEF Malformed, NotThere
<1>3. \A g : Routed(what, g) = Api!block(what.arg, g)
  BY RoutedTo, SearchIs
<1>4. CASE what.arg.is = "text"
  <2>1. Says(a, 400) /\ Says(Routed(what, <<>>), 400)
    BY <1>3, <1>4, BlockIs
  <2>2. got = <<>>
    BY <2>1, RefusedFirst DEF Says
  <2> QED BY <1>1, <1>2, <1>4, <2>1, <2>2, RefusedIsFair DEF Says
<1>5. CASE what.arg.is # "text"
  <2>1. Puts(Routed(what, <<>>), BlockCall(what.arg))
    BY <1>3, <1>5, BlockIs
  <2>2. got # <<>>
    BY <2>1 DEF Puts
  <2>3. CASE ~Head(got).ok
    <3>1. Reply(Routed(what, <<>>), Head(got), low) /\ Head(got).err \in Errs(got)
      BY <2>2, <2>3, Told
    <3>2. Says(a, ApiStatus("block", Head(got).err))
      BY <1>3, <1>5, <2>2, <2>3, BlockIs
    <3>3. Fair(what, got, low, ApiStatus("block", Head(got).err))
      BY <1>0, <1>1, <1>2, <1>5, <2>1, <2>3, <3>1, ApiBlockEnds DEF Puts
    <3> QED BY <3>2, <3>3 DEF Says
  <2>4. CASE Head(got).ok
    <3>1. \/ Says(a, 200)
          \/ /\ Tail(got) # <<>> /\ ~Head(Tail(got)).ok
             /\ Says(a, ApiStatus("transactions", Head(Tail(got)).err))
      BY <1>3, <1>5, <2>2, <2>4, BlockIs
    <3>2. CASE Says(a, 200)
      BY <1>2, <1>5, <3>2, SuccessIsFair DEF Says
    <3>3. CASE /\ Tail(got) # <<>> /\ ~Head(Tail(got)).ok
               /\ Says(a, ApiStatus("transactions", Head(Tail(got)).err))
      <4> DEFINE a1 == Routed(what, <<Head(got)>>)
      <4>1. ~a1.done
        BY <2>2, <3>3, Told DEF Reply
      <4>2. <<Head(got)>> # <<>> /\ Head(<<Head(got)>>) = Head(got) /\ Tail(<<Head(got)>>) = <<>>
        BY Firsts
      <4>3. a1.call.op = "transactions"
        BY <1>3, <1>5, <2>4, <4>1, <4>2, BlockIs DEF Says
      <4>4. Fair(what, got, low, ApiStatus("transactions", Head(Tail(got)).err))
        BY <1>1, <1>2, <1>5, <2>2, <3>3, <4>3, SecondFails
      <4> QED BY <3>3, <4>4 DEF Says
    <3> QED BY <3>1, <3>2, <3>3
  <2> QED BY <2>3, <2>4
<1> QED BY <1>4, <1>5

\* A raw block: one that cannot be read is on the chain and is sent so.
LEMMA RawBlockRoute ==
  ASSUME NEW what, NEW got, NEW low, Conversed(what, got, low), Routed(what, got).done, IsRequest(what),
         what.route = "/api/rawblock"
  PROVE  Fair(what, got, low, Routed(what, got).status)
<1> DEFINE a == Routed(what, got)
<1>0. low \in Nat /\ height \in Nat
  BY DEF Conversed
<1>1. IsApi(what) /\ IsId(what.arg)
  BY DEF IsApi, IsRequest
<1>2. /\ Malformed(what) <=> what.arg.is = "text"
      /\ ~HasBlock(what.arg, low) => NotThere(what, low)
  BY DEF Malformed, NotThere
<1>3. \A g : Routed(what, g) = Api!raw_block(what.arg, g)
  BY RoutedTo
<1>4. CASE what.arg.is = "text"
  <2>1. Says(a, 400) /\ Says(Routed(what, <<>>), 400)
    BY <1>3, <1>4, RawBlockIs
  <2>2. got = <<>>
    BY <2>1, RefusedFirst DEF Says
  <2> QED BY <1>1, <1>2, <1>4, <2>1, <2>2, RefusedIsFair DEF Says
<1>5. CASE what.arg.is # "text"
  <2>1. Puts(Routed(what, <<>>), BlockCall(what.arg))
    BY <1>3, <1>5, RawBlockIs
  <2>2. got # <<>>
    BY <2>1 DEF Puts
  <2>3. Reply(Routed(what, <<>>), Head(got), low) /\ (~Head(got).ok => Head(got).err \in Errs(got))
    BY <2>2, Told
  <2>4. CASE ~Head(got).ok
    <3>1. Says(a, ApiStatus("block", Head(got).err))
      BY <1>3, <1>5, <2>2, <2>4, RawBlockIs
    <3>2. Fair(what, got, low, ApiStatus("block", Head(got).err))
      BY <1>0, <1>1, <1>2, <1>5, <2>1, <2>3, <2>4, ApiBlockEnds DEF Puts
    <3> QED BY <3>1, <3>2 DEF Says
  <2>5. CASE Head(got).ok /\ Head(got).value.decodes
    <3>1. Says(a, 200)
      BY <1>3, <1>5, <2>2, <2>5, RawBlockIs
    <3> QED BY <1>2, <1>5, <3>1, SuccessIsFair DEF Says
  <2>6. CASE Head(got).ok /\ ~Head(got).value.decodes
    <3>1. Says(a, 502)
      BY <1>3, <1>5, <2>2, <2>6, RawBlockIs
    <3>2. HasBlock(what.arg, height) /\ BlockAt(HeightOf(what.arg)).hash \in Undecodable
      BY <1>0, <1>1, <2>1, <2>3, <2>6, BlockTold DEF Puts
    <3>3. CannotBeRead(what)
      BY <3>2 DEF CannotBeRead
    <3> QED BY <1>2, <1>5, <3>1, <3>3 DEF Fair, Says
  <2> QED BY <2>4, <2>5, <2>6
<1> QED BY <1>4, <1>5

\* The lookup of a transaction, when the first reply is to it.
LEMMA TxRoutes ==
  ASSUME NEW what, NEW got, NEW low, Conversed(what, got, low), Routed(what, got).done,
         what.route \in {"/api/transaction", "/api/rawtransaction"}
  PROVE  Fair(what, got, low, Routed(what, got).status)
<1> DEFINE a == Routed(what, got)
           a0 == Routed(what, <<>>)
<1>0. low \in Nat /\ height \in Nat
  BY DEF Conversed
<1>1. IsApi(what) /\ "transactions" \in Simple /\ "info" \in Simple
  BY DEF IsApi, Simple, Ops
<1>2. /\ Malformed(what) <=> what.arg.is # "hash"
      /\ ~Known(what.arg.hash, low) => NotThere(what, low)
      /\ what.arg.hash \in Undecodable => CannotBeRead(what)
  BY DEF Malformed, NotThere, CannotBeRead
<1>3. \A g : LooksUp(Routed(what, g), what.arg, g)
  <2>1. CASE what.route = "/api/transaction"
    BY <2>1, RoutedTo, TransactionIs
  <2>2. CASE what.route = "/api/rawtransaction"
    BY <2>2, RoutedTo, RawTransactionIs
  <2> QED BY <2>1, <2>2
<1>4. CASE what.arg.is # "hash"
  <2>1. Says(a, 400) /\ Says(a0, 400)
    BY <1>3, <1>4 DEF LooksUp
  <2>2. got = <<>>
    BY <2>1, RefusedFirst DEF Says
  <2> QED BY <1>1, <1>2, <1>4, <2>1, <2>2, RefusedIsFair DEF Says
<1>5. CASE what.arg.is = "hash"
  <2>1. Puts(a0, TransactionsCall(<<what.arg.hash>>))
    BY <1>3, <1>5 DEF LooksUp
  <2>2. got # <<>>
    BY <2>1 DEF Puts
  <2>3. Reply(a0, Head(got), low)
    BY <2>2, Told
  <2>4. CASE ~Head(got).ok
    <3>1. Says(a, ApiStatus("transactions", Head(got).err))
      BY <1>3, <1>5, <2>2, <2>4 DEF LooksUp
    <3>2. a0.call.op = "transactions"
      BY <2>1 DEF Puts, TransactionsCall
    <3>3. Fair(what, got, low, ApiStatus("transactions", Head(got).err))
      BY <1>1, <1>2, <1>5, <2>2, <2>4, <3>2, FirstFails
    <3> QED BY <3>1, <3>3 DEF Says
  <2>5. CASE Head(got).ok
    <3> DEFINE txs == Head(got).value
               u == Tail(Tail(got))
    <3>1. \/ Says(a, 404) /\ txs = <<>>
          \/ Says(a, 502) /\ txs # <<>> /\ ~Head(txs).decodes
          \/ Says(a, 200)
          \/ /\ Tail(got) # <<>> /\ u # <<>> /\ ~Head(u).ok
             /\ Says(a, ApiStatus("info", Head(u).err))
      <4>1. LooksUp(a, what.arg, got) /\ a.done
        BY <1>3
      <4> HIDE DEF a
      <4> QED BY <1>5, <2>2, <2>5, <4>1 DEF LooksUp
    <3>2. /\ txs = <<>> => ~Known(what.arg.hash, low)
          /\ txs # <<>> /\ ~Head(txs).decodes => what.arg.hash \in Undecodable
      BY <1>0, <2>1, <2>3, <2>5, TransactionTold DEF Puts
    <3> HIDE DEF txs, u
    <3>3. CASE Says(a, 404) /\ txs = <<>>
      BY <1>2, <1>5, <3>2, <3>3 DEF Fair, Says
    <3>4. CASE Says(a, 502) /\ txs # <<>> /\ ~Head(txs).decodes
      BY <1>2, <1>5, <3>2, <3>4 DEF Fair, Says
    <3>5. CASE Says(a, 200)
      BY <1>2, <1>5, <3>5, SuccessIsFair DEF Says
    <3>6. CASE Tail(got) # <<>> /\ u # <<>> /\ ~Head(u).ok /\ Says(a, ApiStatus("info", Head(u).err))
      <4> DEFINE g2 == <<Head(got), Head(Tail(got))>>
                 a2 == Routed(what, g2)
      <4>1. ~a2.done
        BY <2>2, <3>6, Told DEF Reply, u
      <4>2. /\ g2 # <<>> /\ Head(g2) = Head(got) /\ Tail(g2) = <<Head(Tail(got))>>
            /\ Tail(g2) # <<>> /\ Tail(Tail(g2)) = <<>>
        BY Firsts
      <4>3. LooksUp(a2, what.arg, g2)
        BY <1>3
      <4> HIDE DEF g2, a2
      <4>4. a2.call.op = "info"
        BY <1>5, <2>5, <4>1, <4>2, <4>3 DEF LooksUp, Says
      <4>5. Fair(what, got, low, ApiStatus("info", Head(u).err))
        BY <1>1, <1>2, <1>5, <2>2, <3>6, <4>4, ThirdFails DEF u, g2, a2
      <4> QED BY <3>6, <4>5 DEF Says
    <3> QED BY <3>1, <3>3, <3>4, <3>5, <3>6
  <2> QED BY <2>4, <2>5
<1> QED BY <1>4, <1>5

\* The first height of a window is a number.
LEMMA ApiStartIsInt ==
  ASSUME NEW h \in Int, NEW lim \in Int, NEW p \in Int
  PROVE  Api!ApiStart(h, lim, p) \in Int
<1> DEFINE turn == (p + 1) % Word
           span == (lim * turn) % Word
           d    == (h - span) % Word
<1>1. turn \in Int
  BY WordAssumption
<1>2. lim * turn \in Int
  BY <1>1
<1>3. span \in Int
  BY <1>2, WordAssumption
<1> HIDE DEF span
<1>4. d \in Int
  BY <1>3, WordAssumption
<1>5. Api!ApiStart(h, lim, p) = Api!Saturated(Api!Signed(d))
  BY DEF Api!ApiStart, span
<1> HIDE DEF d
<1>6. Api!Signed(d) \in Int
  BY <1>4, WordAssumption DEF Api!Signed
<1>7. Api!Saturated(Api!Signed(d)) \in Int
  BY <1>6, WordAssumption DEF Api!Saturated, Api!Lesser
<1> QED BY <1>5, <1>7

\* The last height of a window is below the tip it is counted from.
LEMMA ApiEndWithin ==
  ASSUME NEW h \in 1..(Word - 1), NEW start \in Int, NEW lim \in Int
  PROVE  Api!ApiEnd(h, start, lim) \in Int /\ Api!ApiEnd(h, start, lim) < h
<1> DEFINE s == Api!Saturated(start + lim)
           m == Api!Lesser(s, h) - 1
<1>1. Api!ApiEnd(h, start, lim) = Api!Saturated(m)
  BY DEF Api!ApiEnd
<1>2. s \in Int
  BY WordAssumption DEF Api!Saturated, Api!Lesser
<1> HIDE DEF s
<1>3. m \in Int /\ m < h
  BY <1>2, WordAssumption DEF Api!Lesser
<1> HIDE DEF m
<1>4. Api!Saturated(m) \in Int /\ Api!Saturated(m) < h
  BY <1>3, WordAssumption DEF Api!Saturated, Api!Lesser
<1> QED BY <1>1, <1>4

\* What a conversation is of, at a height the explorer's words hold.
Possible(what, got, low) ==
  /\ Conversed(what, got, low) /\ IsRequest(what)
  /\ low >= StartHeight /\ height <= MaxHeight

\* The listing of transactions: its window is within the chain it was counted from,
\* so that only a fault can end it.
LEMMA TransactionsRoute ==
  ASSUME NEW what, NEW got, NEW low, Possible(what, got, low), Routed(what, got).done,
         what.route = "/api/transactions"
  PROVE  Fair(what, got, low, Routed(what, got).status)
<1> DEFINE a == Routed(what, got)
           a0 == Routed(what, <<>>)
           a1 == Routed(what, <<Head(got)>>)
           reads == Api!ReadsPage(what.arg, DefaultLimit, MAX_TRANSACTIONS_LIMIT)
<1>0. Conversed(what, got, low) /\ low \in Nat /\ height \in Nat
  BY DEF Conversed, Possible
<1>1. IsApi(what) /\ "info" \in Simple
  BY DEF IsApi, Simple, Ops
<1>2. Malformed(what) <=> ~reads
  <2>1. IsParam(what.arg.page) /\ IsParam(what.arg.limit)
    BY DEF IsRequest, Possible
  <2>2. MAX_TRANSACTIONS_LIMIT \in Int /\ DefaultLimit \in Int /\ DefaultLimit <= MAX_TRANSACTIONS_LIMIT
    BY PageLimitsAssumption, WordAssumption
  <2> QED BY <2>1, <2>2 DEF Malformed, Api!ReadsPage, Api!Value, Api!IsNumber, IsParam
<1>3. \A g : Routed(what, g) = Api!transactions(what.arg, g)
  BY RoutedTo
<1> HIDE DEF reads
<1>4. CASE ~reads
  <2>1. Says(a, 400) /\ Says(a0, 400)
    BY <1>3, <1>4, TransactionsIs DEF reads
  <2>2. got = <<>>
    BY <1>0, <2>1, RefusedFirst DEF Says
  <2> QED BY <1>1, <1>2, <1>4, <2>1, <2>2, RefusedIsFair DEF Says
<1>5. CASE reads
  <2>1. Puts(a0, InfoCall)
    BY <1>3, <1>5, TransactionsIs DEF reads
  <2>2. got # <<>> /\ a0.call.op = "info"
    BY <2>1 DEF Puts, InfoCall
  <2>3. CASE ~Head(got).ok
    <3>1. Says(a, ApiStatus("info", Head(got).err))
      BY <1>3, <1>5, <2>2, <2>3, TransactionsIs DEF reads
    <3>2. Fair(what, got, low, ApiStatus("info", Head(got).err))
      BY <1>0, <1>1, <1>2, <1>5, <2>2, <2>3, FirstFails
    <3> QED BY <3>1, <3>2 DEF Says
  <2>4. CASE Head(got).ok
    <3> DEFINE per == Api!Value(what.arg.limit, DefaultLimit)
               told  == Head(got).value.height
               start == Api!ApiStart(told, per, Api!Value(what.arg.page, 0))
               end   == Api!ApiEnd(told, start, per)
               u     == Tail(got)
    <3>1. Says(a, 200) \/ (u # <<>> /\ ~Head(u).ok /\ Says(a, ApiStatus("blocks_in_range", Head(u).err)))
      <4>1. \/ Says(a, 200)
            \/ Puts(a, RangeCall(start, end))
            \/ u # <<>> /\ ~Head(u).ok /\ Says(a, ApiStatus("blocks_in_range", Head(u).err))
        BY <1>3, <1>5, <2>2, <2>4, TransactionsIs DEF reads
      <4> QED BY <4>1 DEF Puts
    <3>2. CASE Says(a, 200)
      BY <1>2, <1>5, <3>2, SuccessIsFair DEF Says
    <3>3. CASE u # <<>> /\ ~Head(u).ok /\ Says(a, ApiStatus("blocks_in_range", Head(u).err))
      <4>1. ~a1.done
        BY <1>0, <2>2, <3>3, Told DEF Reply
      <4>2. <<Head(got)>> # <<>> /\ Head(<<Head(got)>>) = Head(got) /\ Tail(<<Head(got)>>) = <<>>
        BY Firsts
      <4>3. Puts(a1, RangeCall(start, end))
        <5> DEFINE g1 == <<Head(got)>>
        <5>1. a1 = Api!transactions(what.arg, g1) /\ Head(g1) = Head(got) /\ g1 # <<>> /\ Tail(g1) = <<>>
          BY <1>3, <4>2
        <5> HIDE DEF g1, a1
        <5>2. \/ Says(a1, 200)
              \/ Puts(a1, RangeCall(start, end))
              \/ Tail(g1) # <<>>
          BY <1>5, <2>4, <5>1, TransactionsIs DEF reads
        <5> QED BY <4>1, <5>1, <5>2 DEF Says
      <4>4. told \in 1..(Word - 1)
        <5>1. told \in low..height
          BY <1>0, <2>2, <2>4, ToldTip
        <5> QED BY <1>0, <5>1, WordAssumption DEF Possible
      <4>5. end \in Int /\ end < told
        <5>1. IsParam(what.arg.page) /\ IsParam(what.arg.limit)
          BY DEF IsRequest, Possible
        <5>2. per \in Int /\ Api!Value(what.arg.page, 0) \in Int
          BY <5>1, PageLimitsAssumption, WordAssumption DEF Api!Value, Api!IsNumber, IsParam
        <5>3. start \in Int
          <6>1. told \in Int
            BY <4>4, WordAssumption
          <6> HIDE DEF told, per
          <6> QED BY <5>2, <6>1, ApiStartIsInt
        <5> QED BY <4>4, <5>2, <5>3, ApiEndWithin
      <4> HIDE DEF start, end
      <4>6. Head(u).err \in Faults
        BY <1>0, <2>2, <2>4, <3>3, <4>3, <4>5, RangeFails DEF Puts
      <4>7. Head(u).err \in Errs(got)
        BY <1>0, <2>2, <3>3, Told
      <4>8. ApiStatus("blocks_in_range", Head(u).err) = 502
        BY DEF ApiStatus, on_chain_error, chain_error
      <4>9. Errs(got) \cap Faults # {}
        BY <4>6, <4>7
      <4> QED BY <1>2, <1>5, <3>3, <4>8, <4>9, FaultIsFair DEF Says
    <3> QED BY <3>1, <3>2, <3>3
  <2> QED BY <2>3, <2>4
<1> QED BY <1>4, <1>5

\* A range of blocks: one that ends at the chain's height is asked for and refused.
LEMMA BlocksRoute ==
  ASSUME NEW what, NEW got, NEW low, Possible(what, got, low), Routed(what, got).done,
         what.route = "/api/blocks"
  PROVE  Fair(what, got, low, Routed(what, got).status)
<1> DEFINE a == Routed(what, got)
           a0 == Routed(what, <<>>)
           a1 == Routed(what, <<Head(got)>>)
           start == what.arg.start
           end == what.arg.end
           bad == \/ ~Api!IsNumber(start) \/ ~Api!IsNumber(end)
                  \/ start.value > end.value
                  \/ (end.value - start.value) + 1 > Limits.block_range
<1>0. Conversed(what, got, low) /\ low \in Nat /\ height \in Nat
  BY DEF Conversed, Possible
<1>1. IsApi(what) /\ "info" \in Simple
  BY DEF IsApi, Simple, Ops
<1>2. Malformed(what) <=> bad
  <2>1. IsParam(start) /\ IsParam(end)
    BY DEF IsRequest, Possible
  <2>2. Limits.block_range \in Nat
    BY LimitsAssumption
  <2>3. {start.given, end.given} = {"number"} <=> start.given = "number" /\ end.given = "number"
    OBVIOUS
  <2>4. start.given = "number" => start.value \in Nat
    BY <2>1 DEF IsParam
  <2>5. end.given = "number" => end.value \in Nat
    BY <2>1 DEF IsParam
  <2>6. Malformed(what) <=> \/ {start.given, end.given} # {"number"}
                            \/ end.value - start.value \notin 0..(Limits.block_range - 1)
    BY DEF Malformed
  <2>7. CASE start.given = "number" /\ end.given = "number"
    BY <2>2, <2>3, <2>4, <2>5, <2>6, <2>7 DEF Api!IsNumber
  <2>8. CASE ~(start.given = "number" /\ end.given = "number")
    BY <2>3, <2>6, <2>8 DEF Api!IsNumber
  <2> QED BY <2>7, <2>8
<1>3. \A g : Routed(what, g) = Api!blocks_range(start, end, g)
  BY RoutedTo
<1>4. CASE bad
  <2>1. Says(a, 400) /\ Says(a0, 400)
    BY <1>3, <1>4, BlocksRangeIs
  <2>2. got = <<>>
    BY <1>0, <2>1, RefusedFirst DEF Says
  <2> QED BY <1>1, <1>2, <1>4, <2>1, <2>2, RefusedIsFair DEF Says
<1>5. CASE ~bad
  <2>1. Puts(a0, InfoCall)
    BY <1>3, <1>5, BlocksRangeIs
  <2>2. got # <<>> /\ a0.call.op = "info"
    BY <2>1 DEF Puts, InfoCall
  <2>3. CASE ~Head(got).ok
    <3>1. Says(a, ApiStatus("info", Head(got).err))
      BY <1>3, <1>5, <2>2, <2>3, BlocksRangeIs
    <3>2. Fair(what, got, low, ApiStatus("info", Head(got).err))
      BY <1>0, <1>1, <1>2, <1>5, <2>2, <2>3, FirstFails
    <3> QED BY <3>1, <3>2 DEF Says
  <2>4. CASE Head(got).ok
    <3> DEFINE told == Head(got).value.height
               u    == Tail(got)
    <3>0. told \in low..height
      BY <1>0, <2>2, <2>4, ToldTip
    <3>1. \/ Says(a, 404) /\ end.value > told
          \/ Says(a, 200)
          \/ u # <<>> /\ ~Head(u).ok /\ Says(a, ApiStatus("blocks_in_range", Head(u).err))
      <4>1. \/ Says(a, 404) /\ end.value > told
            \/ Says(a, 200)
            \/ Puts(a, RangeCall(start.value, end.value))
            \/ u # <<>> /\ ~Head(u).ok /\ Says(a, ApiStatus("blocks_in_range", Head(u).err))
        BY <1>3, <1>5, <2>2, <2>4, BlocksRangeIs
      <4> QED BY <4>1 DEF Puts
    <3>2. CASE Says(a, 404) /\ end.value > told
      <4>1. end.value \in Int
        <5>1. IsParam(end) /\ end.given = "number"
          BY <1>5 DEF IsRequest, Possible, Api!IsNumber
        <5> QED BY <5>1 DEF IsParam
      <4>2. end.value > low
        BY <1>0, <3>0, <3>2, <4>1
      <4>3. NotThere(what, low)
        BY <4>2 DEF NotThere
      <4> HIDE DEF bad
      <4> QED BY <1>2, <1>5, <3>2, <4>3 DEF Fair, Says
    <3>3. CASE Says(a, 200)
      BY <1>2, <1>5, <3>3, SuccessIsFair DEF Says
    <3>4. CASE u # <<>> /\ ~Head(u).ok /\ Says(a, ApiStatus("blocks_in_range", Head(u).err))
      <4>1. Reply(a1, Head(u), low) /\ Head(u).err \in Errs(got)
        BY <1>0, <2>2, <3>4, Told
      <4>2. <<Head(got)>> # <<>> /\ Head(<<Head(got)>>) = Head(got) /\ Tail(<<Head(got)>>) = <<>>
        BY Firsts
      <4>3. ~a1.done
        BY <4>1 DEF Reply
      <4>4. Puts(a1, RangeCall(start.value, end.value))
        BY <1>3, <1>5, <2>4, <4>2, <4>3, BlocksRangeIs DEF Says
      <4>5. a1.call.op = "blocks_in_range" /\ a1.call.op \in RangeOps /\ a1.call.op \in Ops
        BY <4>4 DEF Puts, RangeCall, RangeOps, Ops
      <4>6. Head(u).err \in Faults \/ Head(u).err = PastTip
        BY <1>0, <3>4, <4>1, <4>5, ErrorsAre
      <4>7. ApiStatus("blocks_in_range", Head(u).err) = 502
        BY DEF ApiStatus, on_chain_error, chain_error
      <4> HIDE DEF bad
      <4> QED BY <1>2, <1>5, <3>4, <4>1, <4>6, <4>7 DEF Fair, Says
    <3> QED BY <3>1, <3>2, <3>3, <3>4
  <2> QED BY <2>3, <2>4
<1> QED BY <1>4, <1>5

\* The lookup by the end of a hash.
LEMMA PrivateRoute ==
  ASSUME NEW what, NEW got, NEW low, Conversed(what, got, low), Routed(what, got).done,
         what.route = "/api/transaction/private"
  PROVE  Fair(what, got, low, Routed(what, got).status)
<1> DEFINE a == Routed(what, got)
           a0 == Routed(what, <<>>)
           a1 == Routed(what, <<Head(got)>>)
           g2 == <<Head(got), Head(Tail(got))>>
           a2 == Routed(what, g2)
           u == Tail(got)
           v == Tail(u)
<1>1. IsApi(what) /\ ~Malformed(what) /\ "info" \in Simple /\ "txids_loose" \in Simple /\ "transactions" \in Simple
  BY DEF IsApi, Malformed, Simple, Ops
<1>2. \A g : Routed(what, g) = Api!transaction_private(what.arg, g)
  BY RoutedTo
<1>3. Puts(a0, InfoCall)
  BY <1>2, PrivateIs
<1>4. got # <<>> /\ a0.call.op = "info"
  BY <1>3 DEF Puts, InfoCall
<1>5. CASE ~Head(got).ok
  <2>1. Says(a, ApiStatus("info", Head(got).err))
    BY <1>2, <1>4, <1>5, PrivateIs
  <2>2. Fair(what, got, low, ApiStatus("info", Head(got).err))
    BY <1>1, <1>4, <1>5, FirstFails
  <2> QED BY <2>1, <2>2 DEF Says
<1>6. CASE Head(got).ok
  <2>1. \/ Says(a, 400) \/ Says(a, 200)
        \/ u # <<>> /\ ~Head(u).ok /\ Says(a, ApiStatus("txids_loose", Head(u).err))
        \/ u # <<>> /\ v # <<>> /\ ~Head(v).ok /\ Says(a, ApiStatus("transactions", Head(v).err))
    BY <1>2, <1>4, <1>6, PrivateIs
  <2>2. CASE Says(a, 400)
    BY <1>1, <2>2 DEF Fair, Says
  <2>3. CASE Says(a, 200)
    BY <1>1, <2>3, SuccessIsFair DEF Says
  <2>4. CASE u # <<>> /\ ~Head(u).ok /\ Says(a, ApiStatus("txids_loose", Head(u).err))
    <3>1. ~a1.done
      BY <1>4, <2>4, Told DEF Reply
    <3>2. <<Head(got)>> # <<>> /\ Head(<<Head(got)>>) = Head(got) /\ Tail(<<Head(got)>>) = <<>>
      BY Firsts
    <3>3. a1.call.op = "txids_loose"
      BY <1>2, <1>6, <3>1, <3>2, PrivateIs DEF Says
    <3>4. Fair(what, got, low, ApiStatus("txids_loose", Head(u).err))
      BY <1>1, <1>4, <2>4, <3>3, SecondFails
    <3> QED BY <2>4, <3>4 DEF Says
  <2>5. CASE u # <<>> /\ v # <<>> /\ ~Head(v).ok /\ Says(a, ApiStatus("transactions", Head(v).err))
    <3>1. ~a2.done
      BY <1>4, <2>5, Told DEF Reply
    <3>2. /\ g2 # <<>> /\ Head(g2) = Head(got) /\ Tail(g2) = <<Head(u)>>
          /\ Tail(g2) # <<>> /\ Tail(Tail(g2)) = <<>> /\ Head(Tail(g2)) = Head(u)
      BY Firsts DEF g2, u
    <3>3. CASE Head(u).ok
      <4> HIDE DEF g2
      <4>1. a2.call.op = "transactions"
        BY <1>2, <1>6, <3>1, <3>2, <3>3, PrivateIs DEF Says
      <4>2. Fair(what, got, low, ApiStatus("transactions", Head(v).err))
        BY <1>1, <1>4, <2>5, <4>1, ThirdFails DEF g2
      <4> QED BY <2>5, <4>2 DEF Says
    <3>4. CASE ~Head(u).ok
      <4> HIDE DEF g2
      <4>1. a2.call.op = "transactions"
        BY <1>2, <1>6, <3>1, <3>2, <3>4, PrivateIs DEF Says
      <4>2. Fair(what, got, low, ApiStatus("transactions", Head(v).err))
        BY <1>1, <1>4, <2>5, <4>1, ThirdFails DEF g2
      <4> QED BY <2>5, <4>2 DEF Says
    <3> QED BY <3>3, <3>4
  <2> QED BY <2>1, <2>2, <2>3, <2>4, <2>5
<1> QED BY <1>5, <1>6

\* What a fourth reply is to.
LEMMA FourthTold ==
  ASSUME NEW what, NEW got, NEW low, Conversed(what, got, low),
         got # <<>>, Tail(got) # <<>>, Tail(Tail(got)) # <<>>, Tail(Tail(Tail(got))) # <<>>
  PROVE  /\ Reply(Routed(what, <<Head(got), Head(Tail(got)), Head(Tail(Tail(got)))>>),
                  Head(Tail(Tail(Tail(got)))), low)
         /\ ~Head(Tail(Tail(Tail(got)))).ok => Head(Tail(Tail(Tail(got)))).err \in Errs(got)
<1>1. PICK S : got \in Seq(S)
  BY DEF Conversed
<1>2. ASSUME NEW s \in Seq(S), s # <<>>
      PROVE  /\ Len(s) \in Nat /\ Len(s) >= 1 /\ Head(s) = s[1]
             /\ Tail(s) \in Seq(S) /\ Len(Tail(s)) = Len(s) - 1
             /\ \A i \in 1..(Len(s) - 1) : Tail(s)[i] = s[i + 1]
  BY <1>2
<1> DEFINE s2 == Tail(got)
           s3 == Tail(s2)
           s4 == Tail(s3)
<1>3. s2 \in Seq(S) /\ s3 \in Seq(S) /\ s4 \in Seq(S) /\ s2 # <<>> /\ s3 # <<>> /\ s4 # <<>>
  BY <1>1, <1>2
<1>4. /\ Len(got) \in Nat /\ Len(s2) = Len(got) - 1 /\ Len(s3) = Len(s2) - 1 /\ Len(s4) = Len(s3) - 1 /\ Len(s4) >= 1
      /\ Head(got) = got[1] /\ Head(s2) = s2[1] /\ Head(s3) = s3[1] /\ Head(s4) = s4[1]
      /\ \A i \in 1..(Len(got) - 1) : s2[i] = got[i + 1]
      /\ \A i \in 1..(Len(s2) - 1) : s3[i] = s2[i + 1]
      /\ \A i \in 1..(Len(s3) - 1) : s4[i] = s3[i + 1]
  BY <1>1, <1>2, <1>3
<1> HIDE DEF s2, s3, s4
<1>5. /\ Len(got) >= 4 /\ Len(s2) >= 3 /\ Len(s3) >= 2
      /\ Len(s2) \in Nat /\ Len(s3) \in Nat
  BY <1>4
<1>6. s2[1] = got[2] /\ s2[2] = got[3] /\ s2[3] = got[4]
  <2>1. 1 \in 1..(Len(got) - 1) /\ 2 \in 1..(Len(got) - 1) /\ 3 \in 1..(Len(got) - 1)
    BY <1>4, <1>5
  <2> QED BY <1>4, <2>1
<1>7. s3[1] = s2[2] /\ s3[2] = s2[3]
  <2>1. 1 \in 1..(Len(s2) - 1) /\ 2 \in 1..(Len(s2) - 1)
    BY <1>5
  <2> QED BY <1>4, <2>1
<1>8. s4[1] = s3[2]
  <2>1. 1 \in 1..(Len(s3) - 1)
    BY <1>5
  <2> QED BY <1>4, <2>1
<1>9. SubSeq(got, 1, 4 - 1) = <<got[1], got[2], got[3]>>
  <2> DEFINE t == <<got[1], got[2], got[3]>>
  <2>1. got[1] \in S /\ got[2] \in S /\ got[3] \in S
    BY <1>1, <1>4, <1>5
  <2>2. t \in Seq(S) /\ Len(t) = 3 /\ t[1] = got[1] /\ t[2] = got[2] /\ t[3] = got[3]
    BY <2>1
  <2>3. SubSeq(got, 1, 3) \in Seq(S) /\ Len(SubSeq(got, 1, 3)) = 3
        /\ \A i \in 1..3 : SubSeq(got, 1, 3)[i] = got[i]
    BY <1>1, <1>4, <1>5
  <2> HIDE DEF t
  <2>4. \A i \in 1..3 : SubSeq(got, 1, 3)[i] = t[i]
    BY <2>2, <2>3
  <2>5. SubSeq(got, 1, 3) = t
    BY <2>2, <2>3, <2>4, SeqEqual
  <2>6. 4 - 1 = 3
    OBVIOUS
  <2> QED BY <2>5, <2>6 DEF t
<1>10. 4 \in 1..Len(got) /\ DOMAIN got = 1..Len(got)
  BY <1>1, <1>4, <1>5
<1>11. Heard(what, got, 4, low)
  BY <1>10 DEF Conversed
<1>12. Reply(Routed(what, <<got[1], got[2], got[3]>>), got[4], low)
  BY <1>9, <1>11 DEF Heard, Reply, Before
<1>13. ~got[4].ok => got[4].err \in Errs(got)
  BY <1>10 DEF Errs
<1> QED BY <1>4, <1>6, <1>7, <1>8, <1>12, <1>13 DEF s2, s3, s4

\* A lookup, first of a block and then of a transaction.
Searches(what, g) ==
  LET first == Api!block(what.arg, g)
      second == Api!transaction(what.arg, first.rest)
  IN  \/ Routed(what, g) = first /\ (~first.done \/ first.status = 200)
      \/ /\ first.done /\ first.status # 200
         /\ \/ /\ Routed(what, g) = second
               /\ ~Routed(what, g).done \/ Routed(what, g).status = 200
            \/ Says(Routed(what, g), 404) /\ second.done /\ second.status # 200

\* Every search by hash is one.
LEMMA SearchesIs ==
  ASSUME NEW what, what.route = "/api/search", what.arg.is = "hash", NEW g
  PROVE  Searches(what, g)
<1>1. Routed(what, g) = Api!search(what.arg, g)
  BY RoutedTo
<1> QED BY <1>1, SearchIs DEF Searches

\* Once the block's failure has been heard, the transaction's lookup has the rest of
\* what is heard.
LEMMA SearchGoesOn ==
  ASSUME NEW what, what.route = "/api/search", what.arg.is = "hash", NEW g, NEW t,
         g # <<>>, ~Head(g).ok, Tail(g) = t
  PROVE  \/ /\ Routed(what, g) = Api!transaction(what.arg, t)
            /\ ~Routed(what, g).done \/ Routed(what, g).status = 200
         \/ /\ Says(Routed(what, g), 404)
            /\ LooksUp(Api!transaction(what.arg, t), what.arg, t)
            /\ Api!transaction(what.arg, t).done /\ Api!transaction(what.arg, t).status # 200
<1> DEFINE first == Api!block(what.arg, g)
<1>1. Searches(what, g)
  BY SearchesIs
<1>2. Says(first, ApiStatus("block", Head(g).err)) /\ first.rest = t
  <2>1. Details(first, what.arg, g)
    BY BlockDetails
  <2> HIDE DEF first
  <2> QED BY <2>1 DEF Details
<1>3. ApiStatus("block", Head(g).err) # 200
  BY DEF ApiStatus, on_chain_error
<1>4. first.done /\ first.status # 200 /\ first.rest = t
  <2> HIDE DEF first
  <2> QED BY <1>2, <1>3 DEF Says
<1>5. LooksUp(Api!transaction(what.arg, t), what.arg, t)
  BY TransactionIs
<1> HIDE DEF first
<1> QED BY <1>1, <1>4, <1>5 DEF Searches, first

\* Its third call is for the tip.
LEMMA SearchTip ==
  ASSUME NEW what, what.route = "/api/search", what.arg.is = "hash", NEW x, NEW y, NEW z,
         ~x.ok, y.ok, y.value # <<>>, Head(y.value).decodes, NEW a, a = Routed(what, <<x, y, z>>), ~a.done
  PROVE  a.call.op = "info"
<1> DEFINE t == <<y, z>>
<1>1. a = Api!transaction(what.arg, t)
  <2> DEFINE g == <<x, y, z>>
  <2>1. g # <<>> /\ Head(g) = x /\ Tail(g) = t
    BY FirstOfThree
  <2>2. a = Routed(what, g)
    OBVIOUS
  <2> HIDE DEF g, t
  <2> QED BY <2>1, <2>2, SearchGoesOn DEF Says
<1>2. t # <<>> /\ Head(t) = y /\ Tail(t) # <<>> /\ Tail(Tail(t)) = <<>>
  BY Firsts
<1> HIDE DEF t
<1>3. LooksUp(a, what.arg, t)
  BY <1>1, TransactionIs
<1> QED BY <1>2, <1>3 DEF LooksUp, Says

\* A lookup of a block, then of a transaction: 404 is what neither holds, unless a
\* fault ended them.
LEMMA SearchRoute ==
  ASSUME NEW what, NEW got, NEW low, Possible(what, got, low), Routed(what, got).done,
         what.route = "/api/search", what.arg.is = "hash"
  PROVE  Fair(what, got, low, Routed(what, got).status)
<1> DEFINE a == Routed(what, got)
           a0 == Routed(what, <<>>)
           a1 == Routed(what, <<Head(got)>>)
           g2 == <<Head(got), Head(Tail(got))>>
           first(g) == Api!block(what.arg, g)
           second(g) == Api!transaction(what.arg, Tail(g))
           u == Tail(got)
           v == Tail(u)
           faulty == Errs(got) \cap Faults # {} \/ what.arg.hash \in Undecodable
<1>0. Conversed(what, got, low) /\ low \in Nat /\ height \in Nat
  BY DEF Conversed, Possible
<1>1. IsApi(what) /\ ~Malformed(what) /\ IsId(what.arg)
  BY DEF IsApi, Malformed, IsRequest, Possible
<1>2. ASSUME NEW g
      PROVE  \/ Routed(what, g) = first(g) /\ (~first(g).done \/ first(g).status = 200)
             \/ /\ first(g).done /\ first(g).status # 200
                /\ \/ /\ Routed(what, g) = Api!transaction(what.arg, first(g).rest)
                      /\ ~Routed(what, g).done \/ Routed(what, g).status = 200
                   \/ /\ Says(Routed(what, g), 404)
                      /\ Api!transaction(what.arg, first(g).rest).done
                      /\ Api!transaction(what.arg, first(g).rest).status # 200
  <2>1. Routed(what, g) = Api!search(what.arg, g)
    BY RoutedTo
  <2> QED BY <2>1, SearchIs
<1>10. \A g : Details(first(g), what.arg, g)
  BY BlockDetails
<1> HIDE DEF first
<1>3. a.status = 200 \/ Says(a, 404)
  BY <1>2 DEF Says
<1>4. CASE a.status = 200
  BY <1>1, <1>4, SuccessIsFair
<1>5. CASE Says(a, 404) /\ a.status # 200
  <2>1. Puts(a0, BlockCall(what.arg))
    <3>1. Puts(first(<<>>), BlockCall(what.arg))
      BY <1>10 DEF Details, Puts
    <3> QED BY <1>2, <3>1 DEF Puts
  <2>2. got # <<>>
    BY <2>1 DEF Puts
  <2>3. Reply(a0, Head(got), low) /\ (~Head(got).ok => Head(got).err \in Errs(got))
    BY <1>0, <2>2, Told
  <2>4. CASE Head(got).ok
    \* What was found is shown, unless its transactions are not.
    <3>1. /\ first(got).done /\ first(got).status # 200
      BY <1>2, <1>5 DEF Says
    <3>2. u # <<>> /\ ~Head(u).ok
      BY <2>2, <2>4, <3>1, <1>10 DEF Says, Details
    <3>3. Reply(a1, Head(u), low) /\ Head(u).err \in Errs(got)
      BY <1>0, <2>2, <3>2, Told
    <3>4. <<Head(got)>> # <<>> /\ Head(<<Head(got)>>) = Head(got) /\ Tail(<<Head(got)>>) = <<>>
      BY Firsts
    <3>5. a1.call.op = "transactions" /\ ~a1.done
      <4> DEFINE g1 == <<Head(got)>>
      <4>1. Says(first(g1), 200) \/ (~first(g1).done /\ first(g1).call.op = "transactions")
        <5>1. Details(first(g1), what.arg, g1)
          BY <1>10
        <5>2. g1 # <<>> /\ Head(g1) = Head(got) /\ Tail(g1) = <<>>
          BY <3>4
        <5> HIDE DEF g1
        <5> QED BY <2>4, <5>1, <5>2 DEF Details
      <4>2. ~a1.done
        BY <3>3 DEF Reply
      <4>3. Routed(what, g1) = first(g1)
        BY <1>2, <4>1 DEF Says
      <4> QED BY <4>1, <4>2, <4>3 DEF Says
    <3>6. Head(u).err \in Faults
      <4>1. a1.call.op \in Ops /\ a1.call.op # "block" /\ a1.call.op \notin RangeOps
        BY <3>5 DEF Ops, RangeOps
      <4> QED BY <1>0, <3>2, <3>3, <3>5, <4>1, ErrorsAre
    <3>7. faulty
      BY <3>3, <3>6
    <3> HIDE DEF faulty
    <3>8. Fair(what, got, low, 404)
      BY <1>1, <3>7 DEF Fair, faulty
    <3> QED BY <1>5, <3>8 DEF Says
  <2>5. CASE ~Head(got).ok
    <3>1. Says(first(got), ApiStatus("block", Head(got).err)) /\ first(got).rest = u
      BY <2>2, <2>5, <1>10 DEF Details
    <3>2. CASE Head(got).err \in Faults
      <4>1. faulty
        BY <2>3, <2>5, <3>2
      <4> HIDE DEF faulty
      <4>2. Fair(what, got, low, 404)
        BY <1>1, <4>1 DEF Fair, faulty
      <4> QED BY <1>5, <4>2 DEF Says
    <3>3. CASE Head(got).err \notin Faults
      <4>1. ~HasBlock(what.arg, low)
        <5>1. a0.call.op = "block" /\ a0.call.id = what.arg /\ a0.call.op \in Ops /\ a0.call.op \notin RangeOps
          BY <2>1 DEF Puts, BlockCall, Ops, RangeOps
        <5> QED BY <1>0, <1>1, <2>3, <2>5, <3>3, <5>1, ErrorsAre DEF IsId
      <4>2. ~Known(what.arg.hash, low) \/ faulty
        <5> DEFINE b == Api!transaction(what.arg, u)
                   g1 == <<Head(got)>>
                   g3 == <<Head(got), Head(u), Head(v)>>
                   w == Tail(v)
        <5>1. LooksUp(b, what.arg, u) /\ b.done /\ b.status # 200
          <6>1. a.status = 404
            BY <1>5 DEF Says
          <6>2. Tail(got) = u
            OBVIOUS
          <6> HIDE DEF a, u
          <6>3. \/ Routed(what, got).status = 200 \/ ~Routed(what, got).done
                \/ LooksUp(Api!transaction(what.arg, u), what.arg, u)
                   /\ Api!transaction(what.arg, u).done /\ Api!transaction(what.arg, u).status # 200
            BY <2>2, <2>5, <6>2, SearchGoesOn
          <6> QED BY <6>1, <6>3 DEF a
        <5> HIDE DEF b
        <5>2. u # <<>>
          BY <5>1 DEF LooksUp, Puts
        <5>3. Reply(a1, Head(u), low) /\ (~Head(u).ok => Head(u).err \in Errs(got))
          BY <1>0, <2>2, <5>2, Told
        <5>4. Puts(a1, TransactionsCall(<<what.arg.hash>>))
          <6>1. ~a1.done
            BY <5>3 DEF Reply
          <6>2. g1 # <<>> /\ Head(g1) = Head(got) /\ Tail(g1) = <<>>
            BY Firsts
          <6>3. first(g1).done /\ first(g1).rest = <<>> /\ first(g1).status # 200
            <7>1. Details(first(g1), what.arg, g1)
              BY <1>10
            <7> HIDE DEF g1
            <7>2. Says(first(g1), ApiStatus("block", Head(g1).err)) /\ first(g1).rest = <<>>
              BY <2>5, <6>2, <7>1 DEF Details
            <7>3. ApiStatus("block", Head(g1).err) # 200
              BY DEF ApiStatus, on_chain_error
            <7> QED BY <7>2, <7>3 DEF Says
          <6>4. a1 = Api!transaction(what.arg, <<>>)
            BY <1>2, <6>1, <6>3 DEF Says
          <6>5. LooksUp(a1, what.arg, <<>>)
            BY <6>4, TransactionIs
          <6> QED BY <6>5 DEF LooksUp
        <5>5. a1.call.op = "transactions" /\ a1.call.op \in Ops /\ a1.call.op \notin RangeOps
          BY <5>4 DEF Puts, TransactionsCall, Ops, RangeOps
        <5>6. CASE ~Head(u).ok
          <6>1. Head(u).err \in Faults
            BY <1>0, <5>3, <5>5, <5>6, ErrorsAre
          <6> QED BY <5>3, <5>6, <6>1
        <5>7. CASE Head(u).ok
          <6>1. /\ Head(u).value = <<>> => ~Known(what.arg.hash, low)
                /\ Head(u).value # <<>> /\ ~Head(Head(u).value).decodes => what.arg.hash \in Undecodable
            BY <1>0, <5>3, <5>4, <5>7, TransactionTold DEF Puts
          <6>2. CASE ~(v # <<>> /\ w # <<>> /\ ~Head(w).ok)
            BY <5>1, <5>2, <5>7, <6>1, <6>2 DEF LooksUp, Says
          <6>3. CASE v # <<>> /\ w # <<>> /\ ~Head(w).ok /\ Head(u).value # <<>> /\ Head(Head(u).value).decodes
            <7> DEFINE a3 == Routed(what, g3)
            <7>1. Reply(a3, Head(w), low) /\ Head(w).err \in Errs(got)
              BY <1>0, <2>2, <5>2, <6>3, FourthTold
            <7>2. ~a3.done
              BY <7>1 DEF Reply
            <7>3. a3.call.op = "info"
              BY <2>5, <5>7, <6>3, <7>2, SearchTip
            <7>4. a3.call.op \in Ops /\ a3.call.op \notin RangeOps
              BY <7>3 DEF Ops, RangeOps
            <7> HIDE DEF a3
            <7>5. Head(w).err \in Faults
              BY <1>0, <6>3, <7>1, <7>3, <7>4, ErrorsAre
            <7> QED BY <7>1, <7>5
          <6> QED BY <6>1, <6>2, <6>3
        <5> QED BY <5>6, <5>7
      <4>3. NotThere(what, low) \/ faulty
        BY <4>1, <4>2 DEF NotThere
      <4> HIDE DEF faulty
      <4>4. Fair(what, got, low, 404)
        BY <1>1, <4>3 DEF Fair, faulty
      <4> QED BY <1>5, <4>4 DEF Says
    <3> QED BY <3>2, <3>3
  <2> QED BY <2>4, <2>5
<1> QED BY <1>3, <1>4, <1>5 DEF Says

-----------------------------------------------------------------------------
\* The routes of the pages.

\* A page's own window is below the tip it was told.
LEMMA HtmlTopWithin ==
  ASSUME NEW h \in 1..(Word - 1), NEW p \in Nat
  PROVE  Html!HtmlTop(h, p) \in Int /\ Html!HtmlTop(h, p) < h
<1> DEFINE s == Html!Saturated(p * PerPage)
<1>1. Html!Saturated(h - 1) = h - 1
  BY WordAssumption DEF Html!Saturated, Html!Lesser
<1>2. s \in Int /\ s >= 0
  <2>1. p * PerPage \in Int
    BY PerPageAssumption, WordAssumption
  <2> HIDE DEF s
  <2>2. \A n \in Int : Html!Saturated(n) \in Int /\ Html!Saturated(n) >= 0
    BY WordAssumption DEF Html!Saturated, Html!Lesser
  <2> QED BY <2>1, <2>2 DEF s
<1>3. Html!HtmlTop(h, p) = Html!Saturated((h - 1) - s)
  BY <1>1 DEF Html!HtmlTop
<1> HIDE DEF s
<1>4. (h - 1) - s \in Int /\ (h - 1) - s < h /\ (h - 1) - s < Word
  BY <1>2, WordAssumption
<1>5. \A n \in Int : n < h => Html!Saturated(n) \in Int /\ Html!Saturated(n) < h
  BY WordAssumption DEF Html!Saturated, Html!Lesser
<1> QED BY <1>3, <1>4, <1>5

\* The listing of blocks: the strip's tip, then headers below it.
LEMMA ListingRoute ==
  ASSUME NEW what, NEW got, NEW low, Possible(what, got, low), Routed(what, got).done,
         ~IsApi(what), ~Malformed(what), NEW at \in Nat,
         \A g : Routed(what, g) = Html!render_page(at, g)
  PROVE  Fair(what, got, low, Routed(what, got).status)
<1> DEFINE a == Routed(what, got)
           a0 == Routed(what, <<>>)
           a1 == Routed(what, <<Head(got)>>)
           told == Head(got).value.height
           top == Html!HtmlTop(told, at)
           begin == Html!HtmlBegin(top)
           u == Tail(got)
<1>0. Conversed(what, got, low) /\ low \in Nat /\ height \in Nat /\ "info" \in Simple
  BY DEF Conversed, Possible, Simple, Ops
<1>1. Puts(a0, InfoCall)
  BY IndexIs
<1>2. got # <<>> /\ a0.call.op = "info"
  BY <1>1 DEF Puts, InfoCall
<1>3. CASE ~Head(got).ok
  <2>1. Says(a, 502)
    BY <1>2, <1>3, IndexIs
  <2>2. Fair(what, got, low, 502)
    BY <1>0, <1>2, <1>3, FirstFails
  <2> QED BY <2>1, <2>2 DEF Says
<1>4. CASE Head(got).ok
  <2>1. \/ Says(a, 200)
        \/ u # <<>> /\ ~Head(u).ok /\ Says(a, PageStatus("headers_range", Head(u).err))
    <3>1. \/ Puts(a, HeadersCall(begin, top))
          \/ u # <<>> /\ ~Head(u).ok /\ Says(a, PageStatus("headers_range", Head(u).err))
          \/ Says(a, 200)
      BY <1>2, <1>4, IndexIs
    <3> QED BY <3>1 DEF Puts
  <2>2. CASE Says(a, 200)
    BY <2>2, SuccessIsFair DEF Says
  <2>3. CASE u # <<>> /\ ~Head(u).ok /\ Says(a, PageStatus("headers_range", Head(u).err))
    <3>1. Reply(a1, Head(u), low) /\ Head(u).err \in Errs(got)
      BY <1>0, <1>2, <2>3, Told
    <3>2. ~a1.done
      BY <3>1 DEF Reply
    <3>3. <<Head(got)>> # <<>> /\ Head(<<Head(got)>>) = Head(got) /\ Tail(<<Head(got)>>) = <<>>
      BY Firsts
    <3>4. Puts(a1, HeadersCall(begin, top))
      <4> DEFINE g1 == <<Head(got)>>
      <4>1. a1 = Html!render_page(at, g1) /\ Head(g1) = Head(got) /\ g1 # <<>> /\ Tail(g1) = <<>>
        BY <3>3
      <4> HIDE DEF g1, a1
      <4>2. \/ Puts(a1, HeadersCall(begin, top))
            \/ Says(a1, 200)
            \/ Tail(g1) # <<>>
        BY <1>4, <4>1, IndexIs
      <4> QED BY <3>2, <4>1, <4>2 DEF Says
    <3>5. top \in Int /\ top < told /\ begin \in Int
      <4>1. told \in low..height
        BY <1>0, <1>2, <1>4, ToldTip
      <4>2. told \in 1..(Word - 1)
        BY <1>0, <4>1, WordAssumption DEF Possible
      <4>3. top \in Int /\ top < told
        BY <4>2, HtmlTopWithin
      <4> HIDE DEF top
      <4>4. begin \in Int
        BY <4>3, WordAssumption, PerPageAssumption DEF Html!HtmlBegin, Html!Saturated, Html!Lesser
      <4> QED BY <4>3, <4>4
    <3> HIDE DEF top, begin
    <3>6. Head(u).err \in Faults
      BY <1>0, <1>2, <1>4, <2>3, <3>4, <3>5, RangeFails DEF Puts
    <3>7. a1.call.op = "headers_range" /\ a1.call.op \in Ops
      BY <3>4 DEF Puts, HeadersCall, Ops
    <3> HIDE DEF a1
    <3> DEFINE f == Head(u).err
               s == PageStatus("headers_range", f)
    <3>8. PageSays(a1.call, f, s, low)
      BY <1>0, <2>3, <3>1, <3>7, PageFailure
    <3>9. Says(a, s) /\ f \in Errs(got) /\ f \in Faults
      BY <2>3, <3>1, <3>6
    <3> HIDE DEF a, f, s
    <3>10. s \in {501, 502, 503} /\ (s = 501 => f \in NotOffered) /\ (s = 503 => Transient(f))
      BY <3>7, <3>8 DEF PageSays
    <3>11. /\ Errs(got) \cap (Faults \cup NotOffered) # {}
           /\ s = 501 => Errs(got) \cap NotOffered # {}
      BY <3>9, <3>10
    <3>12. Fair(what, got, low, s)
      BY <3>9, <3>10, <3>11 DEF Fair
    <3>13. s = a.status
      BY <3>9 DEF Says
    <3> QED BY <3>12, <3>13 DEF a
  <2> QED BY <2>1, <2>2, <2>3
<1> QED BY <1>3, <1>4

\* The index, and the pages after it.
LEMMA IndexRoute ==
  ASSUME NEW what, NEW got, NEW low, Possible(what, got, low), Routed(what, got).done,
         what.route \in {"/", "/page"}
  PROVE  Fair(what, got, low, Routed(what, got).status)
<1>1. ~IsApi(what)
  BY DEF IsApi
<1>2. CASE what.route = "/"
  <2>1. \A g : Routed(what, g) = Html!render_page(0, g)
    BY <1>2, RoutedTo DEF Html!index
  <2>2. ~Malformed(what)
    BY <1>2 DEF Malformed
  <2> QED BY <1>1, <2>1, <2>2, ListingRoute
<1>3. CASE what.route = "/page" /\ what.arg.given = "number"
  <2>1. \A g : Routed(what, g) = Html!render_page(what.arg.value, g)
    BY <1>3, RoutedTo, PageAtIs
  <2>2. ~Malformed(what) /\ what.arg.value \in Nat
    BY <1>3 DEF Malformed, IsRequest, Possible, IsParam
  <2> QED BY <1>1, <2>1, <2>2, ListingRoute
<1>4. CASE what.route = "/page" /\ what.arg.given # "number"
  <2>1. Says(Routed(what, got), 404)
    <3>1. Routed(what, got) = Html!page_at(what.arg, got)
      BY <1>4, RoutedTo
    <3> QED BY <1>4, <3>1, PageAtIs DEF Puts
  <2>2. Malformed(what)
    BY <1>4 DEF Malformed
  <2> QED BY <1>1, <2>1, <2>2, RefusedIsFair DEF Says
<1> QED BY <1>2, <1>3, <1>4

\* A page of a block: the strip, the block, its transactions.
LEMMA BlockPageRoute ==
  ASSUME NEW what, NEW got, NEW low, Possible(what, got, low), Routed(what, got).done,
         what.route = "/block"
  PROVE  Fair(what, got, low, Routed(what, got).status)
<1> DEFINE a == Routed(what, got)
           a1 == Routed(what, <<Head(got)>>)
           g2 == <<Head(got), Head(Tail(got))>>
           a2 == Routed(what, g2)
           u == Tail(got)
           v == Tail(u)
<1>0. Conversed(what, got, low) /\ low \in Nat /\ height \in Nat /\ "transactions" \in Simple
  BY DEF Conversed, Possible, Simple, Ops
<1>1. /\ ~IsApi(what) /\ IsId(what.arg)
      /\ Malformed(what) <=> what.arg.is = "text"
      /\ ~HasBlock(what.arg, low) => NotThere(what, low)
  BY DEF IsApi, IsRequest, Possible, Malformed, NotThere
<1>2. \A g : Routed(what, g) = Html!block(what.arg, what.sort, what.dir, g)
  BY RoutedTo
<1>3. got # <<>>
  BY <1>2, BlockPageIs DEF Puts
<1>4. CASE what.arg.is = "text"
  <2>1. Says(a, 404)
    BY <1>2, <1>3, <1>4, BlockPageIs
  <2> QED BY <1>1, <1>4, <2>1, RefusedIsFair DEF Says
<1>5. CASE what.arg.is # "text"
  <2>1. \/ /\ u # <<>> /\ ~Head(u).ok
           /\ Says(a, PageStatus("block", Head(u).err))
        \/ /\ u # <<>> /\ Head(u).ok /\ v # <<>> /\ ~Head(v).ok
           /\ Says(a, PageStatus("transactions", Head(v).err))
        \/ Says(a, 200)
    <3>1. \/ u = <<>> /\ Puts(a, BlockCall(what.arg))
          \/ /\ u # <<>> /\ ~Head(u).ok
             /\ Says(a, PageStatus("block", Head(u).err))
          \/ /\ u # <<>> /\ Head(u).ok /\ v = <<>>
             /\ ~a.done /\ a.call.op = "transactions"
          \/ /\ u # <<>> /\ Head(u).ok /\ v # <<>> /\ ~Head(v).ok
             /\ Says(a, PageStatus("transactions", Head(v).err))
          \/ Says(a, 200)
      BY <1>2, <1>3, <1>5, BlockPageIs
    <3> QED BY <3>1 DEF Puts
  <2>2. CASE /\ u # <<>> /\ ~Head(u).ok
             /\ Says(a, PageStatus("block", Head(u).err))
    <3>1. Reply(a1, Head(u), low) /\ Head(u).err \in Errs(got)
      BY <1>0, <1>3, <2>2, Told
    <3>2. Puts(a1, BlockCall(what.arg))
      <4> DEFINE g1 == <<Head(got)>>
      <4>1. ~a1.done
        BY <3>1 DEF Reply
      <4>2. g1 # <<>> /\ Tail(g1) = <<>>
        BY Firsts
      <4>3. a1 = Html!block(what.arg, what.sort, what.dir, g1)
        BY <1>2
      <4> HIDE DEF g1, a1
      <4> QED BY <1>5, <4>1, <4>2, <4>3, BlockPageIs DEF Says
    <3> HIDE DEF a1
    <3>3. Fair(what, got, low, PageStatus("block", Head(u).err))
      BY <1>0, <1>1, <1>5, <2>2, <3>1, <3>2, PageBlockEnds DEF Puts
    <3> QED BY <2>2, <3>3 DEF Says
  <2>3. CASE /\ u # <<>> /\ Head(u).ok /\ v # <<>> /\ ~Head(v).ok
             /\ Says(a, PageStatus("transactions", Head(v).err))
    <3>1. ~a2.done
      BY <1>0, <1>3, <2>3, Told DEF Reply
    <3>2. /\ g2 # <<>> /\ Tail(g2) # <<>> /\ Head(Tail(g2)) = Head(u) /\ Tail(Tail(g2)) = <<>>
      BY Firsts DEF u
    <3>3. a2 = Html!block(what.arg, what.sort, what.dir, g2)
      BY <1>2
    <3> HIDE DEF g2, a2
    <3>4. a2.call.op = "transactions"
      BY <1>5, <2>3, <3>1, <3>2, <3>3, BlockPageIs DEF Says
    <3>5. Fair(what, got, low, PageStatus("transactions", Head(v).err))
      BY <1>0, <1>1, <1>3, <1>5, <2>3, <3>4, ThirdFails DEF g2, a2
    <3> QED BY <2>3, <3>5 DEF Says
  <2>4. CASE Says(a, 200)
    BY <1>1, <1>5, <2>4, SuccessIsFair DEF Says
  <2> QED BY <2>1, <2>2, <2>3, <2>4
<1> QED BY <1>4, <1>5

\* What is no hash has no page.
LEMMA TxPageRefuses ==
  ASSUME NEW arg, arg.is # "hash", NEW got, got # <<>>
  PROVE  Says(Html!transaction(arg, got), 404)
BY ErrorPageIs DEF Html!transaction, Html!Stripped, Html!Asked

\* A page of a transaction: the strip, the transaction, the tip.
LEMMA TxPageRoute ==
  ASSUME NEW what, NEW got, NEW low, Possible(what, got, low), Routed(what, got).done,
         what.route = "/tx"
  PROVE  Fair(what, got, low, Routed(what, got).status)
<1> DEFINE a == Routed(what, got)
           a1 == Routed(what, <<Head(got)>>)
           u == Tail(got)
<1>0. Conversed(what, got, low) /\ low \in Nat /\ height \in Nat /\ "transactions" \in Simple
  BY DEF Conversed, Possible, Simple, Ops
<1>1. /\ ~IsApi(what)
      /\ Malformed(what) <=> what.arg.is # "hash"
      /\ ~Known(what.arg.hash, low) => NotThere(what, low)
      /\ what.arg.hash \in Undecodable => CannotBeRead(what)
  BY DEF IsApi, Malformed, NotThere, CannotBeRead
<1>2. \A g : Routed(what, g) = Html!transaction(what.arg, g)
  BY RoutedTo
<1>3. got # <<>>
  BY <1>2, TxPageIs DEF Puts
<1>4. CASE what.arg.is # "hash"
  <2>1. a = Html!transaction(what.arg, got)
    BY <1>2
  <2> HIDE DEF a
  <2>2. Says(a, 404)
    BY <1>3, <1>4, <2>1, TxPageRefuses
  <2> QED BY <1>1, <1>4, <2>2, RefusedIsFair DEF Says, a
<1>5. CASE what.arg.is = "hash"
  <2>1. \/ /\ u # <<>> /\ ~Head(u).ok
           /\ Says(a, PageStatus("transactions", Head(u).err))
        \/ /\ u # <<>> /\ Head(u).ok
           /\ \/ Says(a, 404) /\ Head(u).value = <<>>
              \/ Says(a, 502) /\ Head(u).value # <<>> /\ ~Head(Head(u).value).decodes
              \/ Says(a, 200)
    <3>1. \/ u = <<>> /\ Puts(a, TransactionsCall(<<what.arg.hash>>))
          \/ /\ u # <<>> /\ ~Head(u).ok
             /\ Says(a, PageStatus("transactions", Head(u).err))
          \/ /\ u # <<>> /\ Head(u).ok
             /\ \/ Says(a, 404) /\ Head(u).value = <<>>
                \/ Says(a, 502) /\ Head(u).value # <<>> /\ ~Head(Head(u).value).decodes
                \/ ~a.done
                \/ Says(a, 200)
      <4>1. a = Html!transaction(what.arg, got)
        BY <1>2
      <4> HIDE DEF a
      <4> QED BY <1>3, <1>5, <4>1, TxPageIs
    <3> QED BY <3>1 DEF Puts
  <2>2. CASE u # <<>>
    <3>1. Reply(a1, Head(u), low) /\ (~Head(u).ok => Head(u).err \in Errs(got))
      BY <1>0, <1>3, <2>2, Told
    <3>2. Puts(a1, TransactionsCall(<<what.arg.hash>>))
      <4> DEFINE g1 == <<Head(got)>>
      <4>1. ~a1.done
        BY <3>1 DEF Reply
      <4>2. g1 # <<>> /\ Tail(g1) = <<>>
        BY Firsts
      <4>3. a1 = Html!transaction(what.arg, g1)
        BY <1>2
      <4> HIDE DEF g1, a1
      <4> QED BY <1>5, <4>1, <4>2, <4>3, TxPageIs DEF Says
    <3>3. a1.call.op = "transactions"
      BY <3>2 DEF Puts, TransactionsCall
    <3>4. CASE ~Head(u).ok
      <4>1. Says(a, PageStatus("transactions", Head(u).err))
        BY <2>1, <3>4
      <4>2. Fair(what, got, low, PageStatus("transactions", Head(u).err))
        BY <1>0, <1>1, <1>3, <1>5, <2>2, <3>3, <3>4, SecondFails
      <4> QED BY <4>1, <4>2 DEF Says
    <3>5. CASE Head(u).ok
      <4> DEFINE txs == Head(u).value
      <4>1. /\ txs = <<>> => ~Known(what.arg.hash, low)
            /\ txs # <<>> /\ ~Head(txs).decodes => what.arg.hash \in Undecodable
        <5> HIDE DEF a1
        <5> QED BY <1>0, <3>1, <3>2, <3>5, TransactionTold DEF Puts
      <4> HIDE DEF txs
      <4>2. \/ Says(a, 404) /\ txs = <<>>
            \/ Says(a, 502) /\ txs # <<>> /\ ~Head(txs).decodes
            \/ Says(a, 200)
        BY <2>1, <3>5 DEF txs
      <4>3. CASE Says(a, 404) /\ txs = <<>>
        BY <1>1, <1>5, <4>1, <4>3 DEF Fair, Says
      <4>4. CASE Says(a, 502) /\ txs # <<>> /\ ~Head(txs).decodes
        BY <1>1, <1>5, <4>1, <4>4 DEF Fair, Says
      <4>5. CASE Says(a, 200)
        BY <1>1, <1>5, <4>5, SuccessIsFair DEF Says
      <4> QED BY <4>2, <4>3, <4>4, <4>5
    <3> QED BY <3>4, <3>5
  <2> QED BY <2>1, <2>2
<1> QED BY <1>4, <1>5

\* The pages of the pool and of the alternative chains: the strip, then one call.
LEMMA PoolPageRoute ==
  ASSUME NEW what, NEW got, NEW low, Possible(what, got, low), Routed(what, got).done,
         what.route \in {"/mempool", "/altblocks"}
  PROVE  Fair(what, got, low, Routed(what, got).status)
<1> DEFINE a == Routed(what, got)
           a1 == Routed(what, <<Head(got)>>)
           u == Tail(got)
<1>0. Conversed(what, got, low) /\ "mempool" \in Simple /\ "alt_chains" \in Simple
  BY DEF Possible, Simple, Ops
<1>1. ~IsApi(what) /\ ~Malformed(what)
  BY DEF IsApi, Malformed
<1>2. ASSUME NEW op \in Simple, got # <<>>,
             (u # <<>> /\ ~Head(u).ok /\ Says(a, PageStatus(op, Head(u).err))) \/ Says(a, 200),
             a1.done \/ a1.call.op = op
      PROVE  Fair(what, got, low, a.status)
  <2>1. CASE Says(a, 200)
    BY <1>1, <2>1, SuccessIsFair DEF Says
  <2>2. CASE u # <<>> /\ ~Head(u).ok /\ Says(a, PageStatus(op, Head(u).err))
    <3>1. ~a1.done
      BY <1>0, <1>2, <2>2, Told DEF Reply
    <3>2. Fair(what, got, low, PageStatus(op, Head(u).err))
      BY <1>0, <1>1, <1>2, <2>2, <3>1, SecondFails
    <3> QED BY <2>2, <3>2 DEF Says
  <2> QED BY <1>2, <2>1, <2>2
<1>3. <<Head(got)>> # <<>> /\ Tail(<<Head(got)>>) = <<>>
  BY Firsts
<1>4. CASE what.route = "/mempool"
  <2>1. \A g : Routed(what, g) = Html!mempool(what.sort, what.dir, 5, g)
    BY <1>4, RoutedTo
  <2>2. got # <<>>
    BY <2>1, PoolPageIs DEF Puts
  <2>3. (u # <<>> /\ ~Head(u).ok /\ Says(a, PageStatus("mempool", Head(u).err))) \/ Says(a, 200)
    BY <2>1, <2>2, PoolPageIs DEF Puts
  <2>4. a1.done \/ a1.call.op = "mempool"
    BY <1>3, <2>1, PoolPageIs DEF Puts, Says, MempoolCall
  <2> QED BY <1>0, <1>2, <2>2, <2>3, <2>4
<1>5. CASE what.route = "/altblocks"
  <2>1. \A g : Routed(what, g) = Html!alt_blocks(g)
    BY <1>5, RoutedTo
  <2>2. got # <<>>
    BY <2>1, AltBlocksIs DEF Puts
  <2>3. (u # <<>> /\ ~Head(u).ok /\ Says(a, PageStatus("alt_chains", Head(u).err))) \/ Says(a, 200)
    BY <2>1, <2>2, AltBlocksIs DEF Puts
  <2>4. a1.done \/ a1.call.op = "alt_chains"
    <3> DEFINE g1 == <<Head(got)>>
    <3>1. a1 = Html!alt_blocks(g1) /\ g1 # <<>> /\ Tail(g1) = <<>>
      BY <1>3, <2>1
    <3> HIDE DEF g1, a1
    <3>2. Puts(a1, AltChainsCall) \/ Says(a1, 200)
      BY <3>1, AltBlocksIs
    <3> QED BY <3>2 DEF Puts, Says, AltChainsCall
  <2> QED BY <1>0, <1>2, <2>2, <2>3, <2>4
<1> QED BY <1>4, <1>5

\* The routes that cannot fail: the documents, what is not served, a search that
\* redirects, and the one that says that the explorer is up.
LEMMA PlainRoutes ==
  ASSUME NEW what, NEW got, NEW low, Possible(what, got, low), Routed(what, got).done,
         what.route \in {"/api", "unknown", "/search", "health"}
  PROVE  Fair(what, got, low, Routed(what, got).status)
<1> DEFINE a == Routed(what, got)
<1>0. ~IsApi(what)
  BY DEF IsApi
<1>1. CASE what.route = "/api"
  <2>1. a = Html!api_docs(got) /\ ~Malformed(what)
    BY <1>1, RoutedTo DEF Malformed
  <2>2. Says(a, 200)
    BY <2>1, DocsIs DEF Puts
  <2> QED BY <2>1, <2>2, SuccessIsFair DEF Says
<1>2. CASE what.route = "unknown"
  <2>1. a = Html!not_found(got) /\ Malformed(what)
    BY <1>2, RoutedTo DEF Malformed
  <2>2. Says(a, 404)
    BY <2>1, NotFoundIs DEF Puts
  <2> QED BY <1>0, <2>1, <2>2, RefusedIsFair DEF Says
<1>3. CASE what.route = "/search"
  <2>1. a = Html!search(what.arg, got) /\ (Malformed(what) <=> what.arg.is = "text")
        /\ (IsId(what.arg) \/ what.arg.is = "empty")
    BY <1>3, RoutedTo DEF Malformed, Possible, IsRequest
  <2>2. CASE what.arg.is = "text"
    <3>1. Says(a, 404)
      BY <2>1, <2>2, PageSearchIs DEF Puts
    <3> QED BY <1>0, <2>1, <2>2, <3>1, RefusedIsFair DEF Says
  <2>3. CASE what.arg.is # "text"
    <3>1. Says(a, 303)
      BY <2>1, <2>3, PageSearchIs
    <3> QED BY <2>1, <2>3, <3>1, SuccessIsFair DEF Says
  <2> QED BY <2>2, <2>3
<1>4. CASE what.route = "health"
  <2>1. a = Answers(200, Empty, got) /\ ~Malformed(what)
    BY <1>4, RoutedTo DEF Malformed
  <2>2. a.status = 200
    BY <2>1 DEF Answers
  <2> QED BY <2>1, <2>2, SuccessIsFair
<1> QED BY <1>1, <1>2, <1>3, <1>4

\* A search for what is neither a height nor a hash.
LEMMA TextSearchRoute ==
  ASSUME NEW what, NEW got, NEW low, Possible(what, got, low), Routed(what, got).done,
         what.route = "/api/search", what.arg.is = "text"
  PROVE  Fair(what, got, low, Routed(what, got).status)
<1>0. Conversed(what, got, low) /\ IsApi(what) /\ Malformed(what)
  BY DEF Possible, IsApi, Malformed
<1>1. \A g : Says(Routed(what, g), 400)
  BY RoutedTo, SearchIs
<1>2. got = <<>>
  BY <1>0, <1>1, RefusedFirst DEF Says
<1> QED BY <1>0, <1>1, <1>2, RefusedIsFair DEF Says

\* Every route there is.
LEMMA EveryRoute ==
  ASSUME NEW what, NEW got, NEW low, Possible(what, got, low), Routed(what, got).done
  PROVE  Fair(what, got, low, Routed(what, got).status)
<1>1. Conversed(what, got, low) /\ IsRequest(what)
  BY DEF Possible
<1>2. CASE what.route \in {"/api/version", "/api/networkinfo", "/api/transactions/recent"}
  BY <1>1, <1>2, VersionRoutes
<1>3. CASE what.route = "/api/feeestimate"
  BY <1>1, <1>3, FeeRoute
<1>4. CASE what.route = "/api/mempool"
  BY <1>1, <1>4, MempoolRoute
<1>5. CASE what.route = "/api/block"
  BY <1>1, <1>5, BlockRoute
<1>6. CASE what.route = "/api/search"
  <2>1. what.arg.is \in {"text", "hash", "height"}
    BY <1>1, <1>6 DEF IsRequest, IsId
  <2> QED BY <1>1, <1>6, <2>1, BlockRoute, SearchRoute, TextSearchRoute
<1>7. CASE what.route = "/api/rawblock"
  BY <1>1, <1>7, RawBlockRoute
<1>8. CASE what.route \in {"/api/transaction", "/api/rawtransaction"}
  BY <1>1, <1>8, TxRoutes
<1>9. CASE what.route = "/api/transactions"
  BY <1>1, <1>9, TransactionsRoute
<1>10. CASE what.route = "/api/blocks"
  BY <1>1, <1>10, BlocksRoute
<1>11. CASE what.route = "/api/transaction/private"
  BY <1>1, <1>11, PrivateRoute
<1>12. CASE what.route \in {"/", "/page"}
  BY <1>12, IndexRoute
<1>13. CASE what.route = "/block"
  BY <1>13, BlockPageRoute
<1>14. CASE what.route = "/tx"
  BY <1>14, TxPageRoute
<1>15. CASE what.route \in {"/mempool", "/altblocks"}
  BY <1>15, PoolPageRoute
<1>16. CASE what.route \in {"/api", "unknown", "/search", "health"}
  BY <1>16, PlainRoutes
<1>17. what.route \in {"health", "unknown", "/", "/page", "/mempool", "/altblocks", "/api", "/block", "/tx",
         "/search", "/api/version", "/api/networkinfo", "/api/transaction/private", "/api/transactions/recent",
         "/api/feeestimate", "/api/transactions", "/api/mempool", "/api/blocks", "/api/block",
         "/api/transaction", "/api/rawblock", "/api/rawtransaction", "/api/search"}
  BY <1>1 DEF IsRequest
<1> QED BY <1>2, <1>3, <1>4, <1>5, <1>6, <1>7, <1>8, <1>9, <1>10, <1>11, <1>12, <1>13, <1>14, <1>15,
           <1>16, <1>17

-----------------------------------------------------------------------------
\* Statuses.

\* The invariant makes every answer's status an honest one.
LEMMA TalkHonest == TalkIInv => HonestStatuses
<1> SUFFICES ASSUME TalkIInv, NEW r \in Requests, Answered(r)
             PROVE  LET status == Outcome(r).status
                        what   == What(r)
                    IN  /\ Malformed(what) => status = IF IsApi(what) THEN 400 ELSE 404
                        /\ status = 404 => Malformed(what) \/ Hides(r) \/ NotThere(what, reqs[r].oldest)
                        /\ status = 400 /\ what.route # "/api/transaction/private" =>
                             Malformed(what) /\ reqs[r].got = <<>>
                        /\ status >= 500 =>
                             Errors(r) \cap (Faults \cup NotOffered) # {} \/ CannotBeRead(what) \/ EndsAtHeight(r)
                        /\ status = 501 => Errors(r) \cap NotOffered # {}
                        /\ status = 503 => IF IsApi(what) THEN Errors(r) \cap NotOffered # {}
                                           ELSE \E f \in Errors(r) : Transient(f)
  BY DEF HonestStatuses
<1> DEFINE what == reqs[r].what
           got == reqs[r].got
           low == reqs[r].oldest
<1>1. Talked(reqs[r]) /\ Record(reqs[r]) /\ reqs[r] # NoRequest /\ Outcome(r).done
  BY DEF TalkIInv, TipIInv, Answered
<1>2. low \in Nat /\ low <= height /\ height \in Nat /\ StartHeight <= low
  BY OldestHolds
<1>3. IsRequest(what) /\ \A i \in 1..Len(got) : Heard(what, got, i, low)
  BY <1>1 DEF Talked
<1>4. \E S : got \in Seq(S)
  BY <1>1 DEF Record
<1>5. height <= MaxHeight /\ low >= StartHeight
  BY <1>2 DEF TalkIInv
<1>6. Outcome(r) = Routed(what, got) /\ What(r) = what /\ Errors(r) = Errs(got)
  BY DEF Outcome, What, Errors, Errs
<1>7. /\ Hides(r) <=> /\ what.route = "/api/search" /\ what.arg.is = "hash"
                      /\ Errs(got) \cap Faults # {} \/ what.arg.hash \in Undecodable
      /\ EndsAtHeight(r) <=> what.route = "/api/blocks" /\ PastTip \in Errs(got)
  BY <1>6 DEF Hides, EndsAtHeight
<1> HIDE DEF what, got, low
<1>8. Possible(what, got, low)
  BY <1>2, <1>3, <1>4, <1>5 DEF Possible, Conversed
<1>9. Fair(what, got, low, Routed(what, got).status)
  BY <1>1, <1>6, <1>8, EveryRoute
<1>10. got = reqs[r].got /\ low = reqs[r].oldest
  BY DEF got, low
<1> QED BY <1>6, <1>7, <1>9, <1>10 DEF Fair

\* An answer's status says whose fault it is, for every chain, every mix of routes and
\* however many requests run at once (HonestStatuses).
THEOREM StatusesAreHonest == Spec => []HonestStatuses
<1>1. Init => TalkIInv
  BY TalkInit
<1>2. TalkIInv /\ [Next]_vars => TalkIInv'
  BY TalkNext
<1>3. TalkIInv => HonestStatuses
  BY TalkHonest
<1> QED BY <1>1, <1>2, <1>3, PTL DEF Spec

-----------------------------------------------------------------------------
\* The set a lookup by the end of a hash is answered with.

\* Of the assumptions, a step uses those it names.
HIDE HashTextAssumption
HIDE BandAssumption
HIDE LimitsAssumption
HIDE FaultsAssumption
HIDE WordAssumption
HIDE PerPageAssumption
HIDE StripAssumption
HIDE LogAssumption
HIDE TicksAssumption
HIDE ExplorerAssumption
HIDE PageLimitsAssumption
HIDE RoutesAssumption
HIDE PageLimitAssumption
HIDE HeightAssumption

\* A sequence in which nothing is repeated counts its members.
LEMMA ListCounts ==
  ASSUME NEW A, NEW s \in Seq(A), Unrepeated(s)
  PROVE  IsFiniteSet(Range(s)) /\ Cardinality(Range(s)) = Len(s)
<1>1. Len(s) \in Nat /\ DOMAIN s = 1..Len(s) /\ s = [i \in 1..Len(s) |-> s[i]]
  OBVIOUS
<1>2. s \in [1..Len(s) -> Range(s)] /\ \A t \in Range(s) : \E i \in 1..Len(s) : s[i] = t
  BY <1>1 DEF Range
<1>3. \A i, j \in 1..Len(s) : s[i] = s[j] => i = j
  BY <1>1 DEF Unrepeated
<1>4. s \in Bijection(1..Len(s), Range(s))
  BY <1>2, <1>3, Fun_IsBij
<1>5. ExistsBijection(1..Len(s), Range(s))
  BY <1>4, Fun_ExistsBij
<1>6. IsFiniteSet(1..Len(s)) /\ Cardinality(1..Len(s)) = Len(s)
  <2>1. ASSUME NEW n \in Nat PROVE IsFiniteSet(1..n) /\ Cardinality(1..n) = n
    <3>1. 1 \in Int /\ n \in Int
      OBVIOUS
    <3>2. IsFiniteSet(1..n) /\ Cardinality(1..n) = IF 1 > n THEN 0 ELSE n - 1 + 1
      BY <3>1, FS_Interval
    <3> QED BY <3>2
  <2> QED BY <1>1, <2>1
<1> QED BY <1>5, <1>6, FS_Bijection

\* What is left of a sequence has the members that were in the set.
LEMMA SiftRange ==
  ASSUME NEW A, NEW s \in Seq(A), NEW T
  PROVE  Range(Within(s, T)) = Range(s) \cap T
<1> DEFINE w == Within(s, T)
<1>1. w \in Seq(A)
  BY SiftPicks
<1>2. PICK p : Picks(w, p, s, T, Len(s))
  BY SiftPicks
<1> HIDE DEF w
<1>3. DOMAIN w = 1..Len(w) /\ DOMAIN s = 1..Len(s)
  BY <1>1
<1>4. \A k \in 1..Len(w) : p[k] \in 1..Len(s) /\ w[k] = s[p[k]] /\ s[p[k]] \in T
  BY <1>2 DEF Picks
<1>5. \A i \in 1..Len(s) : s[i] \in T => \E k \in 1..Len(w) : w[k] = s[i]
  BY <1>2, <1>4 DEF Picks
<1>6. Range(w) \subseteq Range(s) \cap T
  BY <1>3, <1>4 DEF Range
<1>7. Range(s) \cap T \subseteq Range(w)
  BY <1>3, <1>5 DEF Range
<1> QED BY <1>6, <1>7 DEF w

\* The bytes asked for are the last ones of the postfix, so that nothing that ends in
\* the postfix is missed.
LEMMA SuffixMatches ==
  ASSUME NEW C, NEW postfix \in Seq(C), NEW q \in from_hex_suffix(whole_byte_suffix(postfix)),
         NEW D, NEW t \in Seq(D), Len(t) = HashLen, EndsWith(t, postfix)
  PROVE  Matches(t, q)
<1> DEFINE p == Len(postfix)
           k == p - (p % 2)
           s == whole_byte_suffix(postfix)
           n == Len(t)
           E == C \cup D \cup {0}
<1>0. postfix \in Seq(E) /\ t \in Seq(E)
  OBVIOUS
<1>1. p \in Nat /\ k \in 0..p /\ n \in Nat /\ p <= n /\ n = HashLen
  BY DEF EndsWith
<1>2. s = SubSeq(postfix, p - k + 1, p)
  BY DEF whole_byte_suffix, LastChars
<1>3. s \in Seq(E) /\ Len(s) = k /\ \A i \in 1..k : s[i] = postfix[p - k + i]
  <2> HIDE DEF k
  <2> QED BY <1>0, <1>1, <1>2
<1>4. SubSeq(t, n - p + 1, n) = postfix
  BY DEF EndsWith, LastChars
<1>5. \A i \in 1..p : postfix[i] = t[n - p + i]
  <2>1. \A i \in 1..p : SubSeq(t, n - p + 1, n)[i] = t[n - p + i]
    BY <1>0, <1>1
  <2> QED BY <1>4, <2>1
<1>6. SubSeq(t, n - k + 1, n) \in Seq(E) /\ Len(SubSeq(t, n - k + 1, n)) = k
      /\ \A i \in 1..k : SubSeq(t, n - k + 1, n)[i] = t[n - k + i]
  <2> HIDE DEF k, E, s
  <2>1. n - k + 1 \in 1..(n + 1) /\ n - (n - k + 1) + 1 = k /\ n \in 0..n
    BY <1>1
  <2>2. \A i \in (n - k + 1)..n : t[i] \in E
    BY <1>0, <1>1
  <2>3. SubSeq(t, n - k + 1, n) = [i \in 1..k |-> t[n - k + i]]
    BY <1>0, <1>1, <2>1
  <2>4. \A i \in 1..k : n - k + i \in (n - k + 1)..n
    BY <1>1
  <2>5. ASSUME NEW y, y = [i \in 1..k |-> t[n - k + i]]
        PROVE  y \in Seq(E) /\ Len(y) = k /\ \A i \in 1..k : y[i] = t[n - k + i]
    BY <1>1, <2>2, <2>4, <2>5
  <2> QED BY <2>3, <2>5
<1> HIDE DEF k, s, E
<1>7. \A i \in 1..k : s[i] = t[n - k + i]
  <2> SUFFICES ASSUME NEW i \in 1..k PROVE s[i] = t[n - k + i]
    OBVIOUS
  <2>1. p - k + i \in 1..p /\ n - p + (p - k + i) = n - k + i
    BY <1>1
  <2> QED BY <1>3, <1>5, <2>1
<1>8. SubSeq(t, n - k + 1, n) = s
  <2> DEFINE y == SubSeq(t, n - k + 1, n)
  <2>1. y \in Seq(E) /\ Len(y) = k /\ \A i \in 1..k : y[i] = t[n - k + i]
    BY <1>6
  <2> HIDE DEF y
  <2>2. y = s
    BY <1>3, <1>7, <2>1, SeqEqual
  <2> QED BY <2>2 DEF y
<1> DEFINE z == [i \in 1..(HashLen - k) |-> 0]
<1>9. q.txid_template = z \o s /\ q.num_matching_bits = BitsPerChar * k
  BY <1>3 DEF from_hex_suffix, s
<1>10. (BitsPerChar * k) \div BitsPerChar = k
  BY <1>1, HashTextAssumption
<1>11. z \in Seq(E) /\ Len(z) = HashLen - k
  <2>1. HashLen - k \in Nat /\ 0 \in E
    BY <1>1 DEF E
  <2> QED BY <2>1
<1> HIDE DEF z
<1> DEFINE x == z \o s
<1>12. x \in Seq(E) /\ Len(x) = HashLen
  BY <1>1, <1>3, <1>11
<1>13. \A i \in 1..k : x[HashLen - k + i] = s[i]
  BY <1>1, <1>3, <1>11
<1> HIDE DEF x
<1>14. LastChars(x, k) = s
  <2> DEFINE y == SubSeq(x, HashLen - k + 1, HashLen)
  <2>1. y = LastChars(x, k)
    BY <1>12 DEF LastChars
  <2>2. y \in Seq(E) /\ Len(y) = k /\ \A i \in 1..k : y[i] = x[HashLen - k + i]
    BY <1>1, <1>12
  <2> HIDE DEF y
  <2>3. y = s
    BY <1>3, <1>13, <2>2, SeqEqual
  <2> QED BY <2>1, <2>3
<1>15. EndsWith(t, s)
  BY <1>1, <1>3, <1>8 DEF EndsWith, LastChars
<1>16. LastChars(q.txid_template, q.num_matching_bits \div BitsPerChar) = s
  BY <1>9, <1>10, <1>14 DEF x
<1> QED BY <1>15, <1>16 DEF Matches

\* The hashes of transactions.
TxHash == [1..HashLen -> HexChars]

\* What a block of the ledger is.
LEMMA LedgerIs ==
  /\ Len(Ledger) \in Nat
  /\ \A h \in 0..(Len(Ledger) - 1) :
       /\ BlockAt(h).txs \in Seq(TxHash) /\ Len(BlockAt(h).txs) >= 1
       /\ DOMAIN BlockAt(h).txs = 1..Len(BlockAt(h).txs)
       /\ \A i \in DOMAIN BlockAt(h).txs : Coinbase(BlockAt(h).txs[i]) <=> i = 1
  /\ \A g, h \in 0..(Len(Ledger) - 1) : \A i \in DOMAIN BlockAt(h).txs, j \in DOMAIN BlockAt(g).txs :
       BlockAt(h).txs[i] = BlockAt(g).txs[j] => g = h /\ i = j
  /\ Pooled \in Seq(TxHash) /\ Unrepeated(Pooled)
<1> USE DEF TxHash
<1>1. Len(Ledger) \in Nat /\ Pooled \in Seq(TxHash) /\ IsInjective(Pooled)
  BY LedgerAssumption
<1>2. ASSUME NEW h \in 0..(Len(Ledger) - 1)
      PROVE  /\ BlockAt(h).txs \in Seq(TxHash) /\ BlockAt(h).txs # <<>>
             /\ \A i \in DOMAIN BlockAt(h).txs : Coinbase(BlockAt(h).txs[i]) <=> i = 1
             /\ \A g \in 0..(Len(Ledger) - 1) : \A i \in DOMAIN BlockAt(h).txs, j \in DOMAIN BlockAt(g).txs :
                  BlockAt(h).txs[i] = BlockAt(g).txs[j] => g = h /\ i = j
  BY LedgerAssumption
<1>3. Unrepeated(Pooled)
  BY <1>1 DEF Unrepeated, IsInjective
<1>4. ASSUME NEW s \in Seq(TxHash), s # <<>> PROVE Len(s) >= 1 /\ DOMAIN s = 1..Len(s)
  BY <1>4
<1> QED BY <1>1, <1>2, <1>3, <1>4

\* What is mined is in a block.
LEMMA MinedIs ==
  ASSUME NEW w
  PROVE  /\ \A t : t \in Mined(w) <=> IsMined(t, w)
         /\ \A t : IsMined(t, w) <=>
              \E h \in 0..(w - 1) : \E i \in DOMAIN BlockAt(h).txs : BlockAt(h).txs[i] = t
BY DEF Mined, IsMined, InBlock, Range

\* tx_count leaves out the coinbases, of which there is one in each block, so what the
\* lookup takes for the number of the chain's transactions is that number.
LEMMA TransactionsCounted ==
  ASSUME NEW w \in Nat, w <= Len(Ledger)
  PROVE  /\ Mined(w) \subseteq TxHash /\ IsFiniteSet(Mined(w))
         /\ total_transactions(Info(w)) = Cardinality(Mined(w))
<1> DEFINE H == 0..(w - 1)
           C == {BlockAt(h).txs[1] : h \in H}
           P == {t \in Range(Pooled) : IsMined(t, w)}
           first == [i \in 1..w |-> BlockAt(i - 1).txs[1]]
<1>1. \A h \in H : h \in 0..(Len(Ledger) - 1)
  BY LedgerIs
<1>2. \A h \in H : /\ DOMAIN BlockAt(h).txs = 1..Len(BlockAt(h).txs) /\ 1 \in DOMAIN BlockAt(h).txs
                   /\ \A i \in DOMAIN BlockAt(h).txs : BlockAt(h).txs[i] \in TxHash
                   /\ \A i \in DOMAIN BlockAt(h).txs : Coinbase(BlockAt(h).txs[i]) <=> i = 1
  BY <1>1, LedgerIs
<1>3. Mined(w) \subseteq TxHash
  BY <1>2, MinedIs
<1>4. IsFiniteSet(C) /\ Cardinality(C) = w
  <2>1. \A i \in 1..w : i - 1 \in H
    OBVIOUS
  <2>2. first \in [1..w -> C]
    BY <2>1
  <2>3. ASSUME NEW i \in 1..w, NEW j \in 1..w, first[i] = first[j] PROVE i = j
    <3>1. i - 1 \in 0..(Len(Ledger) - 1) /\ j - 1 \in 0..(Len(Ledger) - 1)
      BY <1>1, <2>1
    <3>2. BlockAt(i - 1).txs[1] = BlockAt(j - 1).txs[1]
      BY <2>3
    <3>3. 1 \in DOMAIN BlockAt(i - 1).txs /\ 1 \in DOMAIN BlockAt(j - 1).txs
      BY <1>2, <2>1
    <3>4. i - 1 = j - 1
      BY <3>1, <3>2, <3>3, LedgerIs
    <3> QED BY <3>4
  <2>4. ASSUME NEW t \in C PROVE \E i \in 1..w : first[i] = t
    <3>1. PICK h \in H : t = BlockAt(h).txs[1]
      OBVIOUS
    <3>2. h + 1 \in 1..w /\ (h + 1) - 1 = h
      OBVIOUS
    <3>3. first[h + 1] = t
      BY <3>1, <3>2
    <3> QED BY <3>2, <3>3
  <2> HIDE DEF first, C, H
  <2>5. first \in Bijection(1..w, C)
    BY <2>2, <2>3, <2>4, Fun_IsBij
  <2>6. ExistsBijection(1..w, C)
    BY <2>5, Fun_ExistsBij
  <2>7. IsFiniteSet(1..w) /\ Cardinality(1..w) = w
    <3>1. 1 \in Int /\ w \in Int
      OBVIOUS
    <3>2. IsFiniteSet(1..w) /\ Cardinality(1..w) = IF 1 > w THEN 0 ELSE w - 1 + 1
      BY <3>1, FS_Interval
    <3> QED BY <3>2
  <2> QED BY <2>6, <2>7, FS_Bijection
<1>5. IsFiniteSet(P) /\ Cardinality(P) = Len(Within(Pooled, P))
  <2>1. Within(Pooled, P) \in Seq(TxHash) /\ Unrepeated(Within(Pooled, P))
    BY LedgerIs, SiftKeeps
  <2>2. Range(Within(Pooled, P)) = Range(Pooled) \cap P
    BY LedgerIs, SiftRange
  <2>3. Range(Pooled) \cap P = P
    OBVIOUS
  <2> HIDE DEF P
  <2> QED BY <2>1, <2>2, <2>3, ListCounts
<1>6. Mined(w) = C \cup P
  <2>1. ASSUME NEW t \in Mined(w) PROVE t \in C \cup P
    <3>1. PICK h \in H : \E i \in DOMAIN BlockAt(h).txs : BlockAt(h).txs[i] = t
      BY MinedIs
    <3>2. CASE Coinbase(t)
      BY <1>2, <3>1, <3>2
    <3>3. CASE ~Coinbase(t)
      <4>1. t \in Range(Pooled)
        BY <3>3 DEF Coinbase, Range
      <4> QED BY <4>1, MinedIs
    <3> QED BY <3>2, <3>3
  <2>2. ASSUME NEW t \in C PROVE t \in Mined(w)
    BY <1>2, MinedIs
  <2>3. ASSUME NEW t \in P PROVE t \in Mined(w)
    BY MinedIs
  <2> HIDE DEF C, P
  <2> QED BY <2>1, <2>2, <2>3
<1>7. C \cap P = {}
  BY <1>2 DEF Coinbase, Range
<1>8. Cardinality(C \cap P) = 0
  BY <1>7, FS_EmptySet
<1>9. total_transactions(Info(w)) = Cardinality(P) + w
  BY <1>5 DEF total_transactions, Info
<1>10. Cardinality(P) \in Nat
  BY <1>5, FS_CardinalityType
<1> HIDE DEF C, P
<1>11. /\ IsFiniteSet(C \cup P)
       /\ Cardinality(C \cup P) = Cardinality(C) + Cardinality(P) - Cardinality(C \cap P)
  BY <1>4, <1>5, FS_Union
<1> QED BY <1>3, <1>4, <1>6, <1>8, <1>9, <1>10, <1>11

\* The handlers read the same rules as the properties.
LEMMA SameRules ==
  /\ \A text, postfix : Api!EndsWith(text, postfix) <=> EndsWith(text, postfix)
  /\ \A s, T : Api!Within(s, T) = Within(s, T)
  /\ \A f : Api!Range(f) = Range(f)
  /\ \A postfix : Api!whole_byte_suffix(postfix) = whole_byte_suffix(postfix)
  /\ \A s : Api!from_hex_suffix(s) = from_hex_suffix(s)
  /\ \A info : Api!total_transactions(info) = total_transactions(info)
  /\ \A postfix, n : Api!check_postfix(postfix, n) = check_postfix(postfix, n)
  /\ \A entries : Api!Decoded(entries) = Within(entries, {e \in Range(entries) : e.decodes})
  /\ \A e, n : Api!Unexpanded(e, n).tx_hash = e.tx_hash
<1>1. \A text, postfix : Api!EndsWith(text, postfix) <=> EndsWith(text, postfix)
  BY DEF Api!EndsWith, Api!LastChars, EndsWith, LastChars
<1>2. \A s, T : Api!Within(s, T) = Within(s, T)
  BY DEF Api!Within, Within
<1>3. \A f : Api!Range(f) = Range(f)
  BY DEF Api!Range, Range
<1>4. \A postfix : Api!whole_byte_suffix(postfix) = whole_byte_suffix(postfix)
  BY DEF Api!whole_byte_suffix, Api!LastChars, whole_byte_suffix, LastChars
<1>5. \A s : Api!from_hex_suffix(s) = from_hex_suffix(s)
  BY DEF Api!from_hex_suffix, Api!IsHexText, from_hex_suffix, IsHexText
<1>6. \A info : Api!total_transactions(info) = total_transactions(info)
  BY DEF Api!total_transactions, total_transactions
<1>7. \A postfix, n : Api!check_postfix(postfix, n) = check_postfix(postfix, n)
  BY DEF Api!check_postfix, Api!IsHexText, Api!InBand, Api!Expected, Api!Radix,
     check_postfix, IsHexText, InBand, Expected, Radix
<1>8. \A entries : Api!Decoded(entries) = Within(entries, {e \in Range(entries) : e.decodes})
  BY <1>2, <1>3 DEF Api!Decoded
<1>9. \A e, n : Api!Unexpanded(e, n).tx_hash = e.tx_hash
  BY DEF Api!Unexpanded, Api!TxDetail
<1> QED BY <1>1, <1>2, <1>3, <1>4, <1>5, <1>6, <1>7, <1>8, <1>9

\* What passes the rules, what is asked of the daemon for it, and what is kept of the
\* daemon's answer.
Fits(postfix, info) ==
  /\ check_postfix(postfix, total_transactions(info)) = "Ok"
  /\ from_hex_suffix(whole_byte_suffix(postfix)) # {}
RequestFor(postfix) == CHOOSE q \in from_hex_suffix(whole_byte_suffix(postfix)) : TRUE
Matching(postfix, txids) == Within(txids, {t \in Range(txids) : EndsWith(t, postfix)})

Kept(txs) == Within(txs, {e \in Range(txs) : e.decodes})
HashesOf(list) == [i \in DOMAIN list |-> list[i].tx_hash]

\* The lookup reply by reply, with what it shows.
LEMMA PrivateSays ==
  ASSUME NEW postfix, NEW got, NEW a, a = Api!transaction_private(postfix, got)
  PROVE  /\ got = <<>> => Puts(a, InfoCall)
         /\ got # <<>> /\ ~Head(got).ok => Says(a, ApiStatus("info", Head(got).err))
         /\ got # <<>> /\ Head(got).ok =>
              LET u == Tail(got)
                  v == Tail(u)
                  list == Matching(postfix, Head(u).value)
              IN  /\ ~Fits(postfix, Head(got).value) => Says(a, 400)
                  /\ Fits(postfix, Head(got).value) =>
                       /\ u = <<>> => Puts(a, TxidsCall(RequestFor(postfix)))
                       /\ u # <<>> /\ ~Head(u).ok => Says(a, ApiStatus("txids_loose", Head(u).err))
                       /\ u # <<>> /\ Head(u).ok =>
                            /\ Len(list) > MAX_PRIVATE_TX_MATCHES => Says(a, 400)
                            /\ ~(Len(list) > MAX_PRIVATE_TX_MATCHES) =>
                                 /\ list = <<>> => Says(a, 200) /\ Hashes(a.body.txs) = HashesOf(Kept(<<>>))
                                 /\ list # <<>> =>
                                      /\ v = <<>> => Puts(a, TransactionsCall(list))
                                      /\ v # <<>> /\ ~Head(v).ok => Says(a, ApiStatus("transactions", Head(v).err))
                                      /\ v # <<>> /\ Head(v).ok =>
                                           Says(a, 200) /\ Hashes(a.body.txs) = HashesOf(Kept(Head(v).value))
<1> DEFINE info == Head(got).value
           u == Tail(got)
           v == Tail(u)
           txids == Head(u).value
           list == Matching(postfix, txids)
           Shown(txs) == [i \in DOMAIN Api!Decoded(txs) |->
             Api!Unexpanded(Api!Decoded(txs)[i],
                            Api!Decoded(txs)[i].block_height + Api!Decoded(txs)[i].confirmations)]
<1>1. got = <<>> => Puts(a, InfoCall)
  BY PrivateIs
<1>2. got # <<>> /\ ~Head(got).ok => Says(a, ApiStatus("info", Head(got).err))
  BY PrivateIs
<1>3. ASSUME NEW txs PROVE Hashes(Shown(txs)) = HashesOf(Kept(txs))
  <2>1. Api!Decoded(txs) = Kept(txs)
    BY SameRules DEF Kept
  <2>2. Hashes(Shown(txs)) = [i \in DOMAIN Api!Decoded(txs) |-> Api!Decoded(txs)[i].tx_hash]
    BY SameRules DEF Hashes
  <2> QED BY <2>1, <2>2 DEF HashesOf
<1>4. /\ Api!Within(txids, {t \in Api!Range(txids) : Api!EndsWith(t, postfix)}) = list
      /\ (CHOOSE q \in Api!from_hex_suffix(Api!whole_byte_suffix(postfix)) : TRUE) = RequestFor(postfix)
      /\ (\/ Api!check_postfix(postfix, Api!total_transactions(info)) # "Ok"
          \/ Api!from_hex_suffix(Api!whole_byte_suffix(postfix)) = {}) <=> ~Fits(postfix, info)
  BY SameRules DEF Matching, RequestFor, Fits
<1>5. ASSUME got # <<>>, Head(got).ok, ~Fits(postfix, info) PROVE Says(a, 400)
  <2>1. a = Api!Refused(u)
    BY <1>4, <1>5 DEF Api!transaction_private, Api!Need, Api!Needed, Api!Asked, Api!InfoCall
  <2> QED BY <2>1 DEF Says, Api!Refused, Api!Answers
<1>6. ASSUME got # <<>>, Head(got).ok, Fits(postfix, info)
      PROVE  a = Api!Need(u, Api!TxidsCall(CHOOSE q \in Api!from_hex_suffix(Api!whole_byte_suffix(postfix)) : TRUE),
                          LAMBDA x, r2 :
              LET matching == Api!Within(x, {t \in Api!Range(x) : Api!EndsWith(t, postfix)})
              IN  IF Len(matching) > MAX_PRIVATE_TX_MATCHES THEN Api!Refused(r2)
                  ELSE Api!Fetched(r2, matching, Api!ApiStatus, LAMBDA txs, r3 :
                    Api!Success([kind |-> "private", txs |-> Shown(txs)], r3)))
  <2>1. ~(\/ Api!check_postfix(postfix, Api!total_transactions(info)) # "Ok"
          \/ Api!from_hex_suffix(Api!whole_byte_suffix(postfix)) = {})
    BY <1>4, <1>6
  <2> QED BY <1>6, <2>1 DEF Api!transaction_private, Api!Need, Api!Needed, Api!Asked, Api!InfoCall
<1>7. ASSUME got # <<>>, Head(got).ok, Fits(postfix, info), u = <<>>
      PROVE  Puts(a, TxidsCall(RequestFor(postfix)))
  <2>1. a = Api!Asks(Api!TxidsCall(CHOOSE q \in Api!from_hex_suffix(Api!whole_byte_suffix(postfix)) : TRUE))
    BY <1>6, <1>7 DEF Api!Need, Api!Needed, Api!Asked
  <2>2. a = Api!Asks(Api!TxidsCall(RequestFor(postfix)))
    BY <1>4, <2>1
  <2> QED BY <2>2 DEF Puts, TxidsCall, Api!TxidsCall, Api!Asks
<1>8. ASSUME got # <<>>, Head(got).ok, Fits(postfix, info), u # <<>>, ~Head(u).ok
      PROVE  Says(a, ApiStatus("txids_loose", Head(u).err))
  BY <1>4, <1>6, <1>8, SameApiStatus DEF Says, Api!TxidsCall, Api!Need, Api!Needed, Api!Asked, Api!Answers
<1>9. ASSUME got # <<>>, Head(got).ok, Fits(postfix, info), u # <<>>, Head(u).ok
      PROVE  a = IF Len(list) > MAX_PRIVATE_TX_MATCHES THEN Api!Refused(v)
                 ELSE Api!Fetched(v, list, Api!ApiStatus, LAMBDA txs, r3 :
                        Api!Success([kind |-> "private", txs |-> Shown(txs)], r3))
  BY <1>4, <1>6, <1>9 DEF Api!Need, Api!Needed, Api!Asked
<1> HIDE DEF list, Shown
<1>12. ASSUME NEW x, NEW r, a = Api!Success([kind |-> "private", txs |-> x], r)
       PROVE  Says(a, 200) /\ a.body.txs = x
  BY <1>12 DEF Says, Api!Success, Api!Answers
<1>10. ASSUME got # <<>>, Head(got).ok, Fits(postfix, info), u # <<>>, Head(u).ok,
              Len(list) > MAX_PRIVATE_TX_MATCHES
       PROVE  Says(a, 400)
  BY <1>9, <1>10 DEF Says, Api!Refused, Api!Answers
<1>11. ASSUME got # <<>>, Head(got).ok, Fits(postfix, info), u # <<>>, Head(u).ok,
              ~(Len(list) > MAX_PRIVATE_TX_MATCHES)
       PROVE  /\ list = <<>> => Says(a, 200) /\ Hashes(a.body.txs) = HashesOf(Kept(<<>>))
              /\ list # <<>> =>
                   /\ v = <<>> => Puts(a, TransactionsCall(list))
                   /\ v # <<>> /\ ~Head(v).ok => Says(a, ApiStatus("transactions", Head(v).err))
                   /\ v # <<>> /\ Head(v).ok =>
                        Says(a, 200) /\ Hashes(a.body.txs) = HashesOf(Kept(Head(v).value))
  <2>0. a = Api!Fetched(v, list, Api!ApiStatus, LAMBDA txs, r3 :
              Api!Success([kind |-> "private", txs |-> Shown(txs)], r3))
    BY <1>9, <1>11
  <2>1. ASSUME list = <<>> PROVE Says(a, 200) /\ Hashes(a.body.txs) = HashesOf(Kept(<<>>))
    <3>1. a = Api!Success([kind |-> "private", txs |-> Shown(<<>>)], v)
      BY <2>0, <2>1 DEF Api!Fetched
    <3>2. Says(a, 200) /\ a.body.txs = Shown(<<>>)
      BY <1>12, <3>1
    <3> QED BY <1>3, <3>2
  <2>2. ASSUME list # <<>>, v = <<>> PROVE Puts(a, TransactionsCall(list))
    BY <2>0, <2>2 DEF Puts, TransactionsCall, Api!TransactionsCall, Api!Fetched, Api!Needed, Api!Asked, Api!Asks
  <2>3. ASSUME list # <<>>, v # <<>>, ~Head(v).ok PROVE Says(a, ApiStatus("transactions", Head(v).err))
    BY <2>0, <2>3, SameApiStatus DEF Says, Api!TransactionsCall, Api!Fetched, Api!Needed, Api!Asked, Api!Answers
  <2>4. ASSUME list # <<>>, v # <<>>, Head(v).ok
        PROVE  Says(a, 200) /\ Hashes(a.body.txs) = HashesOf(Kept(Head(v).value))
    <3>1. a = Api!Success([kind |-> "private", txs |-> Shown(Head(v).value)], Tail(v))
      BY <2>0, <2>4 DEF Api!Fetched, Api!Needed, Api!Asked
    <3>2. Says(a, 200) /\ a.body.txs = Shown(Head(v).value)
      BY <1>12, <3>1
    <3> QED BY <1>3, <3>2
  <2> QED BY <2>1, <2>2, <2>3, <2>4
<1> QED BY <1>1, <1>2, <1>5, <1>7, <1>8, <1>10, <1>11 DEF list

\* What it shows in the end.
LEMMA PrivateShows ==
  ASSUME NEW postfix, NEW got, NEW a, a = Api!transaction_private(postfix, got),
         got # <<>>, Head(got).ok, Fits(postfix, Head(got).value),
         NEW u, u = Tail(got), u # <<>>, Head(u).ok, NEW v, v = Tail(u), v # <<>>, Head(v).ok,
         NEW list, list = Matching(postfix, Head(u).value),
         ~(Len(list) > MAX_PRIVATE_TX_MATCHES), list # <<>>
  PROVE  Says(a, 200) /\ Hashes(a.body.txs) = HashesOf(Kept(Head(v).value))
<1> DEFINE Shown == Says(a, 200) /\ Hashes(a.body.txs) = HashesOf(Kept(Head(v).value))
<1>1. v # <<>> /\ Head(v).ok => Shown
  <2> HIDE DEF Shown
  <2>1. ~(Len(list) > MAX_PRIVATE_TX_MATCHES) => (list # <<>> => (v # <<>> /\ Head(v).ok => Shown))
    BY PrivateSays DEF Shown
  <2> QED BY <2>1
<1> QED BY <1>1

\* The heights at which the calls of a request were answered: none before it was asked,
\* none before the one of the call before it.
Moment(q, at) ==
  /\ at \in [1..Len(q.got) -> q.from..height]
  /\ \A i, j \in 1..Len(q.got) : i <= j => at[i] <= at[j]
  /\ \A i \in 1..Len(q.got) :
       LET call == Before(q.what, q.got, i).call
       IN  call.op # "info" => q.got[i] \in Replies(call, at[i], offers) \cup Failures(call)

Timed(q) == q.from \in Nat /\ q.from <= height /\ \E at : Moment(q, at)

\* The inductive invariant of what the answers show.
TimedIInv == TalkIInv /\ \A r \in Requests : Timed(reqs[r])

\* What was answered stays so, while the chain grows at most.
LEMMA TimedStays ==
  ASSUME NEW q, NEW p, Timed(q), p.what = q.what, p.got = q.got, p.from = q.from,
         height \in Nat, height' \in Nat, height' >= height, UNCHANGED offers
  PROVE  Timed(p)'
<1>1. PICK at : Moment(q, at)
  BY DEF Timed
<1>2. q.from \in Nat /\ q.from <= height
  BY DEF Timed
<1>3. q.from..height \subseteq q.from..height'
  BY <1>2
<1>4. at \in [1..Len(p.got) -> p.from..height']
  BY <1>1, <1>3 DEF Moment
<1>5. \A i, j \in 1..Len(p.got) : i <= j => at[i] <= at[j]
  BY <1>1 DEF Moment
<1>6. Moment(p, at)'
  BY <1>1, <1>4, <1>5 DEF Moment
<1> QED BY <1>2, <1>6 DEF Timed

\* A reply that comes now is answered now.
LEMMA TimedGrows ==
  ASSUME NEW q, Record(q), Timed(q), height \in Nat, NEW reply,
         Routed(q.what, q.got).call.op # "info" =>
           reply \in Replies(Routed(q.what, q.got).call, height, offers)
                     \cup Failures(Routed(q.what, q.got).call)
  PROVE  Timed(With(q, Append(q.got, reply), {}))
<1>1. PICK S : q.got \in Seq(S)
  BY DEF Record
<1>2. PICK old : Moment(q, old)
  BY DEF Timed
<1> DEFINE longer == Append(q.got, reply)
           p == With(q, longer, {})
           n == Len(q.got)
           at == [i \in 1..(n + 1) |-> IF i <= n THEN old[i] ELSE height]
<1>3. p.what = q.what /\ p.got = longer /\ p.from = q.from
  BY DEF With
<1>4. /\ Len(longer) = n + 1 /\ n \in Nat /\ longer[n + 1] = reply
      /\ \A i \in 1..n : longer[i] = q.got[i]
      /\ \A i \in 1..(n + 1) : SubSeq(longer, 1, i - 1) = SubSeq(q.got, 1, i - 1)
      /\ SubSeq(longer, 1, n) = q.got
  BY <1>1, LongerKeeps
<1>5. q.from \in Nat /\ q.from <= height
  BY DEF Timed
<1>6. /\ old \in [1..n -> q.from..height]
      /\ \A i, j \in 1..n : i <= j => old[i] <= old[j]
      /\ \A i \in 1..n :
           LET call == Before(q.what, q.got, i).call
           IN  call.op # "info" => q.got[i] \in Replies(call, old[i], offers) \cup Failures(call)
  BY <1>2 DEF Moment
<1> HIDE DEF longer, p, n
<1>7. /\ at \in [1..(n + 1) -> q.from..height]
      /\ \A i \in 1..n : at[i] = old[i] /\ at[i] <= height
      /\ at[n + 1] = height
  BY <1>4, <1>5, <1>6
<1> HIDE DEF at
<1>8. \A i \in 1..(n + 1) : i \in 1..n \/ i = n + 1
  BY <1>4
<1>9. \A i, j \in 1..(n + 1) : i <= j => at[i] <= at[j]
  <2> SUFFICES ASSUME NEW i \in 1..(n + 1), NEW j \in 1..(n + 1), i <= j PROVE at[i] <= at[j]
    OBVIOUS
  <2>1. CASE j = n + 1
    BY <1>5, <1>7, <1>8, <2>1
  <2>2. CASE j \in 1..n
    <3>1. i \in 1..n
      BY <1>4, <2>2
    <3> QED BY <1>6, <1>7, <2>2, <3>1
  <2> QED BY <1>8, <2>1, <2>2
<1>10. ASSUME NEW i \in 1..(n + 1), NEW call, call = Before(p.what, p.got, i).call, call.op # "info"
       PROVE  p.got[i] \in Replies(call, at[i], offers) \cup Failures(call)
  <2>1. call = Routed(q.what, SubSeq(q.got, 1, i - 1)).call
    BY <1>3, <1>4, <1>10 DEF Before
  <2>2. CASE i \in 1..n
    <3>1. call = Before(q.what, q.got, i).call
      BY <2>1 DEF Before
    <3> QED BY <1>3, <1>4, <1>6, <1>7, <1>10, <2>2, <3>1
  <2>3. CASE i = n + 1
    <3>1. (n + 1) - 1 = n
      BY <1>4
    <3>2. SubSeq(q.got, 1, i - 1) = q.got
      BY <1>4, <2>3, <3>1
    <3>3. call = Routed(q.what, q.got).call
      BY <2>1, <3>2
    <3> QED BY <1>3, <1>4, <1>7, <1>10, <2>3, <3>3
  <2> QED BY <1>8, <2>2, <2>3
<1>11. Moment(p, at)
  BY <1>3, <1>4, <1>7, <1>9, <1>10 DEF Moment
<1>12. Timed(p)
  BY <1>3, <1>5, <1>11 DEF Timed
<1> QED BY <1>12 DEF p, longer

\* A request of which nothing was asked yet.
LEMMA TimedBegins ==
  ASSUME NEW q, q.got = <<>>, q.from \in Nat, height \in Nat, q.from <= height
  PROVE  Timed(q)
<1> DEFINE at == [i \in 1..0 |-> height]
<1>1. Len(q.got) = 0
  OBVIOUS
<1>2. at \in [1..0 -> q.from..height]
  OBVIOUS
<1>3. Moment(q, at)
  BY <1>1, <1>2 DEF Moment
<1> QED BY <1>3 DEF Timed

\* Init establishes it: nothing was asked for.
LEMMA TimedInit == Init => TimedIInv
<1> SUFFICES ASSUME Init PROVE TimedIInv
  OBVIOUS
<1>1. height = StartHeight /\ StartHeight \in Nat
  BY ExplorerAssumption DEF Init
<1>2. NoRequest.got = <<>> /\ NoRequest.from = StartHeight
  BY DEF NoRequest
<1>3. Timed(NoRequest)
  BY <1>1, <1>2, TimedBegins
<1> QED BY <1>3, TalkInit DEF Init, TimedIInv

\* A step of one request.
LEMMA OneTimed ==
  ASSUME TimedIInv, TalkIInv', UNCHANGED <<height, seen, offers>>,
         NEW r \in Requests, NEW p, reqs' = [reqs EXCEPT ![r] = p], Timed(p)
  PROVE  TimedIInv'
<1>1. \A s \in Requests : reqs'[s] = IF s = r THEN p ELSE reqs[s]
  BY DEF TimedIInv, TalkIInv, TipIInv
<1>2. \A s \in Requests : Timed(reqs'[s])
  BY <1>1 DEF TimedIInv
<1>3. height \in Nat
  BY DEF TimedIInv, TalkIInv, TipIInv, Remembered
<1>4. ASSUME NEW s \in Requests, NEW n, n = reqs'[s] PROVE Timed(n)'
  <2>1. Timed(n)
    BY <1>2, <1>4
  <2> QED BY <1>3, <2>1, TimedStays
<1>5. (\A s \in Requests : Timed(reqs[s]))'
  BY <1>4
<1> QED BY <1>5 DEF TimedIInv

\* Every step keeps it.
LEMMA TimedNext == TimedIInv /\ [Next]_vars => TimedIInv'
<1> SUFFICES ASSUME TimedIInv, [Next]_vars PROVE TimedIInv'
  OBVIOUS
<1>1. TalkIInv' /\ TalkIInv
  BY TalkNext DEF TimedIInv
<1>2. /\ height \in Nat /\ height' \in Nat /\ height >= StartHeight
      /\ reqs = [r \in Requests |-> reqs[r]]
      /\ \A r \in Requests : Record(reqs[r]) /\ Timed(reqs[r])
      /\ \A r \in Requests : Talked(reqs[r])
  BY <1>1 DEF TimedIInv, TalkIInv, TipIInv, Remembered
<1>3. ASSUME NEW r \in Requests, NEW reply, reqs' = Replied(r, reply), UNCHANGED <<height, seen, offers>>,
             Outcome(r).call.op # "info" =>
               reply \in Replies(Outcome(r).call, height, offers) \cup Failures(Outcome(r).call)
      PROVE  TimedIInv'
  <2> DEFINE p == With(reqs[r], Append(reqs[r].got, reply), {})
  <2>1. reqs' = [reqs EXCEPT ![r] = p]
    BY <1>2, <1>3 DEF Replied
  <2>2. Timed(p)
    BY <1>2, <1>3, TimedGrows DEF Outcome
  <2> HIDE DEF p
  <2> QED BY <1>1, <1>3, <2>1, <2>2, OneTimed
<1>4. ASSUME NEW r \in Requests, NEW pending, reqs' = [reqs EXCEPT ![r] = With(reqs[r], reqs[r].got, pending)],
             UNCHANGED <<height, seen, offers>>
      PROVE  TimedIInv'
  <2> DEFINE p == With(reqs[r], reqs[r].got, pending)
  <2>1. p.what = reqs[r].what /\ p.got = reqs[r].got /\ p.from = reqs[r].from
    BY DEF With
  <2>2. Timed(reqs[r])
    BY <1>2
  <2> HIDE DEF p
  <2>3. Timed(p)
    BY <2>1, <2>2 DEF Timed, Moment
  <2>4. reqs' = [reqs EXCEPT ![r] = p]
    BY <1>4 DEF p
  <2> QED BY <1>1, <1>4, <2>3, <2>4, OneTimed
<1>5. ASSUME NEW r \in Requests, Begin(r) PROVE TimedIInv'
  <2>1. PICK what \in Routes[r] : reqs' = [reqs EXCEPT ![r] = NewRequest(what)]
    BY <1>5 DEF Begin
  <2> DEFINE q == NewRequest(what)
  <2>2. q.got = <<>> /\ q.from = height
    BY DEF NewRequest
  <2> HIDE DEF q
  <2>3. Timed(q)
    BY <1>2, <2>2, TimedBegins
  <2>4. reqs' = [reqs EXCEPT ![r] = q]
    BY <2>1 DEF q
  <2> QED BY <1>1, <1>5, <2>3, <2>4, OneTimed DEF Begin
<1>6. ASSUME NEW r \in Requests, Finish(r) PROVE TimedIInv'
  <2>1. NoRequest.got = <<>> /\ NoRequest.from = StartHeight
    BY DEF NoRequest
  <2>2. Timed(NoRequest)
    BY <1>2, <2>1, ExplorerAssumption, TimedBegins
  <2> QED BY <1>1, <1>6, <2>2, OneTimed DEF Finish
<1>7. ASSUME NEW r \in Requests, Call(r) PROVE TimedIInv'
  BY <1>3, <1>7 DEF Call
<1>8. ASSUME NEW r \in Requests, TipHit(r) PROVE TimedIInv'
  BY <1>3, <1>8 DEF TipHit, Asking
<1>9. ASSUME NEW r \in Requests, TipMiss(r) PROVE TimedIInv'
  <2>1. reqs' = [reqs EXCEPT ![r] = With(reqs[r], reqs[r].got, {[age |-> 0, read |-> {}]})]
    BY <1>2, <1>9 DEF TipMiss
  <2> QED BY <1>4, <1>9, <2>1 DEF TipMiss
<1>10. ASSUME NEW r \in Requests, TipRead(r) PROVE TimedIInv'
  <2>1. PICK p \in reqs[r].pending :
          reqs' = [reqs EXCEPT ![r] = With(@, @.got, {[p EXCEPT !.read = {height}]})]
    BY <1>10 DEF TipRead
  <2>2. reqs' = [reqs EXCEPT ![r] = With(reqs[r], reqs[r].got, {[p EXCEPT !.read = {height}]})]
    BY <1>2, <2>1
  <2> QED BY <1>4, <1>10, <2>2 DEF TipRead
<1>11. ASSUME NEW r \in Requests, reqs[r].pending # {} PROVE Outcome(r).call.op = "info"
  BY <1>2, <1>11 DEF Talked, Outcome
<1>12. ASSUME NEW r \in Requests, TipReceived(r) PROVE TimedIInv'
  BY <1>3, <1>11, <1>12 DEF TipReceived
<1>13. ASSUME NEW r \in Requests, TipFailed(r) PROVE TimedIInv'
  BY <1>3, <1>11, <1>13 DEF TipFailed
<1>14. ASSUME height' >= height, UNCHANGED offers,
              \A r \in Requests : /\ reqs'[r].what = reqs[r].what /\ reqs'[r].got = reqs[r].got
                                  /\ reqs'[r].from = reqs[r].from
       PROVE  TimedIInv'
  <2>1. ASSUME NEW r \in Requests, NEW n, n = reqs'[r] PROVE Timed(n)'
    <3>1. n.what = reqs[r].what /\ n.got = reqs[r].got /\ n.from = reqs[r].from
      BY <1>14, <2>1
    <3> DEFINE q == reqs[r]
    <3>2. Timed(q) /\ n.what = q.what /\ n.got = q.got /\ n.from = q.from
      BY <1>2, <3>1
    <3> HIDE DEF q
    <3> QED BY <1>2, <1>14, <3>2, TimedStays
  <2>2. (\A r \in Requests : Timed(reqs[r]))'
    BY <2>1
  <2> QED BY <1>1, <2>2 DEF TimedIInv
<1>15. ASSUME Mine PROVE TimedIInv'
  BY <1>2, <1>14, <1>15 DEF Mine
<1>16. ASSUME Tick PROVE TimedIInv'
  BY <1>2, <1>14, <1>16 DEF Tick, With
<1>17. ASSUME UNCHANGED vars PROVE TimedIInv'
  BY <1>2, <1>14, <1>17 DEF vars
<1> QED BY <1>5, <1>6, <1>7, <1>8, <1>9, <1>10, <1>12, <1>13, <1>15, <1>16, <1>17 DEF Next

\* The hashes the daemon finds, each once.
LEMMA TxidsAre ==
  ASSUME NEW w \in Nat, w <= Len(Ledger), NEW request,
         NEW reply \in Replies(TxidsCall(request), w, offers) \cup Failures(TxidsCall(request)), reply.ok
  PROVE  /\ reply.value \in Seq(TxHash) /\ Unrepeated(reply.value)
         /\ Range(reply.value) = {t \in Mined(w) : Matches(t, request)}
<1> DEFINE found == {t \in Mined(w) : Matches(t, request)}
<1>1. /\ \A f : ~Err(f).ok
      /\ \A v : Ok(v).value = v
  BY DEF Ok, Err
<1>2. TxidsCall(request).op = "txids_loose" /\ TxidsCall(request).request = request
  BY DEF TxidsCall
<1>3. PICK list \in Bijection(1..Cardinality(found), found) : reply = Ok(list)
  BY <1>1, <1>2 DEF Replies, Failures
<1>4. Mined(w) \subseteq TxHash /\ IsFiniteSet(Mined(w))
  BY TransactionsCounted
<1>5. IsFiniteSet(found) /\ found \subseteq TxHash
  BY <1>4, FS_Subset
<1> DEFINE n == Cardinality(found)
<1>6. n \in Nat
  BY <1>5, FS_CardinalityType
<1> HIDE DEF found
<1>11. list \in Bijection(1..n, found)
  BY <1>3
<1> HIDE DEF n
<1> DEFINE D == 1..n
<1>7. /\ list \in [D -> found]
      /\ \A i, j \in D : list[i] = list[j] => i = j
      /\ \A t \in found : \E i \in D : list[i] = t
  <2>1. list \in Bijection(D, found)
    BY <1>11
  <2> HIDE DEF D
  <2> QED BY <2>1, Fun_BijectionProperties
<1>8. list \in Seq(TxHash) /\ DOMAIN list = 1..n
  BY <1>5, <1>6, <1>7
<1>9. Unrepeated(list)
  BY <1>7, <1>8 DEF Unrepeated
<1>10. Range(list) \subseteq found /\ found \subseteq Range(list)
  BY <1>7, <1>8 DEF Range
<1> QED BY <1>1, <1>3, <1>8, <1>9, <1>10 DEF found

\* What is kept of them is what ends in the postfix, though only its last whole bytes
\* were searched for.
LEMMA MatchingIs ==
  ASSUME NEW w \in Nat, w <= Len(Ledger), NEW C, NEW postfix \in Seq(C),
         from_hex_suffix(whole_byte_suffix(postfix)) # {},
         NEW txids \in Seq(TxHash), Unrepeated(txids),
         Range(txids) = {t \in Mined(w) : Matches(t, RequestFor(postfix))}
  PROVE  /\ Matching(postfix, txids) \in Seq(TxHash) /\ Unrepeated(Matching(postfix, txids))
         /\ Range(Matching(postfix, txids)) = Ending(postfix, w)
         /\ Cardinality(Ending(postfix, w)) = Len(Matching(postfix, txids))
<1> DEFINE T == {t \in Range(txids) : EndsWith(t, postfix)}
<1>1. Within(txids, T) \in Seq(TxHash) /\ Unrepeated(Within(txids, T))
  BY SiftKeeps
<1>2. Range(Within(txids, T)) = Range(txids) \cap T
  BY SiftRange
<1>3. RequestFor(postfix) \in from_hex_suffix(whole_byte_suffix(postfix))
  BY DEF RequestFor
<1>4. ASSUME NEW t \in Mined(w), EndsWith(t, postfix) PROVE Matches(t, RequestFor(postfix))
  <2>1. t \in [1..HashLen -> HexChars] /\ HashLen \in Nat
    BY TransactionsCounted, HashTextAssumption DEF TxHash
  <2>2. t \in Seq(HexChars) /\ Len(t) = HashLen
    BY <2>1
  <2> QED BY <1>3, <1>4, <2>2, SuffixMatches
<1>5. Range(txids) \cap T = Ending(postfix, w)
  BY <1>4 DEF Ending
<1> HIDE DEF T
<1>6. Range(Within(txids, T)) = Ending(postfix, w)
  BY <1>2, <1>5
<1>7. Cardinality(Range(Within(txids, T))) = Len(Within(txids, T))
  BY <1>1, ListCounts
<1> QED BY <1>1, <1>6, <1>7 DEF Matching, T

\* What the daemon sends of transactions that are mined.
LEMMA FetchedAre ==
  ASSUME NEW w \in Nat, NEW h \in Nat, w <= h, NEW hashes \in Seq(TxHash), Range(hashes) \subseteq Mined(w),
         NEW reply \in Replies(TransactionsCall(hashes), h, offers) \cup Failures(TransactionsCall(hashes)),
         reply.ok
  PROVE  /\ \E S : reply.value \in Seq(S)
         /\ DOMAIN reply.value = DOMAIN hashes
         /\ \A i \in DOMAIN hashes : /\ reply.value[i].tx_hash = hashes[i]
                                     /\ reply.value[i].decodes <=> hashes[i] \notin Undecodable
<1>1. /\ \A f : ~Err(f).ok
      /\ \A v : Ok(v).value = v
  BY DEF Ok, Err
<1>2. TransactionsCall(hashes).op = "transactions" /\ TransactionsCall(hashes).hashes = hashes
  BY DEF TransactionsCall
<1>3. PICK at : reply = Ok(EntriesAsOf(hashes, h, at))
  <2>1. reply \in Replies(TransactionsCall(hashes), h, offers)
    BY <1>1 DEF Failures
  <2>2. reply \in TransactionsReplies(hashes, h)
    BY <1>2, <2>1 DEF Replies
  <2> QED BY <2>2 DEF TransactionsReplies
<1>4. Within(hashes, {t \in Range(hashes) : Known(t, h)}) = hashes
  <2>1. ASSUME NEW i \in 1..Len(hashes) PROVE hashes[i] \in {t \in Range(hashes) : Known(t, h)}
    <3>1. hashes[i] \in Range(hashes)
      BY DEF Range
    <3>2. IsMined(hashes[i], w)
      BY <3>1, MinedIs
    <3>3. IsMined(hashes[i], h)
      BY <3>2, ChainGrows
    <3> QED BY <3>1, <3>3 DEF Known
  <2> QED BY <2>1, SiftAll
<1>5. Entries(hashes, h) = [i \in DOMAIN hashes |-> Entry(hashes[i], h)]
  BY <1>4 DEF Entries
<1>6. \A t, y : Entry(t, y).tx_hash = t /\ (Entry(t, y).decodes <=> t \notin Undecodable)
  BY DEF Entry
<1>7. reply.value = [i \in DOMAIN hashes |-> AsOf(Entry(hashes[i], h), at[hashes[i]])]
  BY <1>1, <1>3, <1>5, <1>6 DEF EntriesAsOf
<1>8. \A i \in DOMAIN hashes : /\ reply.value[i].tx_hash = hashes[i]
                               /\ reply.value[i].decodes <=> hashes[i] \notin Undecodable
  BY <1>6, <1>7 DEF AsOf
<1>9. DOMAIN hashes = 1..Len(hashes) /\ Len(hashes) \in Nat
  OBVIOUS
<1>10. reply.value \in Seq({AsOf(Entry(hashes[i], h), at[hashes[i]]) : i \in DOMAIN hashes})
  BY <1>7, <1>9
<1> QED BY <1>7, <1>8, <1>10

\* What is shown of them: those that can be read, each once.
LEMMA KeptAre ==
  ASSUME NEW hashes \in Seq(TxHash), Unrepeated(hashes), NEW S, NEW list \in Seq(S),
         DOMAIN list = DOMAIN hashes,
         \A i \in DOMAIN hashes : list[i].tx_hash = hashes[i] /\ (list[i].decodes <=> hashes[i] \notin Undecodable)
  PROVE  IsInjective(HashesOf(Kept(list))) /\ Range(HashesOf(Kept(list))) = Readable(Range(hashes))
<1> DEFINE T == {e \in Range(list) : e.decodes}
           k == Within(list, T)
<1>1. k \in Seq(S)
  BY SiftPicks
<1>2. PICK p : Picks(k, p, list, T, Len(list))
  BY SiftPicks
<1>3. Kept(list) = k
  BY DEF Kept
<1>4. \A i \in DOMAIN list : list[i] \in T <=> hashes[i] \notin Undecodable
  BY DEF Range
<1> HIDE DEF k, T
<1>5. DOMAIN k = 1..Len(k) /\ DOMAIN hashes = 1..Len(list)
  BY <1>1
<1>6. \A i \in DOMAIN k : /\ p[i] \in DOMAIN hashes /\ k[i] = list[p[i]] /\ list[p[i]] \in T
  BY <1>2, <1>5 DEF Picks
<1>7. \A i \in DOMAIN k : k[i].tx_hash = hashes[p[i]] /\ hashes[p[i]] \notin Undecodable
  BY <1>4, <1>6
<1>8. \A i, j \in DOMAIN k : p[i] = p[j] => i = j
  <2>1. \A i, j \in 1..Len(k) : i < j => p[i] < p[j]
    BY <1>2 DEF Picks
  <2>2. \A i \in 1..Len(k) : p[i] \in Nat
    BY <1>2 DEF Picks
  <2> QED BY <1>5, <2>1, <2>2
<1>9. \A i \in DOMAIN hashes : hashes[i] \notin Undecodable => \E j \in DOMAIN k : p[j] = i
  BY <1>2, <1>4, <1>5 DEF Picks
<1> DEFINE named == HashesOf(k)
<1>10. DOMAIN named = DOMAIN k /\ \A i \in DOMAIN k : named[i] = hashes[p[i]]
  BY <1>7 DEF HashesOf
<1> HIDE DEF named
<1>11. ASSUME NEW i \in DOMAIN k, NEW j \in DOMAIN k, named[i] = named[j] PROVE i = j
  <2>1. p[i] \in DOMAIN hashes /\ p[j] \in DOMAIN hashes /\ hashes[p[i]] = hashes[p[j]]
    BY <1>6, <1>10, <1>11
  <2> QED BY <1>8, <2>1 DEF Unrepeated
<1>12. IsInjective(named)
  BY <1>10, <1>11 DEF IsInjective
<1>13. ASSUME NEW t \in Range(named) PROVE t \in Readable(Range(hashes))
  BY <1>6, <1>7, <1>10 DEF Range, Readable
<1>14. ASSUME NEW t \in Readable(Range(hashes)) PROVE t \in Range(named)
  <2>1. PICK i \in DOMAIN hashes : t = hashes[i] /\ hashes[i] \notin Undecodable
    BY DEF Range, Readable
  <2>2. PICK j \in DOMAIN k : p[j] = i
    BY <1>9, <2>1
  <2> QED BY <1>10, <2>1, <2>2 DEF Range
<1> QED BY <1>3, <1>12, <1>13, <1>14 DEF named

\* The postfixes that pass the rules are those that are served.
LEMMA FitsIs ==
  ASSUME NEW C, NEW postfix \in Seq(C), NEW h \in Nat, h <= Len(Ledger)
  PROVE  Fits(postfix, Info(h)) <=>
           /\ Len(postfix) \in Limits.postfix_min..Limits.postfix_max
           /\ Len(postfix) > 1 /\ IsHexText(postfix)
           /\ ~(\/ Share(Len(postfix), h) < MIN_ANONYMITY_SET
                \/ Share(Len(postfix), h) > MAX_PRIVATE_TX_MATCHES)
<1> DEFINE n == Len(postfix)
           k == n - (n % 2)
           s == whole_byte_suffix(postfix)
<1>1. Expected(total_transactions(Info(h)), n) = Share(n, h)
  BY TransactionsCounted DEF Expected, Share
<1>2. InBand(Share(n, h)) = "Ok" <=> ~(Share(n, h) < MIN_ANONYMITY_SET \/ Share(n, h) > MAX_PRIVATE_TX_MATCHES)
  BY DEF InBand
<1>3. check_postfix(postfix, total_transactions(Info(h))) = "Ok" <=>
        /\ n \in Limits.postfix_min..Limits.postfix_max /\ IsHexText(postfix)
        /\ ~(Share(n, h) < MIN_ANONYMITY_SET \/ Share(n, h) > MAX_PRIVATE_TX_MATCHES)
  BY <1>1, <1>2 DEF check_postfix
<1>4. ASSUME n \in Limits.postfix_min..Limits.postfix_max, IsHexText(postfix)
      PROVE  from_hex_suffix(s) # {} <=> n > 1
  <2>1. n \in 1..HashLen /\ k \in 0..n /\ k % 2 = 0 /\ (k = 0 <=> n <= 1) /\ HashLen \in Nat
    BY <1>4, LimitsAssumption, HashTextAssumption
  <2>2. s = SubSeq(postfix, n - k + 1, n)
    BY DEF whole_byte_suffix, LastChars
  <2> HIDE DEF k, s
  <2>3. s \in Seq(C) /\ Len(s) = k /\ \A i \in 1..k : s[i] = postfix[n - k + i]
    BY <2>1, <2>2
  <2>4. \A i \in 1..k : n - k + i \in 1..n
    BY <2>1
  <2>5. IsHexText(s)
    <3>1. DOMAIN s = 1..k /\ DOMAIN postfix = 1..n
      BY <2>3
    <3> QED BY <1>4, <2>3, <2>4, <3>1 DEF IsHexText
  <2>6. s = <<>> <=> k = 0
    BY <2>3
  <2>7. from_hex_suffix(s) # {} <=> s # <<>>
    <3>1. Len(s) % 2 = 0 /\ Len(s) <= HashLen
      BY <2>1, <2>3
    <3> QED BY <2>5, <3>1 DEF from_hex_suffix
  <2> QED BY <2>1, <2>6, <2>7
<1> HIDE DEF n, s
<1> QED BY <1>3, <1>4 DEF Fits, n, s

\* The replies of a conversation, one by one.
LEMMA OneByOne ==
  ASSUME NEW S, NEW got \in Seq(S), NEW what
  PROVE  /\ Len(got) > 1 <=> got # <<>> /\ Tail(got) # <<>>
         /\ got # <<>> => /\ 1 \in 1..Len(got) /\ got[1] = Head(got)
                          /\ Before(what, got, 1) = Routed(what, <<>>)
         /\ got # <<>> /\ Tail(got) # <<>> =>
              /\ 2 \in 1..Len(got) /\ got[2] = Head(Tail(got))
              /\ Before(what, got, 2) = Routed(what, <<Head(got)>>)
         /\ got # <<>> /\ Tail(got) # <<>> /\ Tail(Tail(got)) # <<>> =>
              /\ 3 \in 1..Len(got) /\ got[3] = Head(Tail(Tail(got)))
              /\ Before(what, got, 3) = Routed(what, <<Head(got), Head(Tail(got))>>)
<1>1. ASSUME NEW s \in Seq(S), s # <<>>
      PROVE  /\ Len(s) \in Nat /\ Len(s) >= 1 /\ Head(s) = s[1]
             /\ Tail(s) \in Seq(S) /\ Len(Tail(s)) = Len(s) - 1
             /\ \A i \in 1..(Len(s) - 1) : Tail(s)[i] = s[i + 1]
  BY <1>1
<1>2. \A s \in Seq(S) : Len(s) = 0 <=> s = <<>>
  OBVIOUS
<1>3. SubSeq(got, 1, 1 - 1) = <<>>
  <2>1. SubSeq(got, 1, 0) \in Seq(S) /\ Len(SubSeq(got, 1, 0)) = 0
    OBVIOUS
  <2> QED BY <2>1
<1>4. ASSUME got # <<>> PROVE 1 \in 1..Len(got) /\ got[1] = Head(got) /\ Before(what, got, 1) = Routed(what, <<>>)
  <2>1. Before(what, got, 1) = Routed(what, <<>>)
    BY <1>3 DEF Before
  <2> QED BY <1>1, <1>4, <2>1
<1>5. Len(got) > 1 <=> got # <<>> /\ Tail(got) # <<>>
  <2>1. CASE got = <<>>
    BY <2>1
  <2>2. CASE got # <<>>
    <3>1. Tail(got) \in Seq(S) /\ Len(Tail(got)) = Len(got) - 1 /\ Len(got) \in Nat
      BY <1>1, <2>2
    <3>2. Tail(got) = <<>> <=> Len(Tail(got)) = 0
      BY <1>2, <3>1
    <3> QED BY <2>2, <3>1, <3>2
  <2> QED BY <2>1, <2>2
<1>6. ASSUME got # <<>>, Tail(got) # <<>>
      PROVE  /\ 2 \in 1..Len(got) /\ got[2] = Head(Tail(got))
             /\ Before(what, got, 2) = Routed(what, <<Head(got)>>)
  <2> DEFINE u == Tail(got)
  <2>1. u \in Seq(S) /\ u # <<>> /\ Len(u) = Len(got) - 1 /\ Len(u) >= 1 /\ Head(u) = u[1] /\ u[1] = got[2]
        /\ Len(got) \in Nat /\ Len(got) >= 2 /\ got[1] = Head(got)
    <3> HIDE DEF u
    <3>1. u \in Seq(S) /\ u # <<>> /\ Len(u) = Len(got) - 1 /\ Len(got) \in Nat /\ Head(got) = got[1]
          /\ \A i \in 1..(Len(got) - 1) : u[i] = got[i + 1]
      BY <1>1, <1>6 DEF u
    <3>2. Len(u) >= 1 /\ Head(u) = u[1]
      BY <1>1, <3>1
    <3> QED BY <3>1, <3>2
  <2>2. SubSeq(got, 1, 1) = <<Head(got)>>
    <3>1. got[1] \in S
      BY <2>1
    <3>2. <<got[1]>> \in Seq(S) /\ Len(<<got[1]>>) = 1 /\ <<got[1]>>[1] = got[1]
      BY <3>1
    <3>3. SubSeq(got, 1, 1) \in Seq(S) /\ Len(SubSeq(got, 1, 1)) = 1 /\ SubSeq(got, 1, 1)[1] = got[1]
      BY <2>1
    <3>4. \A i \in 1..1 : SubSeq(got, 1, 1)[i] = <<got[1]>>[i]
      BY <3>2, <3>3
    <3>5. SubSeq(got, 1, 1) = <<got[1]>>
      BY <3>2, <3>3, <3>4, SeqEqual
    <3> QED BY <2>1, <3>5
  <2>3. SubSeq(got, 1, 2 - 1) = <<Head(got)>>
    <3>1. 2 - 1 = 1
      OBVIOUS
    <3> QED BY <2>2, <3>1
  <2>4. Before(what, got, 2) = Routed(what, <<Head(got)>>)
    BY <2>3 DEF Before
  <2> QED BY <2>1, <2>4
<1>7. ASSUME got # <<>>, Tail(got) # <<>>, Tail(Tail(got)) # <<>>
      PROVE  /\ 3 \in 1..Len(got) /\ got[3] = Head(Tail(Tail(got)))
             /\ Before(what, got, 3) = Routed(what, <<Head(got), Head(Tail(got))>>)
  <2> DEFINE u == Tail(got)
             v == Tail(u)
  <2>1. /\ u \in Seq(S) /\ u # <<>> /\ Len(u) = Len(got) - 1 /\ Len(got) \in Nat /\ Head(got) = got[1]
        /\ \A i \in 1..(Len(got) - 1) : u[i] = got[i + 1]
    BY <1>1, <1>7
  <2>2. v # <<>>
    BY <1>7
  <2> HIDE DEF u
  <2>3. /\ v \in Seq(S) /\ Len(v) = Len(u) - 1 /\ Head(u) = u[1]
        /\ \A i \in 1..(Len(u) - 1) : v[i] = u[i + 1]
    BY <1>1, <2>1
  <2> HIDE DEF v
  <2>4. Len(v) \in Nat /\ Len(v) >= 1 /\ Head(v) = v[1]
    BY <1>1, <2>2, <2>3
  <2>5. Len(got) >= 3 /\ v[1] = got[3] /\ u[1] = got[2]
    BY <2>1, <2>3, <2>4
  <2>6. SubSeq(got, 1, 2) = <<got[1], got[2]>>
    <3>1. got[1] \in S /\ got[2] \in S
      BY <2>1, <2>5
    <3>2. <<got[1], got[2]>> \in Seq(S) /\ Len(<<got[1], got[2]>>) = 2
          /\ <<got[1], got[2]>>[1] = got[1] /\ <<got[1], got[2]>>[2] = got[2]
      BY <3>1
    <3>3. SubSeq(got, 1, 2) \in Seq(S) /\ Len(SubSeq(got, 1, 2)) = 2
          /\ SubSeq(got, 1, 2)[1] = got[1] /\ SubSeq(got, 1, 2)[2] = got[2]
      BY <2>1, <2>5
    <3>4. \A i \in 1..2 : SubSeq(got, 1, 2)[i] = <<got[1], got[2]>>[i]
      <4>1. \A i \in 1..2 : i = 1 \/ i = 2
        OBVIOUS
      <4> QED BY <3>2, <3>3, <4>1
    <3> QED BY <3>2, <3>3, <3>4, SeqEqual
  <2>7. SubSeq(got, 1, 3 - 1) = <<Head(got), Head(u)>>
    <3>1. 3 - 1 = 2
      OBVIOUS
    <3> QED BY <2>1, <2>3, <2>5, <2>6, <3>1
  <2>8. Before(what, got, 3) = Routed(what, <<Head(got), Head(u)>>)
    BY <2>7 DEF Before
  <2>9. 3 \in 1..Len(got) /\ got[3] = Head(v)
    BY <2>1, <2>4, <2>5
  <2> QED BY <2>8, <2>9 DEF u, v
<1> QED BY <1>4, <1>5, <1>6, <1>7

\* The property of one request and what became of it.
Served(postfix, h) ==
  LET share == Share(Len(postfix), h)
  IN  /\ Len(postfix) \in Limits.postfix_min..Limits.postfix_max
      /\ Len(postfix) > 1 /\ IsHexText(postfix)
      /\ ~(share < MIN_ANONYMITY_SET \/ share > MAX_PRIVATE_TX_MATCHES)

SetServed(postfix, got, from, a) ==
  /\ a.status = 200 =>
       /\ IsInjective(Hashes(a.body.txs))
       /\ \E w \in from..height : /\ Range(Hashes(a.body.txs)) = Readable(Ending(postfix, w))
                                   /\ Cardinality(Ending(postfix, w)) <= MAX_PRIVATE_TX_MATCHES
  /\ Len(got) > 1 => Served(postfix, got[1].value.height)
  /\ a.status = 400 =>
       \/ ~Served(postfix, got[1].value.height)
       \/ \E w \in from..height : Cardinality(Ending(postfix, w)) > MAX_PRIVATE_TX_MATCHES

\* What the lookup comes to is what it should.
LEMMA PrivateServes ==
  ASSUME NEW q, Record(q), Talked(q), Timed(q), q # NoRequest,
         height \in Nat, height <= Len(Ledger), q.oldest \in Nat, q.oldest <= height,
         q.what.route = "/api/transaction/private",
         NEW a, a = Routed(q.what, q.got), a.done,
         NEW postfix, postfix = q.what.arg, NEW got, got = q.got
  PROVE  SetServed(postfix, got, q.from, a)
<1> DEFINE u == Tail(got)
           v == Tail(u)
           info == Head(got).value
           list == Matching(postfix, Head(u).value)
           request == RequestFor(postfix)
           during == q.from..height
           Serves == Served(postfix, got[1].value.height)
<1>1. IsText(postfix)
  <2>1. IsRequest(q.what)
    BY DEF Talked
  <2> QED BY <2>1 DEF IsRequest
<1>2. postfix \in Seq(Range(postfix))
  BY <1>1 DEF IsText
<1>3. PICK S : got \in Seq(S)
  BY DEF Record
<1>4. Conversed(q.what, got, q.oldest)
  BY DEF Conversed, Record, Talked
<1>5. \A g : Routed(q.what, g) = Api!transaction_private(postfix, g)
  BY RoutedTo
<1>6. got # <<>>
  <2>1. got = <<>> => ~a.done
    BY <1>5, PrivateSays DEF Puts
  <2> QED BY <2>1
<1>7. got[1] = Head(got) /\ (Len(got) > 1 <=> u # <<>>)
  BY <1>3, <1>6, OneByOne
<1>8. u # <<>> => /\ 2 \in 1..Len(got) /\ got[2] = Head(u)
                  /\ Before(q.what, got, 2) = Routed(q.what, <<Head(got)>>)
  BY <1>3, <1>6, OneByOne
<1>9. u # <<>> /\ v # <<>> => /\ 3 \in 1..Len(got) /\ got[3] = Head(v)
                              /\ Before(q.what, got, 3) = Routed(q.what, <<Head(got), Head(u)>>)
  BY <1>3, <1>6, OneByOne
<1>10. PICK at : Moment(q, at)
  BY DEF Timed
<1>11. q.from \in Nat /\ at \in [1..Len(got) -> during] /\ Len(got) \in Nat
  BY <1>3, <1>10 DEF Moment, Timed
<1>12. \A op, f : ApiStatus(op, f) # 200 /\ ApiStatus(op, f) # 400
  BY DEF ApiStatus, on_chain_error
<1>13. u # <<>> => ~Routed(q.what, <<Head(got)>>).done
  BY <1>4, <1>6, Told DEF Reply
<1>14. u # <<>> /\ v # <<>> => ~Routed(q.what, <<Head(got), Head(u)>>).done
  BY <1>4, <1>6, Told DEF Reply
<1> DEFINE one == <<Head(got)>>
           two == <<Head(got), Head(u)>>
<1>15. /\ one # <<>> /\ Head(one) = Head(got) /\ Tail(one) = <<>>
       /\ two # <<>> /\ Head(two) = Head(got) /\ Tail(two) # <<>>
       /\ Head(Tail(two)) = Head(u) /\ Tail(Tail(two)) = <<>>
  BY Firsts
<1>16. CASE ~Head(got).ok
  <2>1. Says(a, ApiStatus("info", Head(got).err))
    BY <1>5, <1>6, <1>16, PrivateSays
  <2>2. Says(Routed(q.what, one), ApiStatus("info", Head(got).err))
    BY <1>5, <1>15, <1>16, PrivateSays
  <2>3. ~(Len(got) > 1)
    BY <1>7, <1>13, <2>2 DEF Says
  <2> QED BY <1>12, <2>1, <2>3 DEF Says, SetServed
<1>17. CASE Head(got).ok
  <2>1. PICK h \in q.oldest..height : Head(got) = Ok(Info(h))
    <3>1. Puts(Routed(q.what, <<>>), InfoCall)
      BY <1>5, PrivateSays
    <3>2. Reply(Routed(q.what, <<>>), Head(got), q.oldest)
      BY <1>4, <1>6, Told
    <3>3. \A f : ~Err(f).ok
      BY DEF Err
    <3> QED BY <1>17, <3>1, <3>2, <3>3 DEF Puts, InfoCall, Reply
  <2>2. info = Info(h) /\ got[1].value.height = h
    BY <1>7, <2>1 DEF Ok, Info
  <2>3. h \in Nat /\ h <= Len(Ledger)
    <3>1. Len(Ledger) \in Nat
      BY LedgerIs
    <3> QED BY <3>1
  <2>4. Fits(postfix, info) <=> Serves
    <3>1. Fits(postfix, Info(h)) <=> Served(postfix, h)
      BY <1>2, <2>3, FitsIs DEF Served
    <3> QED BY <2>2, <3>1
  <2> HIDE DEF Serves
  <2>5. CASE ~Fits(postfix, info)
    <3>1. Says(a, 400)
      BY <1>5, <1>6, <1>17, <2>5, PrivateSays
    <3>2. Says(Routed(q.what, one), 400)
      BY <1>5, <1>15, <1>17, <2>5, PrivateSays
    <3>3. ~(Len(got) > 1)
      BY <1>7, <1>13, <3>2 DEF Says
    <3>4. ~Serves
      BY <2>4, <2>5
    <3> QED BY <3>1, <3>3, <3>4 DEF Says, SetServed, Serves
  <2>6. CASE Fits(postfix, info)
    <3>1. u # <<>>
      <4>1. u = <<>> => ~a.done
        BY <1>5, <1>6, <1>17, <2>6, PrivateSays DEF Puts
      <4> QED BY <4>1
    <3>2. Serves
      BY <2>4, <2>6
    <3>3. CASE ~Head(u).ok
      <4>1. Says(a, ApiStatus("txids_loose", Head(u).err))
        BY <1>5, <1>6, <1>17, <2>6, <3>1, <3>3, PrivateSays
      <4> QED BY <1>12, <3>2, <4>1 DEF Says, SetServed, Serves
    <3>4. CASE Head(u).ok
      <4> DEFINE w == at[2]
      <4>1. w \in during /\ w \in Nat /\ w <= Len(Ledger)
        <5>1. Len(Ledger) \in Nat
          BY LedgerIs
        <5>2. w \in during
          BY <1>8, <1>11, <3>1
        <5> QED BY <1>11, <5>1, <5>2
      <4>2. Puts(Routed(q.what, one), TxidsCall(request))
        BY <1>5, <1>15, <1>17, <2>6, PrivateSays
      <4>3. Head(u) \in Replies(TxidsCall(request), w, offers) \cup Failures(TxidsCall(request))
        <5>1. Before(q.what, got, 2).call = TxidsCall(request) /\ TxidsCall(request).op # "info"
          BY <1>8, <3>1, <4>2 DEF Puts, TxidsCall
        <5> QED BY <1>8, <1>10, <3>1, <5>1 DEF Moment
      <4> HIDE DEF w
      <4>4. /\ Head(u).value \in Seq(TxHash) /\ Unrepeated(Head(u).value)
            /\ Range(Head(u).value) = {t \in Mined(w) : Matches(t, request)}
        BY <3>4, <4>1, <4>3, TxidsAre
      <4>5. /\ list \in Seq(TxHash) /\ Unrepeated(list) /\ Range(list) = Ending(postfix, w)
            /\ Cardinality(Ending(postfix, w)) = Len(list)
        <5> DEFINE txids == Head(u).value
                   C == Range(postfix)
        <5>1. from_hex_suffix(whole_byte_suffix(postfix)) # {}
          BY <2>6 DEF Fits
        <5>2. /\ txids \in Seq(TxHash) /\ Unrepeated(txids)
              /\ Range(txids) = {t \in Mined(w) : Matches(t, RequestFor(postfix))}
          BY <4>4
        <5>3. postfix \in Seq(C)
          BY <1>2
        <5> HIDE DEF txids, C
        <5>4. /\ Matching(postfix, txids) \in Seq(TxHash) /\ Unrepeated(Matching(postfix, txids))
              /\ Range(Matching(postfix, txids)) = Ending(postfix, w)
              /\ Cardinality(Ending(postfix, w)) = Len(Matching(postfix, txids))
          BY <4>1, <5>1, <5>2, <5>3, MatchingIs
        <5> QED BY <5>4 DEF txids
      <4>8. /\ Len(list) > MAX_PRIVATE_TX_MATCHES => Says(a, 400)
            /\ ~(Len(list) > MAX_PRIVATE_TX_MATCHES) =>
                 /\ list = <<>> => Says(a, 200) /\ Hashes(a.body.txs) = HashesOf(Kept(<<>>))
                 /\ list # <<>> =>
                      /\ v = <<>> => Puts(a, TransactionsCall(list))
                      /\ v # <<>> /\ ~Head(v).ok => Says(a, ApiStatus("transactions", Head(v).err))
                      /\ v # <<>> /\ Head(v).ok =>
                           Says(a, 200) /\ Hashes(a.body.txs) = HashesOf(Kept(Head(v).value))
        <5>1. a = Api!transaction_private(postfix, got)
          BY <1>5
        <5>2. Matching(postfix, Head(Tail(got)).value) = list /\ Tail(got) = u /\ Tail(Tail(got)) = v
          OBVIOUS
        <5> HIDE DEF list, u, v
        <5>3. /\ got # <<>> /\ Head(got).ok /\ Fits(postfix, Head(got).value)
              /\ u # <<>> /\ Head(u).ok
          BY <1>6, <1>17, <2>6, <3>1, <3>4
        <5>4. Len(list) > MAX_PRIVATE_TX_MATCHES => Says(a, 400)
          BY <5>1, <5>2, <5>3, PrivateSays
        <5>5. ~(Len(list) > MAX_PRIVATE_TX_MATCHES) /\ list = <<>> =>
                Says(a, 200) /\ Hashes(a.body.txs) = HashesOf(Kept(<<>>))
          BY <5>1, <5>2, <5>3, PrivateSays
        <5>6. ~(Len(list) > MAX_PRIVATE_TX_MATCHES) /\ list # <<>> /\ v = <<>> => Puts(a, TransactionsCall(list))
          BY <5>1, <5>2, <5>3, PrivateSays
        <5>7. ~(Len(list) > MAX_PRIVATE_TX_MATCHES) /\ list # <<>> /\ v # <<>> /\ ~Head(v).ok =>
                Says(a, ApiStatus("transactions", Head(v).err))
          BY <5>1, <5>2, <5>3, PrivateSays
        <5>8. ~(Len(list) > MAX_PRIVATE_TX_MATCHES) /\ list # <<>> /\ v # <<>> /\ Head(v).ok =>
                Says(a, 200) /\ Hashes(a.body.txs) = HashesOf(Kept(Head(v).value))
          <6> SUFFICES ASSUME ~(Len(list) > MAX_PRIVATE_TX_MATCHES), list # <<>>, v # <<>>, Head(v).ok
                       PROVE  Says(a, 200) /\ Hashes(a.body.txs) = HashesOf(Kept(Head(v).value))
            OBVIOUS
          <6>1. Hashes(a.body.txs) = HashesOf(Kept(Head(v).value))
            BY <5>1, <5>2, <5>3, PrivateSays
          <6>2. Says(a, 200)
            <7> DEFINE e == Head(v)
                       s == Head(u)
            <7>1. e.ok /\ s.ok /\ list = Matching(postfix, s.value) /\ v = Tail(u)
              BY <5>2, <5>3
            <7> HIDE DEF e, s
            <7> QED BY <5>1, <5>2, <5>3, <7>1, PrivateShows DEF e, s
          <6> QED BY <6>1, <6>2
        <5> QED BY <5>4, <5>5, <5>6, <5>7, <5>8
      <4>9. ~(Len(list) > MAX_PRIVATE_TX_MATCHES) /\ list # <<>> => Puts(Routed(q.what, two), TransactionsCall(list))
        <5> DEFINE b == Routed(q.what, two)
        <5>1. b = Api!transaction_private(postfix, two)
          BY <1>5
        <5> HIDE DEF b, two
        <5>2. /\ two # <<>> /\ Head(two).ok /\ Fits(postfix, Head(two).value) /\ Tail(two) # <<>>
              /\ Head(Tail(two)).ok /\ Tail(Tail(two)) = <<>>
              /\ Matching(postfix, Head(Tail(two)).value) = list
          BY <1>15, <1>17, <2>6, <3>4
        <5> HIDE DEF list
        <5>3. ~(Len(list) > MAX_PRIVATE_TX_MATCHES) /\ list # <<>> => Puts(b, TransactionsCall(list))
          BY <5>1, <5>2, PrivateSays
        <5> QED BY <5>3 DEF b
      <4> HIDE DEF list
      <4>6. CASE Len(list) > MAX_PRIVATE_TX_MATCHES
        <5>1. Says(a, 400)
          BY <4>6, <4>8
        <5>2. Cardinality(Ending(postfix, w)) > MAX_PRIVATE_TX_MATCHES
          BY <4>5, <4>6
        <5> QED BY <3>2, <4>1, <5>1, <5>2 DEF Says, SetServed, Serves
      <4>7. CASE ~(Len(list) > MAX_PRIVATE_TX_MATCHES)
        <5>1. Cardinality(Ending(postfix, w)) <= MAX_PRIVATE_TX_MATCHES
          <6>1. Len(list) \in Nat /\ MAX_PRIVATE_TX_MATCHES \in Nat
            BY <4>5, BandAssumption
          <6> QED BY <4>5, <4>7, <6>1
        <5>2. ASSUME NEW kept, Says(a, 200), Hashes(a.body.txs) = HashesOf(Kept(kept)),
                     IsInjective(HashesOf(Kept(kept))),
                     Range(HashesOf(Kept(kept))) = Readable(Range(list))
              PROVE  SetServed(postfix, got, q.from, a)
          <6>1. a.status = 200 /\ IsInjective(Hashes(a.body.txs)) /\ Range(Hashes(a.body.txs)) = Readable(Ending(postfix, w))
            BY <4>5, <5>2 DEF Says
          <6>2. /\ \E x \in during : /\ Range(Hashes(a.body.txs)) = Readable(Ending(postfix, x))
                                    /\ Cardinality(Ending(postfix, x)) <= MAX_PRIVATE_TX_MATCHES
                /\ a.status # 400
            BY <4>1, <5>1, <6>1
          <6> QED BY <3>2, <6>1, <6>2 DEF SetServed, Serves
        <5>4. CASE list = <<>>
          <6>1. Says(a, 200) /\ Hashes(a.body.txs) = HashesOf(Kept(<<>>))
            BY <4>7, <4>8, <5>4
          <6>2. IsInjective(HashesOf(Kept(<<>>))) /\ Range(HashesOf(Kept(<<>>))) = Readable(Range(list))
            <7>1. <<>> \in Seq({}) /\ DOMAIN list = {} /\ DOMAIN <<>> = {} /\ DOMAIN <<>> = DOMAIN list
              BY <5>4
            <7> QED BY <4>5, <7>1, KeptAre
          <6> QED BY <5>2, <6>1, <6>2
        <5>5. CASE list # <<>>
          <6>1. v # <<>>
            <7>1. v = <<>> => ~a.done
              BY <4>7, <4>8, <5>5 DEF Puts
            <7> QED BY <7>1
          <6>2. CASE ~Head(v).ok
            <7>1. Says(a, ApiStatus("transactions", Head(v).err))
              BY <4>7, <4>8, <5>5, <6>1, <6>2
            <7> QED BY <1>12, <3>2, <7>1 DEF Says, SetServed, Serves
          <6>3. CASE Head(v).ok
            <7> DEFINE x == at[3]
            <7>1. x \in Nat /\ w <= x
              <8>1. x \in during
                BY <1>9, <1>11, <3>1, <6>1
              <8>2. w <= x
                BY <1>8, <1>9, <1>10, <3>1, <6>1 DEF Moment, w
              <8> QED BY <1>11, <8>1, <8>2
            <7>2. Puts(Routed(q.what, two), TransactionsCall(list))
              BY <4>7, <4>9, <5>5
            <7>3. Head(v) \in Replies(TransactionsCall(list), x, offers) \cup Failures(TransactionsCall(list))
              <8>1. Before(q.what, got, 3).call = TransactionsCall(list) /\ TransactionsCall(list).op # "info"
                BY <1>9, <3>1, <6>1, <7>2 DEF Puts, TransactionsCall
              <8> QED BY <1>9, <1>10, <3>1, <6>1, <8>1 DEF Moment
            <7> HIDE DEF x
            <7>4. Range(list) \subseteq Mined(w)
              BY <4>5 DEF Ending
            <7>5. /\ \E T : Head(v).value \in Seq(T)
                  /\ DOMAIN Head(v).value = DOMAIN list
                  /\ \A i \in DOMAIN list : /\ Head(v).value[i].tx_hash = list[i]
                                            /\ Head(v).value[i].decodes <=> list[i] \notin Undecodable
              BY <4>1, <4>5, <6>3, <7>1, <7>3, <7>4, FetchedAre
            <7>6. /\ IsInjective(HashesOf(Kept(Head(v).value)))
                  /\ Range(HashesOf(Kept(Head(v).value))) = Readable(Range(list))
              BY <4>5, <7>5, KeptAre
            <7>7. Says(a, 200) /\ Hashes(a.body.txs) = HashesOf(Kept(Head(v).value))
              BY <4>7, <4>8, <5>5, <6>1, <6>3
            <7> DEFINE kept == Head(v).value
            <7> HIDE DEF kept
            <7>8. Says(a, 200) /\ Hashes(a.body.txs) = HashesOf(Kept(kept)) /\ IsInjective(HashesOf(Kept(kept)))
                  /\ Range(HashesOf(Kept(kept))) = Readable(Range(list))
              BY <7>6, <7>7 DEF kept
            <7> QED BY <5>2, <7>8
          <6> QED BY <6>2, <6>3
        <5> QED BY <5>4, <5>5
      <4> QED BY <4>6, <4>7
    <3> QED BY <3>3, <3>4
  <2> QED BY <2>5, <2>6
<1> QED BY <1>16, <1>17

\* A lookup by the end of a hash is answered with all that end so, at one moment of its
\* course, and only where that hides which one was meant (handlers.rs).
THEOREM PrivateSetsServed == Spec => []PrivateServesTheSet
<1>1. TimedIInv => PrivateServesTheSet
  <2>0. (\A r \in Requests : Answered(r) /\ What(r).route = "/api/transaction/private" =>
           SetServed(What(r).arg, reqs[r].got, reqs[r].from, Outcome(r))) => PrivateServesTheSet
    BY DEF PrivateServesTheSet, SetServed, Served, Body
  <2> SUFFICES ASSUME TimedIInv, NEW r \in Requests, Answered(r), What(r).route = "/api/transaction/private"
               PROVE  SetServed(What(r).arg, reqs[r].got, reqs[r].from, Outcome(r))
    BY <2>0
  <2> DEFINE q == reqs[r]
             a == Outcome(r)
  <2>1. Record(q) /\ Talked(q) /\ Timed(q) /\ q # NoRequest /\ q.what.route = "/api/transaction/private"
    BY DEF TimedIInv, TalkIInv, TipIInv, Answered, What
  <2>2. height \in Nat /\ height <= Len(Ledger) /\ q.oldest \in Nat /\ q.oldest <= height
    <3>1. height \in StartHeight..MaxHeight /\ StartHeight \in Nat /\ MaxHeight <= Len(Ledger)
          /\ Len(Ledger) \in Nat /\ MaxHeight \in Nat
      BY ExplorerAssumption, LedgerIs DEF TimedIInv, TalkIInv
    <3>2. q.oldest \in StartHeight..seen[Ages]
      BY <2>1 DEF Talked
    <3>3. seen[Ages] <= height /\ seen[Ages] \in Nat
      BY ExplorerAssumption DEF TimedIInv, TalkIInv, TipIInv, Remembered, Ages
    <3> QED BY <3>1, <3>2, <3>3
  <2>3. a = Routed(q.what, q.got) /\ a.done
    BY DEF Outcome, Answered
  <2> HIDE DEF q, a
  <2>4. SetServed(q.what.arg, q.got, q.from, a)
    BY <2>1, <2>2, <2>3, PrivateServes
  <2> QED BY <2>4 DEF q, a, What
<1> QED BY <1>1, TimedInit, TimedNext, PTL DEF Spec
=============================================================================
