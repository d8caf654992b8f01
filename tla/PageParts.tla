----------------------------- MODULE PageParts ------------------------------
(***************************************************************************)
(* What the pages make of a list (html.rs): the sorted tables and the links*)
(* of their headers, and the strip that lays the members of a ring out by  *)
(* age.  The order of the pool's listing (rpc_source.rs) is a sort too.    *)
(***************************************************************************)
EXTENDS Integers, Sequences, FiniteSets

CONSTANTS
  StripWidth,  \* STRIP_WIDTH, 760
  HaloWidth,   \* HALO_WIDTH, 26
  Log,         \* ln, scaled to whole numbers: Log[n] for 1..N
  AgeTicks     \* the ages AGE_TICKS labels, in blocks

ASSUME StripAssumption == HaloWidth \in Nat /\ StripWidth \in Nat /\ HaloWidth < StripWidth
ASSUME LogAssumption ==
  /\ Log \in Seq(Nat) /\ Log # <<>> /\ Log[1] = 0
  /\ \A m, n \in DOMAIN Log : m < n => Log[m] < Log[n]
ASSUME TicksAssumption == AgeTicks \subseteq Nat

-----------------------------------------------------------------------------
\* A sort in effect is a set of at most one [key, dir].

flipped(dir) == IF dir = "asc" THEN "desc" ELSE "asc"

\* From the query: a key not known is no sort, a direction not known descends.
active_sort(sort, dir) ==
  IF sort \in {"waiting", "fee", "size"}
  THEN {[key |-> sort, dir |-> IF dir \in {"asc", "desc"} THEN dir ELSE "desc"]}
  ELSE {}

\* The header of a column: where it links, and how it is marked.
column_sort(key, active) ==
  IF \E a \in active : a.key = key
  THEN LET a == CHOOSE a \in active : TRUE
       IN  [href |-> [sort |-> key, dir |-> flipped(a.dir)], state |-> a.dir]
  ELSE [href |-> [sort |-> key, dir |-> "desc"], state |-> "none"]

\* Fault: descending is ascending read backwards.
goes_before_reversed(values, dir, i, j) ==
  IF dir = "asc" THEN values[i] < values[j] \/ (values[i] = values[j] /\ i < j)
  ELSE values[j] < values[i] \/ (values[i] = values[j] /\ j < i)

\* Rows with equal values stay in the order they came in, in either direction.
goes_before(values, dir, i, j) ==
  \/ values[i] = values[j] /\ i < j
  \/ dir = "asc" /\ values[i] < values[j]
  \/ dir = "desc" /\ values[i] > values[j]

\* The k-th of the rows when they are in order.
sort_rows(rows, values, dir) ==
  LET nth(k) == CHOOSE i \in DOMAIN rows :
        Cardinality({j \in DOMAIN rows : goes_before(values, dir, j, i)}) = k - 1
  IN  [k \in DOMAIN rows |-> rows[nth(k)]]

\* columns holds, for each column that sorts, the values of the rows in it.
Sorted(rows, active, columns) ==
  IF active = {} THEN rows
  ELSE LET a == CHOOSE a \in active : TRUE
       IN  sort_rows(rows, columns[a.key], a.dir)

sort_pool_rows(rows, active) ==
  Sorted(rows, active,
    [waiting |-> [i \in DOMAIN rows |-> rows[i].waiting_secs],
     fee     |-> [i \in DOMAIN rows |-> rows[i].fee_atomic],
     size    |-> [i \in DOMAIN rows |-> rows[i].size]])

\* A block has no column of waiting times: that sort is dropped before.
sort_block_rows(rows, active) ==
  Sorted(rows, {a \in active : a.key # "waiting"},
    [fee  |-> [i \in DOMAIN rows |-> rows[i].fee_atomic],
     size |-> [i \in DOMAIN rows |-> rows[i].size]])

\* abs_diff: a transaction may claim to have come after it was asked about.
waiting_secs(asked_at, receive_time) ==
  IF asked_at > receive_time THEN asked_at - receive_time ELSE receive_time - asked_at

\* The pool as every listing of it starts, whatever order monerod gives it in.
newest_first(txs) == sort_rows(txs, [i \in DOMAIN txs |-> txs[i].received_timestamp], "desc")

-----------------------------------------------------------------------------
\* A pool pays its miners in the coinbase and commits to its side chain there.
is_p2pool(coinbase, outputs, merge_mined) == coinbase /\ outputs > 1 /\ merge_mined

Since(height, spent_at) == IF height < spent_at THEN spent_at - height ELSE 0

\* The oldest age on any of the transaction's strips, which share an axis.
axis_span(heights, spent_at) ==
  LET ages == {Since(h, spent_at) : h \in heights} \cup {0}
  IN  CHOOSE a \in ages : \A b \in ages : b <= a

\* From the oldest at 0 to the spend at StripWidth, on a logarithmic scale; with
\* nothing older than the spend all are at the spend.
strip_x(at, oldest) ==
  LET span == Log[oldest + 1]
      left == IF Log[at + 1] < span THEN span - Log[at + 1] ELSE 0
  IN  IF span = 0 THEN StripWidth ELSE (2 * StripWidth * left + span) \div (2 * span)

\* The left edge of a mark, held inside the strip.
centred(x, width) ==
  LET edge == IF x > width \div 2 THEN x - (width \div 2) ELSE 0
  IN  IF edge < StripWidth - width THEN edge ELSE StripWidth - width

age_strip(heights, spent_at, oldest) ==
  [marks |-> [i \in DOMAIN heights |-> centred(strip_x(Since(heights[i], spent_at), oldest), HaloWidth)],
   ticks |-> [at \in {at \in AgeTicks : at <= oldest} |-> strip_x(at, oldest)]]

\* Two minutes a block; the unit is the largest that leaves a whole number.
age_label(blocks) ==
  LET minutes == 2 * blocks
  IN  CASE minutes < 60 -> [unit |-> 1, count |-> minutes]
        [] minutes \in 60..1439 -> [unit |-> 60, count |-> minutes \div 60]
        [] minutes \in 1440..43199 -> [unit |-> 1440, count |-> minutes \div 1440]
        [] OTHER -> [unit |-> 43200, count |-> minutes \div 43200]
=============================================================================
