------------------------------ MODULE LruCache ------------------------------
(***************************************************************************)
(* The bounded in-memory cache of explorer-core (cache.rs): a map behind a *)
(* mutex, evicting least recently used entries in batches and, when it has *)
(* a time to live, expiring entries on lookup.  Every operation runs with  *)
(* the lock held, so each one is a single action.                          *)
(*                                                                         *)
(* Recency is a logical clock reading kept in each entry; an eviction pass *)
(* finds a cut-off age by selection and keeps what is at or above it.      *)
(***************************************************************************)
EXTENDS Integers, FiniteSets

CONSTANTS
  Keys,           \* the keys callers may use
  Values,         \* the values callers may store
  Requested,      \* <<capacity, ttl>> pairs passed to Cache::permanent / expiring
  EvictFraction,  \* EVICT_FRACTION, 16 in the code
  NoTtl,          \* Option::None for the time to live
  Absent,         \* Option::None of a lookup
  MaxClock,       \* bound: operations in one behaviour
  MaxTime         \* bound: wall-clock ticks in one behaviour

ASSUME RequestAssumption == Requested \subseteq Nat \X (Nat \cup {NoTtl})
ASSUME FractionAssumption == EvictFraction \in Nat \ {0}
ASSUME TtlAssumption == NoTtl \notin Nat
ASSUME AbsentAssumption == Absent \notin Values
ASSUME BoundAssumption == MaxClock \in Nat /\ MaxTime \in Nat

VARIABLES
  capacity,  \* set by Cache::new, and so is ttl
  ttl,       \* time to live, or NoTtl for a permanent cache
  map,       \* key -> Entry, for the keys present
  clock,     \* the logical clock
  hits,
  misses,
  poisoned,  \* a thread panicked while holding the lock
  now,       \* the monotonic clock behind Instant::now
  reply      \* the last operation's key and what it returned to its caller

vars == <<capacity, ttl, map, clock, hits, misses, poisoned, now, reply>>

Entry == [value : Values, used_at : Nat, stored_at : Nat]

drop_count ==
  IF capacity \div EvictFraction > 1 THEN capacity \div EvictFraction ELSE 1

TypeOK ==
  /\ capacity \in Nat \ {0} /\ ttl \in Nat \cup {NoTtl}
  /\ DOMAIN map \subseteq Keys
  /\ map \in [DOMAIN map -> Entry]
  /\ clock \in Nat /\ hits \in Nat /\ misses \in Nat /\ now \in Nat
  /\ poisoned \in BOOLEAN
  /\ reply \in Keys \X (Values \cup {Absent}) \cup {Absent}

\* A capacity of zero is treated as one.
new(cap) == IF cap > 1 THEN cap ELSE 1

Init ==
  /\ \E q \in Requested : capacity = new(q[1]) /\ ttl = q[2]
  /\ map = [k \in {} |-> 0]
  /\ clock = 0 /\ hits = 0 /\ misses = 0
  /\ poisoned = FALSE
  /\ now = 0
  /\ reply = Absent

-----------------------------------------------------------------------------
Restricted(m, S) == [k \in S |-> m[k]]

\* The entry under k has outlived its time to live: `elapsed() >= ttl`.
Expired(k) ==
  /\ ttl # NoTtl
  /\ k \in DOMAIN map
  /\ now - map[k].stored_at >= ttl

\* The map a lookup of k searches: an expired entry is removed first.
Searched(k) ==
  IF Expired(k) THEN Restricted(map, DOMAIN map \ {k}) ELSE map

\* Fault: a hit leaves the entry's recency as it was.
TouchNothing(m, k) == m

\* Fault: a hit stamps the reading before the increment.
TouchBehind(m, k) == [m EXCEPT ![k] = [@ EXCEPT !.used_at = clock]]

Touch(m, k) == [m EXCEPT ![k] = [@ EXCEPT !.used_at = clock + 1]]

GetHit(k) ==
  /\ ~poisoned /\ clock < MaxClock
  /\ k \in DOMAIN Searched(k)
  /\ clock' = clock + 1
  /\ map' = Touch(Searched(k), k)
  /\ hits' = hits + 1
  /\ reply' = <<k, map[k].value>>
  /\ UNCHANGED <<capacity, ttl, misses, poisoned, now>>

GetMiss(k) ==
  /\ ~poisoned /\ clock < MaxClock
  /\ k \notin DOMAIN Searched(k)
  /\ clock' = clock + 1
  /\ map' = Searched(k)
  /\ misses' = misses + 1
  /\ reply' = <<k, Absent>>
  /\ UNCHANGED <<capacity, ttl, hits, poisoned, now>>

-----------------------------------------------------------------------------
\* Fault: the selection is off by one.
IsPreviousAge(a, n) ==
  /\ a \in {map[k].used_at : k \in DOMAIN map}
  /\ Cardinality({k \in DOMAIN map : map[k].used_at < a}) = n - 1

\* `select_nth_unstable(n)`: a is at index n of the ages in sorted order.
IsNthAge(a, n) ==
  /\ a \in {map[k].used_at : k \in DOMAIN map}
  /\ Cardinality({k \in DOMAIN map : map[k].used_at < a}) <= n
  /\ n < Cardinality({k \in DOMAIN map : map[k].used_at <= a})

\* Fault: the whole-map case is missed when the batch is exactly the map, and
\* the selection is asked for an index past the end.
evict_batch_strict(kept) ==
  IF drop_count > Cardinality(DOMAIN map)
  THEN kept = {}
  ELSE \E cutoff \in {map[k].used_at : k \in DOMAIN map} :
         /\ IsNthAge(cutoff, drop_count)
         /\ kept = {k \in DOMAIN map : map[k].used_at >= cutoff}

\* What an eviction pass may leave: nothing when the batch is the whole map,
\* otherwise every entry at or above the selected age.
evict_batch(kept) ==
  IF drop_count >= Cardinality(DOMAIN map)
  THEN kept = {}
  ELSE \E cutoff \in {map[k].used_at : k \in DOMAIN map} :
         /\ IsNthAge(cutoff, drop_count)
         /\ kept = {k \in DOMAIN map : map[k].used_at >= cutoff}

\* Fault: an entry is stamped with the tick before it was stored.
NewEntryBackdated(v) == [value |-> v, used_at |-> clock + 1, stored_at |-> now - 1]

NewEntry(v) == [value |-> v, used_at |-> clock + 1, stored_at |-> now]

\* Fault: room is made one entry too late.
MustEvictLate(k) == k \notin DOMAIN map /\ Cardinality(DOMAIN map) > capacity

MustEvict(k) == k \notin DOMAIN map /\ Cardinality(DOMAIN map) >= capacity

Store(kept, k, v) ==
  map' = [j \in kept \cup {k} |-> IF j = k THEN NewEntry(v) ELSE map[j]]

insert(k, v) ==
  /\ ~poisoned /\ clock < MaxClock
  /\ clock' = clock + 1
  /\ IF MustEvict(k)
     THEN \E kept \in SUBSET DOMAIN map : evict_batch(kept) /\ Store(kept, k, v)
     ELSE Store(DOMAIN map, k, v)
  /\ reply' = <<k, v>>
  /\ UNCHANGED <<capacity, ttl, hits, misses, poisoned, now>>

-----------------------------------------------------------------------------
\* A poisoned lock: lookups miss, and an insert hands the value back unstored.
PoisonedGet(k) ==
  /\ poisoned
  /\ reply' = <<k, Absent>>
  /\ UNCHANGED <<capacity, ttl, map, clock, hits, misses, poisoned, now>>

PoisonedInsert(k, v) ==
  /\ poisoned
  /\ reply' = <<k, v>>
  /\ UNCHANGED <<capacity, ttl, map, clock, hits, misses, poisoned, now>>

\* A thread panics while it holds the lock.
Poison ==
  /\ ~poisoned
  /\ poisoned' = TRUE
  /\ UNCHANGED <<capacity, ttl, map, clock, hits, misses, now, reply>>

Tick ==
  /\ now < MaxTime
  /\ now' = now + 1
  /\ UNCHANGED <<capacity, ttl, map, clock, hits, misses, poisoned, reply>>

\* Cache::stats, with the figures a poisoned lock reports.
stats ==
  IF poisoned
  THEN [len |-> 0, capacity |-> capacity, hits |-> 0, misses |-> 0]
  ELSE [len |-> Cardinality(DOMAIN map), capacity |-> capacity,
        hits |-> hits, misses |-> misses]

get(k) == GetHit(k) \/ GetMiss(k) \/ PoisonedGet(k)

Next ==
  \/ \E k \in Keys : get(k)
  \/ \E k \in Keys, v \in Values : insert(k, v) \/ PoisonedInsert(k, v)
  \/ Poison
  \/ Tick

Spec == Init /\ [][Next]_vars

-----------------------------------------------------------------------------
\* The cache never holds more entries than its capacity: a full cache makes
\* room before it stores a key it does not have (Cache::insert).
Bounded == Cardinality(DOMAIN map) <= capacity

\* No two entries share a recency reading and none is ahead of the clock:
\* what makes evict_batch's cut exact ("no two entries share a value").
DistinctAges ==
  /\ \A k \in DOMAIN map : map[k].used_at <= clock
  /\ \A j, k \in DOMAIN map : map[j].used_at = map[k].used_at => j = k

\* What a step drops from the map.
Dropped == DOMAIN map \ DOMAIN map'

\* An insert that evicts drops exactly the batch, and only entries that were
\* used less recently than every other entry it keeps (Cache::evict_batch).
EvictsOldestBatch ==
  [][ \A k \in Keys, v \in Values :
        insert(k, v) /\ Dropped # {} =>
          /\ Cardinality(Dropped) = drop_count
          /\ \A old \in Dropped, kept \in DOMAIN map \ Dropped :
               map[old].used_at < map[kept].used_at ]_vars

\* A full cache always has an eviction pass to run: the index selected is
\* within the ages, where select_nth_unstable would panic past their end
\* while the lock is held (Cache::evict_batch).
EvictionAlwaysPossible ==
  Cardinality(DOMAIN map) >= capacity =>
    \E kept \in SUBSET DOMAIN map : evict_batch(kept)

-----------------------------------------------------------------------------
\* The keys used no later than k, and so the key that is i-th in order of use.
UsedUpTo(m, k) == {j \in DOMAIN m : m[j].used_at <= m[k].used_at}

Nth(m, i) == CHOOSE k \in DOMAIN m : Cardinality(UsedUpTo(m, k)) = i

Item(m, k) == [key |-> k, value |-> m[k].value, stored_at |-> m[k].stored_at]

\* The entries in order of use: the refinement mapping for `list`.
ByUse(m) == [i \in 1..Cardinality(DOMAIN m) |-> Item(m, Nth(m, i))]

Abstract == INSTANCE RecencyList WITH
  cap <- capacity, batch <- drop_count,
  list <- IF poisoned THEN <<>> ELSE ByUse(map), broken <- poisoned

\* The clock, the ages and the selected cut-off implement a plain recency
\* list: every lookup and insert of cache.rs answers and evicts as it does.
ImplementsRecencyList == Abstract!Spec
=============================================================================
