----------------------------- MODULE CacheProofs -----------------------------
(***************************************************************************)
(* The cache, and what is put together over it.  LruCache is proved bounded*)
(* and a list in order of use; RingSource is proved to put rings together  *)
(* rightly over a cache that may drop anything at any time, which is all   *)
(* that it may take LruCache for.                                          *)
(***************************************************************************)
EXTENDS LruCache, RingSource, SiftProofs, FiniteSetTheorems, TLAPS

(***************************************************************************)
(* The cache is bounded and evicts exactly its oldest batch, for every     *)
(* capacity, eviction fraction, time to live and set of keys.              *)
(*                                                                         *)
(* The bound is not inductive alone: an eviction pass makes room only      *)
(* because no two entries share an age, so the selected cut-off has exactly*)
(* drop_count entries below it.  On those facts rests the refinement: the  *)
(* cache is a list of its entries in order of use.                         *)
(***************************************************************************)

USE FractionAssumption

\* The inductive invariant: types, a finite map, distinct ages, the bound.
IInv ==
  /\ TypeOK
  /\ IsFiniteSet(DOMAIN map)
  /\ DistinctAges
  /\ Bounded

-----------------------------------------------------------------------------
\* The batch is at least one entry and never larger than the cache.
LEMMA BatchSize ==
  ASSUME TypeOK
  PROVE  capacity \in Nat /\ drop_count \in Nat /\ 1 <= drop_count /\ drop_count <= capacity
<1>1. capacity \in Nat /\ capacity >= 1
  BY DEF TypeOK
<1>2. capacity \div EvictFraction \in Nat /\ capacity \div EvictFraction <= capacity
  BY <1>1
<1> QED
  BY <1>1, <1>2 DEF drop_count

\* When ages are distinct, the entry select_nth_unstable(n) picks has exactly
\* n entries strictly below it.
LEMMA CutIsExact ==
  ASSUME TypeOK, IsFiniteSet(DOMAIN map), DistinctAges,
         NEW n \in Nat, NEW a, IsNthAge(a, n)
  PROVE  Cardinality({k \in DOMAIN map : map[k].used_at < a}) = n
<1> DEFINE below == {k \in DOMAIN map : map[k].used_at < a}
           upto  == {k \in DOMAIN map : map[k].used_at <= a}
<1>1. PICK at \in DOMAIN map : map[at].used_at = a
  BY DEF IsNthAge
<1>2. \A k \in DOMAIN map : map[k].used_at \in Nat
  BY DEF TypeOK, Entry
<1>3. upto = below \cup {at} /\ at \notin below
  BY <1>1, <1>2 DEF DistinctAges
<1>4. IsFiniteSet(below) /\ Cardinality(below) \in Nat
  <2>1. below \in SUBSET (DOMAIN map)
    OBVIOUS
  <2>2. IsFiniteSet(below)
    BY <2>1, FS_Subset
  <2> QED BY <2>2, FS_CardinalityType
<1>5. Cardinality(upto) = Cardinality(below) + 1
  BY <1>3, <1>4, FS_AddElement
<1> QED BY <1>4, <1>5 DEF IsNthAge

\* An eviction pass over a full cache keeps a subset that is exactly one
\* batch smaller, and everything it drops is older than all it keeps.
LEMMA EvictedBatch ==
  ASSUME IInv, Cardinality(DOMAIN map) >= capacity,
         NEW kept \in SUBSET DOMAIN map, evict_batch(kept)
  PROVE  /\ IsFiniteSet(kept)
         /\ Cardinality(kept) = Cardinality(DOMAIN map) - drop_count
         /\ Cardinality(DOMAIN map \ kept) = drop_count
         /\ \A old \in DOMAIN map \ kept, k \in kept :
              map[old].used_at < map[k].used_at
<1>1. Cardinality(DOMAIN map) = capacity
  BY FS_CardinalityType, BatchSize DEF IInv, Bounded
<1>2. \A k \in DOMAIN map : map[k].used_at \in Nat
  BY DEF IInv, TypeOK, Entry
<1>3. CASE drop_count >= Cardinality(DOMAIN map)
  <2>1. kept = {} /\ drop_count = Cardinality(DOMAIN map)
    BY <1>1, <1>3, BatchSize DEF evict_batch, IInv
  <2> QED BY <2>1, FS_EmptySet, BatchSize DEF IInv
<1>4. CASE ~(drop_count >= Cardinality(DOMAIN map))
  <2>1. PICK cutoff \in {map[k].used_at : k \in DOMAIN map} :
          /\ IsNthAge(cutoff, drop_count)
          /\ kept = {k \in DOMAIN map : map[k].used_at >= cutoff}
    BY <1>4 DEF evict_batch
  <2> DEFINE below == {k \in DOMAIN map : map[k].used_at < cutoff}
  <2>2. Cardinality(below) = drop_count
    BY <2>1, CutIsExact, BatchSize DEF IInv
  <2>3. cutoff \in Nat
    BY <1>2, <2>1
  <2>4. DOMAIN map \ kept = below /\ kept = DOMAIN map \ below
    BY <1>2, <2>1, <2>3
  <2>5. IsFiniteSet(kept) /\ IsFiniteSet(below)
    <3>1. below \in SUBSET (DOMAIN map)
      OBVIOUS
    <3> QED BY <3>1, FS_Subset DEF IInv
  <2>6. Cardinality(DOMAIN map) =
          Cardinality(kept) + Cardinality(below) - Cardinality(kept \cap below)
    <3>1. DOMAIN map = kept \cup below
      BY <2>4
    <3> QED BY <3>1, <2>5, FS_Union
  <2>7. Cardinality(kept \cap below) = 0
    <3>1. kept \cap below = {}
      BY <2>4
    <3> QED BY <3>1, FS_EmptySet
  <2>8. Cardinality(kept) \in Nat
    BY <2>5, FS_CardinalityType
  <2>9. \A old \in DOMAIN map \ kept, k \in kept :
          map[old].used_at < map[k].used_at
    BY <1>2, <2>1, <2>3
  <2>10. Cardinality(kept) = Cardinality(DOMAIN map) - drop_count
    BY <1>1, <2>2, <2>6, <2>7, <2>8, BatchSize DEF IInv
  <2> QED BY <2>2, <2>4, <2>5, <2>9, <2>10
<1> QED BY <1>3, <1>4

\* There is an age at every index below the number of entries: the least number
\* with more than n ages at or below it is an age, and has at most n below it.
LEMMA NthAgeExists ==
  ASSUME IInv, NEW n \in Nat, n < Cardinality(DOMAIN map)
  PROVE  \E a \in {map[k].used_at : k \in DOMAIN map} : IsNthAge(a, n)
<1> DEFINE UpTo(m) == {k \in DOMAIN map : map[k].used_at <= m}
           T == {m \in Nat : n < Cardinality(UpTo(m))}
<1>1. \A k \in DOMAIN map : map[k].used_at \in Nat
  BY DEF IInv, TypeOK, Entry
<1>2. \A m : IsFiniteSet(UpTo(m)) /\ Cardinality(UpTo(m)) \in Nat
  <2> TAKE m
  <2>1. UpTo(m) \in SUBSET DOMAIN map
    OBVIOUS
  <2> HIDE DEF UpTo
  <2>2. IsFiniteSet(UpTo(m))
    BY <2>1, FS_Subset DEF IInv
  <2> QED BY <2>2, FS_CardinalityType
<1>3. clock \in T
  <2>1. clock \in Nat /\ UpTo(clock) = DOMAIN map
    BY DEF IInv, TypeOK, DistinctAges
  <2> HIDE DEF UpTo
  <2> QED BY <2>1
<1>4. PICK a \in T : \A m \in T : a <= m
  <2>1. T \in SUBSET Nat /\ T # {}
    BY <1>3
  <2> HIDE DEF T
  <2> QED BY <2>1, NatMin
<1> DEFINE below == {k \in DOMAIN map : map[k].used_at < a}
<1>5. Cardinality(below) <= n
  <2>1. CASE a = 0
    <3>1. below = {}
      BY <1>1, <2>1
    <3> HIDE DEF below
    <3> QED BY <3>1, FS_EmptySet
  <2>2. CASE a # 0
    <3>1. a - 1 \in Nat /\ a - 1 \notin T
      BY <1>4, <2>2
    <3>2. below = UpTo(a - 1)
      BY <1>1, <1>4
    <3>3. ~(n < Cardinality(UpTo(a - 1)))
      BY <3>1
    <3> HIDE DEF below, UpTo
    <3> QED BY <1>2, <3>2, <3>3
  <2> QED BY <2>1, <2>2
<1>6. a \in {map[k].used_at : k \in DOMAIN map}
  <2> SUFFICES ASSUME a \notin {map[k].used_at : k \in DOMAIN map} PROVE FALSE
    OBVIOUS
  <2>1. UpTo(a) = below
    BY <1>1, <1>4
  <2>2. n < Cardinality(UpTo(a))
    BY <1>4
  <2> HIDE DEF below, UpTo
  <2> QED BY <1>2, <1>5, <2>1, <2>2
<1>7. n < Cardinality(UpTo(a))
  BY <1>4
<1> QED BY <1>5, <1>6, <1>7 DEF IsNthAge

-----------------------------------------------------------------------------
LEMMA InitIInv == Init => IInv
<1> SUFFICES ASSUME Init PROVE IInv
  OBVIOUS
<1>1. DOMAIN map = {}
  BY DEF Init
<1>2. map \in [DOMAIN map -> Entry]
  BY <1>1 DEF Init
<1>3. capacity \in Nat \ {0} /\ ttl \in Nat \cup {NoTtl}
  BY RequestAssumption DEF Init, new
<1>4. TypeOK
  BY <1>1, <1>2, <1>3 DEF Init, TypeOK
<1>5. DistinctAges
  BY <1>1 DEF DistinctAges
<1>6. IsFiniteSet(DOMAIN map) /\ Bounded
  BY <1>1, <1>4, FS_EmptySet, BatchSize DEF Bounded
<1> QED BY <1>4, <1>5, <1>6 DEF IInv

\* A lookup only shrinks the map or re-stamps the entry it found.
LEMMA GetIInv ==
  ASSUME IInv, NEW k \in Keys, GetHit(k) \/ GetMiss(k)
  PROVE  IInv'
<1> DEFINE m == Searched(k)
<1> USE DEF IInv
<1>1. /\ DOMAIN m \subseteq DOMAIN map
      /\ \A j \in DOMAIN m : m[j] = map[j]
      /\ m = [j \in DOMAIN m |-> map[j]]
  BY DEF Searched, Restricted, TypeOK
<1>2. IsFiniteSet(DOMAIN m) /\ Cardinality(DOMAIN m) <= Cardinality(DOMAIN map)
  BY <1>1, FS_Subset
<1>3. DOMAIN map' = DOMAIN m
  BY DEF GetHit, GetMiss, Touch
<1>4. Cardinality(DOMAIN map) \in Nat /\ Cardinality(DOMAIN m) \in Nat
  BY <1>2, FS_CardinalityType
<1>5. Bounded' /\ IsFiniteSet(DOMAIN map')
  BY <1>2, <1>3, <1>4, BatchSize DEF Bounded, GetHit, GetMiss
<1>6. CASE GetHit(k)
  <2>1. k \in DOMAIN m /\ clock' = clock + 1 /\ map' = Touch(m, k)
    BY <1>6 DEF GetHit
  <2>2. /\ map'[k] = [map[k] EXCEPT !.used_at = clock + 1]
        /\ \A j \in DOMAIN m \ {k} : map'[j] = map[j]
    BY <1>1, <2>1 DEF Touch
  <2>3. map[k] \in Entry /\ map'[k] \in Entry /\ map'[k].used_at = clock + 1
    BY <1>1, <2>1, <2>2 DEF TypeOK, Entry
  <2>4. map' \in [DOMAIN map' -> Entry]
    BY <1>1, <1>3, <2>1, <2>2, <2>3 DEF TypeOK, Touch
  <2>5. TypeOK'
    BY <1>1, <1>3, <1>6, <2>3, <2>4 DEF TypeOK, GetHit, Entry
  <2>6. DistinctAges'
    BY <1>1, <1>3, <2>1, <2>2, <2>3 DEF DistinctAges, TypeOK, Entry
  <2> QED BY <1>5, <2>5, <2>6
<1>7. CASE GetMiss(k)
  <2>1. TypeOK'
    BY <1>1, <1>7 DEF TypeOK, GetMiss
  <2>2. DistinctAges'
    BY <1>1, <1>7 DEF DistinctAges, GetMiss, TypeOK, Entry
  <2> QED BY <1>5, <2>1, <2>2
<1> QED BY <1>6, <1>7

\* Storing into a finite part of the map keeps types and distinct ages.
LEMMA StoreKeeps ==
  ASSUME IInv, NEW k \in Keys, NEW v \in Values, insert(k, v),
         NEW kept \in SUBSET DOMAIN map, IsFiniteSet(kept), Store(kept, k, v)
  PROVE  /\ DOMAIN map' = kept \cup {k}
         /\ TypeOK' /\ DistinctAges'
         /\ IsFiniteSet(DOMAIN map')
<1> USE DEF IInv
<1>1. DOMAIN map' = kept \cup {k}
  BY DEF Store
<1>2. NewEntry(v) \in Entry /\ NewEntry(v).used_at = clock + 1
  BY DEF NewEntry, Entry, TypeOK
<1>3. map'[k] = NewEntry(v) /\ \A j \in kept \ {k} : map'[j] = map[j]
  BY DEF Store
<1>4. \A j \in DOMAIN map' : map'[j] \in Entry
  BY <1>1, <1>2, <1>3 DEF TypeOK
<1>5. map' \in [DOMAIN map' -> Entry]
  BY <1>4 DEF Store
<1>6. TypeOK'
  BY <1>1, <1>5 DEF TypeOK, insert
<1>7. DistinctAges'
  BY <1>1, <1>2, <1>3 DEF DistinctAges, insert, TypeOK, Entry
<1>8. IsFiniteSet(DOMAIN map')
  BY <1>1, FS_AddElement
<1> QED BY <1>1, <1>6, <1>7, <1>8

\* An insert keeps the invariant: overwriting and filling keep the bound, and
\* a full cache makes room first.
LEMMA InsertIInv ==
  ASSUME IInv, NEW k \in Keys, NEW v \in Values, insert(k, v)
  PROVE  IInv'
<1>1. CASE MustEvict(k)
  <2>1. PICK kept \in SUBSET DOMAIN map : evict_batch(kept) /\ Store(kept, k, v)
    BY <1>1 DEF insert
  <2>2. /\ IsFiniteSet(kept)
        /\ Cardinality(kept) = Cardinality(DOMAIN map) - drop_count
    BY <1>1, <2>1, EvictedBatch DEF MustEvict
  <2>3. DOMAIN map' = kept \cup {k} /\ TypeOK' /\ DistinctAges' /\ IsFiniteSet(DOMAIN map')
    BY <2>1, <2>2, StoreKeeps
  <2>4. Cardinality(DOMAIN map') <= Cardinality(kept) + 1
    <3>1. Cardinality(kept) \in Nat
      BY <2>2, FS_CardinalityType
    <3> QED BY <2>2, <2>3, <3>1, FS_AddElement
  <2>5. Bounded'
    <3>1. Cardinality(DOMAIN map) \in Nat /\ Cardinality(DOMAIN map') \in Nat
          /\ Cardinality(kept) \in Nat
      BY <2>2, <2>3, FS_CardinalityType DEF IInv
    <3> QED BY <2>2, <2>4, <3>1, BatchSize DEF IInv, Bounded, insert
  <2> QED BY <2>3, <2>5 DEF IInv
<1>2. CASE ~MustEvict(k)
  <2>1. Store(DOMAIN map, k, v)
    BY <1>2 DEF insert
  <2>2. DOMAIN map' = DOMAIN map \cup {k} /\ TypeOK' /\ DistinctAges' /\ IsFiniteSet(DOMAIN map')
    BY <2>1, StoreKeeps DEF IInv
  <2>3. Bounded'
    <3>1. Cardinality(DOMAIN map) \in Nat
      BY FS_CardinalityType DEF IInv
    <3>2. Cardinality(DOMAIN map') =
            IF k \in DOMAIN map THEN Cardinality(DOMAIN map) ELSE Cardinality(DOMAIN map) + 1
      BY <2>2, FS_AddElement DEF IInv
    <3> QED BY <1>2, <3>1, <3>2, BatchSize DEF IInv, Bounded, MustEvict, insert
  <2> QED BY <2>2, <2>3 DEF IInv
<1> QED BY <1>1, <1>2

\* Every step of the cache keeps the inductive invariant.
LEMMA NextIInv == IInv /\ [Next]_vars => IInv'
<1> SUFFICES ASSUME IInv, [Next]_vars PROVE IInv'
  OBVIOUS
<1>1. ASSUME NEW k \in Keys, GetHit(k) \/ GetMiss(k) PROVE IInv'
  BY <1>1, GetIInv
<1>2. ASSUME NEW k \in Keys, NEW v \in Values, insert(k, v) PROVE IInv'
  BY <1>2, InsertIInv
<1>3. CASE \/ \E k \in Keys : PoisonedGet(k)
           \/ \E k \in Keys, v \in Values : PoisonedInsert(k, v)
           \/ Poison
           \/ Tick
           \/ UNCHANGED vars
  <2>1. UNCHANGED map /\ UNCHANGED clock /\ UNCHANGED capacity /\ UNCHANGED ttl
    BY <1>3 DEF PoisonedGet, PoisonedInsert, Poison, Tick, vars
  <2>2. hits' \in Nat /\ misses' \in Nat /\ now' \in Nat
    BY <1>3 DEF PoisonedGet, PoisonedInsert, Poison, Tick, vars, IInv, TypeOK
  <2>3. reply' \in Keys \X (Values \cup {Absent}) \cup {Absent}
    BY <1>3 DEF PoisonedGet, PoisonedInsert, Poison, Tick, vars, IInv, TypeOK
  <2>4. poisoned' \in BOOLEAN
    BY <1>3, Zenon DEF PoisonedGet, PoisonedInsert, Poison, Tick, vars, IInv, TypeOK
  <2>5. TypeOK'
    BY <2>1, <2>2, <2>3, <2>4 DEF IInv, TypeOK
  <2> QED BY <2>1, <2>5 DEF IInv, DistinctAges, Bounded
<1> QED BY <1>1, <1>2, <1>3 DEF Next, get

-----------------------------------------------------------------------------
\* Types are preserved by every operation of cache.rs.
THEOREM TypeCorrect == Spec => []TypeOK
<1>1. IInv => TypeOK
  BY DEF IInv
<1> QED BY <1>1, InitIInv, NextIInv, PTL DEF Spec

\* The cache never exceeds its capacity, whatever sequence of lookups and
\* inserts it serves (Cache::insert, Cache::evict_batch).
THEOREM CacheBounded == Spec => []Bounded
<1>1. IInv => Bounded
  BY DEF IInv
<1> QED BY <1>1, InitIInv, NextIInv, PTL DEF Spec

\* Recency readings are distinct, as evict_batch's exact cut assumes.
THEOREM AgesDistinct == Spec => []DistinctAges
<1>1. IInv => DistinctAges
  BY DEF IInv
<1> QED BY <1>1, InitIInv, NextIInv, PTL DEF Spec

\* The pass that makes room never indexes past the ages, where it would panic
\* with the lock held (Cache::evict_batch).
THEOREM EvictionNeverPanics == Spec => []EvictionAlwaysPossible
<1>1. ASSUME IInv, Cardinality(DOMAIN map) >= capacity
      PROVE  \E kept \in SUBSET DOMAIN map : evict_batch(kept)
  <2>1. CASE drop_count >= Cardinality(DOMAIN map)
    <3>1. evict_batch({})
      BY <2>1 DEF evict_batch
    <3>2. {} \in SUBSET DOMAIN map
      OBVIOUS
    <3> QED BY <3>1, <3>2
  <2>2. CASE ~(drop_count >= Cardinality(DOMAIN map))
    <3>1. drop_count \in Nat /\ drop_count < Cardinality(DOMAIN map)
      BY <1>1, <2>2, BatchSize, FS_CardinalityType DEF IInv
    <3>2. PICK a \in {map[k].used_at : k \in DOMAIN map} : IsNthAge(a, drop_count)
      BY <1>1, <3>1, NthAgeExists
    <3> DEFINE kept == {k \in DOMAIN map : map[k].used_at >= a}
    <3>3. evict_batch(kept) /\ kept \in SUBSET DOMAIN map
      BY <2>2, <3>2 DEF evict_batch
    <3> QED BY <3>3
  <2> QED BY <2>1, <2>2
<1>2. IInv => EvictionAlwaysPossible
  BY <1>1 DEF EvictionAlwaysPossible
<1> QED BY <1>2, InitIInv, NextIInv, PTL DEF Spec

\* Every eviction drops exactly one batch, the least recently used entries.
THEOREM EvictionIsLru == Spec => EvictsOldestBatch
<1> DEFINE A == \A k \in Keys, v \in Values :
        insert(k, v) /\ Dropped # {} =>
          /\ Cardinality(Dropped) = drop_count
          /\ \A old \in Dropped, kept \in DOMAIN map \ Dropped :
               map[old].used_at < map[kept].used_at
<1>1. ASSUME IInv, NEW k \in Keys, NEW v \in Values, insert(k, v), Dropped # {}
      PROVE  /\ Cardinality(Dropped) = drop_count
             /\ \A old \in Dropped, kept \in DOMAIN map \ Dropped :
                  map[old].used_at < map[kept].used_at
  <2>1. MustEvict(k)
    BY <1>1 DEF insert, Store, Dropped
  <2>2. PICK kept \in SUBSET DOMAIN map : evict_batch(kept) /\ Store(kept, k, v)
    BY <1>1, <2>1 DEF insert
  <2>3. Dropped = DOMAIN map \ kept /\ DOMAIN map \ Dropped = kept
    BY <2>1, <2>2 DEF Dropped, Store, MustEvict
  <2> QED BY <1>1, <2>1, <2>2, <2>3, EvictedBatch DEF MustEvict
<1>2. IInv => A
  BY <1>1
<1>3. IInv /\ [Next]_vars => [A]_vars
  BY <1>2
<1>4. Spec => []IInv
  BY InitIInv, NextIInv, PTL DEF Spec
<1>5. [][A]_vars => EvictsOldestBatch
  BY PTL DEF EvictsOldestBatch
<1> QED BY <1>3, <1>4, <1>5, PTL DEF Spec

-----------------------------------------------------------------------------
(***************************************************************************)
(* The refinement.  A list is the map in order of use when it has each     *)
(* entry once and ages increase along it; a map has one such list, the     *)
(* mapping's.  Each step of the cache is shown to leave the list that the  *)
(* step of RecencyList leaves, by showing that list to be in order.        *)
(***************************************************************************)

Items(m) == {Item(m, k) : k \in DOMAIN m}

InOrder(s, m) ==
  /\ s \in Seq(Items(m))
  /\ \A i, j \in 1..Len(s) : i < j => m[s[i].key].used_at < m[s[j].key].used_at
  /\ \A k \in DOMAIN m : \E i \in 1..Len(s) : s[i].key = k

LEMMA OrderIsSeq ==
  ASSUME NEW s, NEW m, InOrder(s, m)
  PROVE  /\ Len(s) \in Nat
         /\ s \in [1..Len(s) -> Items(m)]
         /\ \A i \in 1..Len(s) : s[i].key \in DOMAIN m /\ s[i] = Item(m, s[i].key)
<1>1. Len(s) \in Nat /\ s \in [1..Len(s) -> Items(m)]
  BY DEF InOrder
<1>2. ASSUME NEW i \in 1..Len(s) PROVE s[i].key \in DOMAIN m /\ s[i] = Item(m, s[i].key)
  <2>1. PICK k \in DOMAIN m : s[i] = Item(m, k)
    BY <1>1 DEF Items
  <2> QED BY <2>1 DEF Item
<1> QED BY <1>1, <1>2

\* In a list in order of use, the entry at i is one of i used no later.
LEMMA PlaceIsRank ==
  ASSUME NEW s, NEW m, InOrder(s, m), \A k \in DOMAIN m : m[k].used_at \in Nat,
         NEW i \in 1..Len(s)
  PROVE  Cardinality(UsedUpTo(m, s[i].key)) = i
<1> DEFINE upto == UsedUpTo(m, s[i].key)
           f    == [p \in 1..i |-> s[p].key]
<1>1. Len(s) \in Nat /\ i \in Nat /\ \A p \in 1..i : p \in 1..Len(s)
  BY OrderIsSeq
<1>2. \A p, q \in 1..Len(s) : p < q => m[s[p].key].used_at < m[s[q].key].used_at
  BY DEF InOrder
<1>3. \A p \in 1..Len(s) : s[p].key \in DOMAIN m /\ m[s[p].key].used_at \in Nat
  BY OrderIsSeq
<1>4. \A p \in 1..i : f[p] \in upto
  <2>1. ASSUME NEW p \in 1..i PROVE m[s[p].key].used_at <= m[s[i].key].used_at
    <3>1. CASE p = i
      BY <1>3, <3>1
    <3>2. CASE p < i
      BY <1>1, <1>2, <1>3, <3>2
    <3> QED BY <1>1, <3>1, <3>2
  <2> QED BY <1>1, <1>3, <2>1 DEF UsedUpTo
<1>5. \A p, q \in 1..i : f[p] = f[q] => p = q
  <2>1. ASSUME NEW p \in 1..i, NEW q \in 1..i, p < q PROVE s[p].key # s[q].key
    BY <1>1, <1>2, <1>3, <2>1
  <2>2. \A p, q \in 1..i : p = q \/ p < q \/ q < p
    OBVIOUS
  <2> QED BY <2>1, <2>2
<1>6. \A k \in upto : \E p \in 1..i : f[p] = k
  <2>1. ASSUME NEW k \in upto PROVE \E p \in 1..i : s[p].key = k
    <3>1. PICK p \in 1..Len(s) : s[p].key = k
      BY DEF InOrder, UsedUpTo
    <3>2. m[s[p].key].used_at <= m[s[i].key].used_at
      BY <3>1 DEF UsedUpTo
    <3>3. ~(i < p)
      BY <1>2, <1>3, <3>2
    <3> QED BY <1>1, <3>1, <3>3
  <2> QED BY <2>1
<1>7. f \in Bijection(1..i, upto)
  <2>1. f \in [1..i -> upto]
    BY <1>4
  <2> HIDE DEF f, upto
  <2> QED BY <1>5, <1>6, <2>1 DEF Bijection, Injection, Surjection, IsInjective
<1>8. IsFiniteSet(1..i) /\ Cardinality(1..i) = i
  BY <1>1, FS_Interval
<1> QED BY <1>7, <1>8, FS_Bijection DEF ExistsBijection

\* So it is the list the refinement mapping makes.
LEMMA OrderIsByUse ==
  ASSUME NEW s, NEW m, InOrder(s, m), \A k \in DOMAIN m : m[k].used_at \in Nat
  PROVE  /\ ByUse(m) = s
         /\ Len(s) = Cardinality(DOMAIN m)
<1>1. Len(s) \in Nat
  BY OrderIsSeq
<1>2. Len(s) = Cardinality(DOMAIN m)
  <2>1. CASE Len(s) = 0
    <3>1. 1..Len(s) = {}
      BY <2>1
    <3>2. DOMAIN m = {}
      BY <3>1 DEF InOrder
    <3> QED BY <2>1, <3>2, FS_EmptySet
  <2>2. CASE Len(s) > 0
    <3>1. Len(s) \in 1..Len(s)
      BY <1>1, <2>2
    <3>2. \A k \in DOMAIN m : m[k].used_at <= m[s[Len(s)].key].used_at
      <4>1. ASSUME NEW k \in DOMAIN m PROVE m[k].used_at <= m[s[Len(s)].key].used_at
        <5>1. PICK p \in 1..Len(s) : s[p].key = k
          BY DEF InOrder
        <5>2. p = Len(s) \/ p < Len(s)
          BY <1>1
        <5>3. m[s[p].key].used_at \in Nat /\ m[s[Len(s)].key].used_at \in Nat
          BY <3>1, <5>1, OrderIsSeq
        <5>4. p < Len(s) => m[s[p].key].used_at < m[s[Len(s)].key].used_at
          BY <3>1 DEF InOrder
        <5> QED BY <5>1, <5>2, <5>3, <5>4
      <4> QED BY <4>1
    <3>3. UsedUpTo(m, s[Len(s)].key) = DOMAIN m
      BY <3>2 DEF UsedUpTo
    <3> QED BY <3>1, <3>3, PlaceIsRank
  <2> QED BY <1>1, <2>1, <2>2
<1>3. ASSUME NEW i \in 1..Len(s) PROVE Nth(m, i) = s[i].key
  <2>1. s[i].key \in DOMAIN m /\ Cardinality(UsedUpTo(m, s[i].key)) = i
    BY PlaceIsRank, OrderIsSeq
  <2>2. ASSUME NEW k \in DOMAIN m, Cardinality(UsedUpTo(m, k)) = i PROVE k = s[i].key
    <3>1. PICK p \in 1..Len(s) : s[p].key = k
      BY DEF InOrder
    <3>2. Cardinality(UsedUpTo(m, s[p].key)) = p
      BY PlaceIsRank
    <3> QED BY <2>2, <3>1, <3>2
  <2> QED BY <2>1, <2>2 DEF Nth
<1>4. \A i \in 1..Len(s) : s[i] = Item(m, s[i].key)
  BY OrderIsSeq
<1>5. s = [i \in 1..Len(s) |-> Item(m, s[i].key)]
  BY <1>4, OrderIsSeq
<1> QED BY <1>2, <1>3, <1>5 DEF ByUse

\* A choice f of n places of the list, in its order, and what is there.
Rising(f, n) == \A i, j \in 1..n : i < j => f[i] < f[j]
Chosen(s, f, n) == [i \in 1..n |-> s[f[i]]]
KeysAt(s, f, n) == {s[f[i]].key : i \in 1..n}

\* A part of the list, in the list's order, is the order of that part of the map.
LEMMA OrderPart ==
  ASSUME NEW s, NEW m, InOrder(s, m), NEW n \in Nat, NEW f \in [1..n -> 1..Len(s)],
         Rising(f, n),
         NEW m2, \A k \in DOMAIN m2 : m2[k] = m[k], DOMAIN m2 = KeysAt(s, f, n),
         NEW t, t = Chosen(s, f, n)
  PROVE  InOrder(t, m2)
<1>1. \A i \in 1..Len(s) : s[i].key \in DOMAIN m /\ s[i] = Item(m, s[i].key)
  BY OrderIsSeq
<1>2. \A i, j \in 1..Len(s) : i < j => m[s[i].key].used_at < m[s[j].key].used_at
  BY DEF InOrder
<1>3. \A i \in 1..n : t[i] = s[f[i]] /\ f[i] \in 1..Len(s)
  BY DEF Chosen
<1>4. \A i \in 1..n : t[i].key \in DOMAIN m2 /\ m2[t[i].key] = m[t[i].key]
  BY <1>3 DEF KeysAt
<1>5. ASSUME NEW i \in 1..n PROVE t[i] \in Items(m2)
  <2>1. t[i] = Item(m, t[i].key)
    BY <1>1, <1>3
  <2>2. t[i].key \in DOMAIN m2 /\ m2[t[i].key] = m[t[i].key]
    BY <1>4
  <2>3. t[i] = Item(m2, t[i].key)
    BY <2>1, <2>2 DEF Item
  <2> QED BY <2>2, <2>3 DEF Items
<1>6. t \in Seq(Items(m2)) /\ Len(t) = n
  BY <1>5 DEF Chosen
<1>7. ASSUME NEW i \in 1..n, NEW j \in 1..n, i < j
      PROVE  m2[t[i].key].used_at < m2[t[j].key].used_at
  <2>1. f[i] \in 1..Len(s) /\ f[j] \in 1..Len(s) /\ f[i] < f[j]
    BY <1>7 DEF Rising
  <2>2. m[s[f[i]].key].used_at < m[s[f[j]].key].used_at
    BY <1>2, <2>1
  <2> QED BY <1>3, <1>4, <2>2
<1>8. \A k \in DOMAIN m2 : \E i \in 1..n : t[i].key = k
  BY <1>3 DEF KeysAt
<1> QED BY <1>6, <1>7, <1>8 DEF InOrder

LEMMA KeysDiffer ==
  ASSUME NEW s, NEW m, InOrder(s, m), \A k \in DOMAIN m : m[k].used_at \in Nat,
         NEW i \in 1..Len(s), NEW j \in 1..Len(s), s[i].key = s[j].key
  PROVE  i = j
BY PlaceIsRank

Cut(s, p) == [i \in 1..(Len(s) - 1) |-> IF i < p THEN s[i] ELSE s[i + 1]]

\* An entry taken out of the list and of the map.
LEMMA OrderWithout ==
  ASSUME NEW s, NEW m, InOrder(s, m), \A k \in DOMAIN m : m[k].used_at \in Nat,
         NEW p \in 1..Len(s),
         NEW m2, DOMAIN m2 = DOMAIN m \ {s[p].key}, \A k \in DOMAIN m2 : m2[k] = m[k],
         NEW t, t = Cut(s, p)
  PROVE  InOrder(t, m2)
<1> DEFINE n == Len(s) - 1
           f == [i \in 1..n |-> IF i < p THEN i ELSE i + 1]
<1>1. Len(s) \in Nat
  BY OrderIsSeq
<1>2. n \in Nat /\ p \in Nat /\ f \in [1..n -> 1..Len(s)]
  BY <1>1
<1>3. Rising(f, n)
  BY <1>1 DEF Rising
<1>4. \A i \in 1..n : f[i] # p
  BY <1>1
<1>5. ASSUME NEW q \in 1..Len(s), q # p PROVE \E i \in 1..n : f[i] = q
  <2>1. CASE q < p
    <3>1. q \in 1..n /\ f[q] = q
      BY <1>1, <2>1
    <3> QED BY <3>1
  <2>2. CASE q > p
    <3>1. q - 1 \in 1..n /\ ~(q - 1 < p) /\ (q - 1) + 1 = q
      BY <1>1, <2>2
    <3>2. f[q - 1] = q
      BY <3>1
    <3> QED BY <3>1, <3>2
  <2> QED BY <1>1, <1>5, <2>1, <2>2
<1>6. [i \in 1..n |-> IF i < p THEN s[i] ELSE s[i + 1]] = [i \in 1..n |-> s[f[i]]]
  OBVIOUS
<1> HIDE DEF n, f
<1>7. ASSUME NEW k \in DOMAIN m2 PROVE \E i \in 1..n : s[f[i]].key = k
  <2>0. \A j \in DOMAIN m : \E q \in 1..Len(s) : s[q].key = j
    BY DEF InOrder
  <2>1. PICK q \in 1..Len(s) : s[q].key = k
    BY <2>0
  <2>2. q # p
    BY <2>1
  <2> QED BY <1>5, <2>1, <2>2
<1>8. ASSUME NEW i \in 1..n PROVE s[f[i]].key \in DOMAIN m2
  <2>1. f[i] \in 1..Len(s) /\ f[i] # p
    BY <1>2, <1>4
  <2>2. s[f[i]].key # s[p].key
    BY <2>1, KeysDiffer
  <2>3. s[f[i]].key \in DOMAIN m
    BY <2>1, OrderIsSeq
  <2> QED BY <2>2, <2>3
<1>9. DOMAIN m2 = KeysAt(s, f, n)
  BY <1>7, <1>8 DEF KeysAt
<1>10. t = Chosen(s, f, n)
  BY <1>6 DEF n, Chosen, Cut
<1> QED BY <1>2, <1>3, <1>9, <1>10, OrderPart

\* An entry used after all others comes last.
LEMMA OrderAppend ==
  ASSUME NEW s, NEW m, InOrder(s, m),
         NEW k, k \notin DOMAIN m,
         NEW m2, DOMAIN m2 = DOMAIN m \cup {k}, \A j \in DOMAIN m : m2[j] = m[j],
         \A j \in DOMAIN m : m[j].used_at < m2[k].used_at,
         NEW e, e = Item(m2, k)
  PROVE  InOrder(Append(s, e), m2)
<1> DEFINE l == Len(s)
           n == l + 1
           t == Append(s, e)
<1>1. l \in Nat /\ s \in [1..l -> Items(m)] /\ s \in Seq(Items(m))
  BY OrderIsSeq DEF InOrder
<1>2. \A i \in 1..l : s[i].key \in DOMAIN m /\ s[i] = Item(m, s[i].key)
  BY OrderIsSeq
<1>3. \A i, j \in 1..l : i < j => m[s[i].key].used_at < m[s[j].key].used_at
  BY DEF InOrder
<1>4. \A j \in DOMAIN m : \E i \in 1..l : s[i].key = j
  BY DEF InOrder
<1>5. Items(m) \subseteq Items(m2) /\ e \in Items(m2)
  BY DEF Items, Item
<1>6. e.key = k
  BY DEF Item
<1>7. s \in Seq(Items(m2))
  BY <1>1, <1>5
<1>8. t \in Seq(Items(m2)) /\ Len(t) = n /\ t[n] = e
  BY <1>5, <1>7
<1>9. \A i \in 1..l : t[i] = s[i]
  BY <1>7
<1>10. \A i \in 1..n : i \in 1..l \/ i = n
  BY <1>1
<1>11. n \in 1..n /\ \A i \in 1..l : i \in 1..n
  BY <1>1
<1>12. \A i, j \in 1..n : i < j => i \in 1..l
  BY <1>1
<1> HIDE DEF t, l, n
<1>13. \A i \in 1..l : m2[t[i].key] = m[s[i].key] /\ t[i].key \in DOMAIN m
  BY <1>2, <1>9
<1>14. \A i, j \in 1..n : i < j => m2[t[i].key].used_at < m2[t[j].key].used_at
  <2>1. \A i \in 1..l : m2[t[i].key].used_at < m2[t[n].key].used_at
    BY <1>2, <1>6, <1>8, <1>13
  <2>2. \A i, j \in 1..l : i < j => m2[t[i].key].used_at < m2[t[j].key].used_at
    BY <1>3, <1>13
  <2> QED BY <1>10, <1>12, <2>1, <2>2
<1>15. \A j \in DOMAIN m2 : \E i \in 1..n : t[i].key = j
  <2>1. ASSUME NEW j \in DOMAIN m PROVE \E i \in 1..n : t[i].key = j
    BY <1>4, <1>9, <1>11
  <2> QED BY <1>6, <1>8, <1>11, <2>1
<1>16. InOrder(t, m2)
  BY <1>8, <1>14, <1>15 DEF InOrder
<1> QED BY <1>16 DEF t

\* The list past its first n entries.
LEMMA OrderDropped ==
  ASSUME NEW s, NEW m, InOrder(s, m), NEW n \in Nat, n <= Len(s),
         NEW m2, \A k \in DOMAIN m2 : m2[k] = m[k],
         DOMAIN m2 = {s[i].key : i \in (n + 1)..Len(s)}
  PROVE  InOrder(SubSeq(s, n + 1, Len(s)), m2)
<1> DEFINE l == Len(s) - n
           f == [i \in 1..l |-> i + n]
           t == SubSeq(s, n + 1, Len(s))
<1>1. Len(s) \in Nat /\ s \in Seq(Items(m))
  BY OrderIsSeq DEF InOrder
<1>2. l \in Nat /\ f \in [1..l -> 1..Len(s)] /\ Rising(f, l)
  BY <1>1 DEF Rising
<1>3. t = [i \in 1..l |-> s[i + n]]
  BY <1>1
<1>4. t = Chosen(s, f, l)
  BY <1>3 DEF Chosen
<1>5. DOMAIN m2 = KeysAt(s, f, l)
  <2>1. \A i \in (n + 1)..Len(s) : i - n \in 1..l /\ f[i - n] = i
    BY <1>1
  <2>2. \A i \in 1..l : f[i] \in (n + 1)..Len(s)
    BY <1>1
  <2>3. ASSUME NEW k \in DOMAIN m2 PROVE k \in KeysAt(s, f, l)
    <3>1. PICK i \in (n + 1)..Len(s) : s[i].key = k
      OBVIOUS
    <3> QED BY <2>1, <3>1 DEF KeysAt
  <2>4. ASSUME NEW k \in KeysAt(s, f, l) PROVE k \in DOMAIN m2
    <3>1. PICK i \in 1..l : s[f[i]].key = k
      BY DEF KeysAt
    <3> QED BY <2>2, <3>1
  <2> QED BY <2>3, <2>4
<1> HIDE DEF f, l, t
<1>6. InOrder(t, m2)
  BY <1>2, <1>4, <1>5, OrderPart
<1> QED BY <1>6 DEF t

-----------------------------------------------------------------------------
Listed == InOrder(ByUse(map), map)

LEMMA AgesAreNumbers ==
  ASSUME TypeOK
  PROVE  \A k \in DOMAIN map : map[k].used_at \in Nat /\ map[k].stored_at \in Nat
BY DEF TypeOK, Entry

\* What the abstract cache reads of its list.
LEMMA ListReads ==
  ASSUME IInv, Listed, ~poisoned, NEW k
  PROVE  /\ Abstract!Has(k) <=> k \in DOMAIN map
         /\ Abstract!Has(k) => Abstract!Of(k) = Item(map, k)
         /\ InOrder(Abstract!Without(k), Restricted(map, DOMAIN map \ {k}))
<1> DEFINE s == ByUse(map)
           rest == Restricted(map, DOMAIN map \ {k})
<1>1. InOrder(s, map) /\ \A j \in DOMAIN map : map[j].used_at \in Nat
  BY AgesAreNumbers DEF Listed, IInv
<1>2. \A i \in 1..Len(s) : s[i].key \in DOMAIN map /\ s[i] = Item(map, s[i].key)
  BY <1>1, OrderIsSeq
<1>3. \A j \in DOMAIN map : \E i \in 1..Len(s) : s[i].key = j
  BY <1>1 DEF InOrder
<1>4. /\ Abstract!Has(k) <=> \E i \in 1..Len(s) : s[i].key = k
      /\ Abstract!At(k) = CHOOSE i \in 1..Len(s) : s[i].key = k
      /\ Abstract!Of(k) = s[Abstract!At(k)]
      /\ Abstract!Without(k) =
           IF Abstract!Has(k)
           THEN [i \in 1..(Len(s) - 1) |-> IF i < Abstract!At(k) THEN s[i] ELSE s[i + 1]]
           ELSE s
  BY DEF Abstract!Has, Abstract!At, Abstract!Of, Abstract!Without
<1> HIDE DEF s
<1>5. Abstract!Has(k) <=> k \in DOMAIN map
  BY <1>2, <1>3, <1>4
<1>6. CASE Abstract!Has(k)
  <2> DEFINE p == Abstract!At(k)
  <2>1. p \in 1..Len(s) /\ s[p].key = k
    BY <1>4, <1>6
  <2>2. Abstract!Of(k) = Item(map, k)
    BY <1>2, <1>4, <2>1
  <2>3. Abstract!Without(k) = Cut(s, p)
    BY <1>4, <1>6 DEF Cut
  <2>4. DOMAIN rest = DOMAIN map \ {s[p].key} /\ \A j \in DOMAIN rest : rest[j] = map[j]
    BY <2>1 DEF Restricted
  <2> HIDE DEF p, rest
  <2>5. InOrder(Abstract!Without(k), rest)
    BY <1>1, <2>1, <2>3, <2>4, OrderWithout
  <2> QED BY <1>5, <2>2, <2>5 DEF rest
<1>7. CASE ~Abstract!Has(k)
  <2>1. rest = map
    BY <1>5, <1>7 DEF Restricted, IInv, TypeOK
  <2> QED BY <1>1, <1>4, <1>5, <1>7, <2>1
<1> QED BY <1>6, <1>7

LEMMA NextList ==
  ASSUME TypeOK', NEW t, InOrder(t, map')
  PROVE  ByUse(map') = t /\ Listed'
<1>1. \A k \in DOMAIN map' : map'[k].used_at \in Nat
  BY DEF TypeOK, Entry
<1>2. ByUse(map') = t
  BY <1>1, OrderIsByUse
<1> QED BY <1>2 DEF Listed

LEMMA HitIsLookup ==
  ASSUME IInv, Listed, NEW k \in Keys, GetHit(k)
  PROVE  Abstract!Lookup(k) /\ Listed'
<1> DEFINE rest == Restricted(map, DOMAIN map \ {k})
           left == Abstract!Without(k)
<1>1. ~poisoned /\ ~poisoned' /\ k \in DOMAIN map /\ ~Expired(k) /\ Searched(k) = map
  BY DEF GetHit, Searched, Restricted
<1>2. IInv'
  BY GetIInv
<1>3. /\ Abstract!Has(k) /\ Abstract!Of(k) = Item(map, k)
      /\ InOrder(left, rest)
  BY <1>1, ListReads
<1>4. map' = [map EXCEPT ![k] = [@ EXCEPT !.used_at = clock + 1]]
  BY <1>1 DEF GetHit, Touch
<1>5. map \in [DOMAIN map -> Entry] /\ clock \in Nat /\ map[k] \in Entry
  BY <1>1 DEF IInv, TypeOK
<1>6. /\ DOMAIN map' = DOMAIN map
      /\ map'[k] = [map[k] EXCEPT !.used_at = clock + 1]
      /\ \A j \in DOMAIN map : j # k => map'[j] = map[j]
  BY <1>1, <1>4, <1>5
<1>7. /\ k \notin DOMAIN rest /\ DOMAIN map' = DOMAIN rest \cup {k}
      /\ \A j \in DOMAIN rest : map'[j] = rest[j] /\ rest[j] = map[j]
  BY <1>1, <1>6 DEF Restricted
<1>8. map'[k].used_at = clock + 1 /\ Item(map', k) = Item(map, k)
  BY <1>5, <1>6 DEF Entry, Item
<1>9. \A j \in DOMAIN rest : rest[j].used_at < map'[k].used_at
  <2> SUFFICES ASSUME NEW j \in DOMAIN rest PROVE rest[j].used_at < map'[k].used_at
    OBVIOUS
  <2>1. j \in DOMAIN map /\ rest[j].used_at = map[j].used_at
    BY <1>7 DEF Restricted
  <2>2. map[j].used_at <= clock /\ map[j].used_at \in Nat
    BY <2>1, AgesAreNumbers DEF IInv, DistinctAges
  <2>3. map[j].used_at < clock + 1
    BY <1>5, <2>2
  <2> QED BY <1>8, <2>1, <2>3
<1> HIDE DEF rest
<1>10. InOrder(Append(left, Item(map, k)), map')
  BY <1>3, <1>7, <1>8, <1>9, OrderAppend
<1>11. ByUse(map') = Append(left, Item(map, k)) /\ Listed'
  BY <1>2, <1>10, NextList DEF IInv
<1>12. Abstract!Live(k)
  <2>1. ttl # NoTtl => ~(now - map[k].stored_at >= ttl) /\ ttl \in Nat
    BY <1>1, TtlAssumption DEF Expired, IInv, TypeOK
  <2>2. map[k].stored_at \in Nat /\ now \in Nat
    BY <1>1, AgesAreNumbers DEF IInv, TypeOK
  <2>3. Abstract!Of(k).stored_at = map[k].stored_at
    BY <1>3 DEF Item
  <2> QED BY <1>3, <2>1, <2>2, <2>3 DEF Abstract!Live
<1>13. reply' = <<k, Abstract!Of(k).value>>
  BY <1>3 DEF GetHit, Item
<1>14. UNCHANGED <<Abstract!fixed, poisoned, now>>
  BY DEF GetHit, Abstract!fixed, drop_count
<1> HIDE DEF left
<1>15. (IF poisoned THEN <<>> ELSE ByUse(map))' = Append(left, Abstract!Of(k))
  BY <1>1, <1>3, <1>11
<1> QED BY <1>11, <1>12, <1>13, <1>14, <1>15 DEF Abstract!Lookup, left

LEMMA MissIsLookup ==
  ASSUME IInv, Listed, NEW k \in Keys, GetMiss(k)
  PROVE  Abstract!Lookup(k) /\ Listed'
<1> DEFINE rest == Restricted(map, DOMAIN map \ {k})
<1>1. ~poisoned /\ ~poisoned' /\ map' = Searched(k) /\ k \notin DOMAIN map'
  BY DEF GetMiss
<1>2. IInv'
  BY GetIInv
<1>3. /\ Abstract!Has(k) <=> k \in DOMAIN map
      /\ Abstract!Has(k) => Abstract!Of(k) = Item(map, k)
      /\ InOrder(Abstract!Without(k), rest)
  BY <1>1, ListReads
<1>4. map' = rest
  BY <1>1 DEF Searched, Restricted, IInv, TypeOK
<1>5. ByUse(map') = Abstract!Without(k) /\ Listed'
  BY <1>2, <1>3, <1>4, NextList DEF IInv
<1>6. ~Abstract!Live(k)
  <2>1. CASE k \in DOMAIN map
    <3>1. ttl # NoTtl /\ now - map[k].stored_at >= ttl
      BY <1>1, <2>1 DEF Searched, Expired
    <3>2. map[k].stored_at \in Nat /\ now \in Nat /\ ttl \in Nat
      BY <2>1, <3>1, AgesAreNumbers DEF IInv, TypeOK
    <3>3. Abstract!Of(k).stored_at = map[k].stored_at
      BY <1>3, <2>1 DEF Item
    <3> QED BY <3>1, <3>2, <3>3 DEF Abstract!Live
  <2>2. CASE k \notin DOMAIN map
    BY <1>3, <2>2 DEF Abstract!Live
  <2> QED BY <2>1, <2>2
<1>7. UNCHANGED <<Abstract!fixed, poisoned, now>> /\ reply' = <<k, Absent>>
  BY DEF GetMiss, Abstract!fixed, drop_count
<1>8. (IF poisoned THEN <<>> ELSE ByUse(map))' = Abstract!Without(k)
  BY <1>1, <1>5
<1> QED BY <1>5, <1>6, <1>7, <1>8 DEF Abstract!Lookup

\* The pass leaves the list past its first batch.
LEMMA EvictedIsRoom ==
  ASSUME IInv, Listed, ~poisoned, Cardinality(DOMAIN map) >= capacity,
         NEW kept \in SUBSET DOMAIN map, evict_batch(kept)
  PROVE  InOrder(Abstract!Room, Restricted(map, kept))
<1> DEFINE s == ByUse(map)
           d == drop_count
<1>1. InOrder(s, map) /\ \A k \in DOMAIN map : map[k].used_at \in Nat
  BY AgesAreNumbers DEF Listed, IInv
<1>2. Len(s) = Cardinality(DOMAIN map) /\ Len(s) \in Nat
  BY <1>1, OrderIsByUse, OrderIsSeq
<1>3. d \in Nat /\ 1 <= d /\ capacity \in Nat
  BY BatchSize DEF IInv
<1>4. Abstract!Room = IF d >= Len(s) THEN <<>> ELSE SubSeq(s, d + 1, Len(s))
  BY <1>2, <1>3 DEF Abstract!Room
<1>5. \A k \in DOMAIN Restricted(map, kept) : Restricted(map, kept)[k] = map[k]
  BY DEF Restricted
<1>6. DOMAIN Restricted(map, kept) = kept
  BY DEF Restricted
<1> HIDE DEF s, d
<1>7. CASE d >= Len(s)
  <2>1. kept = {}
    BY <1>2, <1>7 DEF evict_batch, d
  <2>2. InOrder(<<>>, Restricted(map, kept))
    BY <1>6, <2>1 DEF InOrder
  <2> QED BY <1>4, <1>7, <2>2
<1>8. CASE ~(d >= Len(s))
  <2>1. PICK cutoff \in {map[k].used_at : k \in DOMAIN map} :
          IsNthAge(cutoff, d) /\ kept = {k \in DOMAIN map : map[k].used_at >= cutoff}
    BY <1>2, <1>8 DEF evict_batch, d
  <2>2. PICK at \in DOMAIN map : map[at].used_at = cutoff
    BY <2>1
  <2>3. PICK p \in 1..Len(s) : s[p].key = at
    BY <1>1 DEF InOrder
  <2> DEFINE below == {k \in DOMAIN map : map[k].used_at < cutoff}
  <2>4. Cardinality(below) = d
    BY <1>3, <2>1, CutIsExact DEF IInv
  <2>5. UsedUpTo(map, at) = below \cup {at} /\ at \notin below
    BY <1>1, <2>2 DEF UsedUpTo, IInv, DistinctAges
  <2>6. below \in SUBSET DOMAIN map
    OBVIOUS
  <2> HIDE DEF below
  <2>7. IsFiniteSet(below)
    BY <2>6, FS_Subset DEF IInv
  <2>8. Cardinality(UsedUpTo(map, at)) = d + 1
    BY <2>4, <2>5, <2>7, FS_AddElement
  <2>9. p = d + 1
    BY <1>1, <2>3, <2>8, PlaceIsRank
  <2>10. \A i \in 1..Len(s) : map[s[i].key].used_at >= cutoff <=> i >= p
    <3> SUFFICES ASSUME NEW i \in 1..Len(s)
                 PROVE  map[s[i].key].used_at >= cutoff <=> i >= p
      OBVIOUS
    <3>1. map[s[p].key].used_at = cutoff /\ cutoff \in Nat
      BY <1>1, <2>2, <2>3
    <3>2. map[s[i].key].used_at \in Nat
      BY <1>1, OrderIsSeq
    <3>3. i < p => map[s[i].key].used_at < cutoff
      BY <1>1, <3>1 DEF InOrder
    <3>4. p < i => cutoff < map[s[i].key].used_at
      BY <1>1, <3>1 DEF InOrder
    <3>5. i < p \/ i = p \/ p < i
      BY <1>2
    <3> QED BY <1>2, <3>1, <3>2, <3>3, <3>4, <3>5
  <2>11. kept = {s[i].key : i \in (d + 1)..Len(s)}
    <3>1. ASSUME NEW k \in kept PROVE \E i \in (d + 1)..Len(s) : s[i].key = k
      <4>1. PICK i \in 1..Len(s) : s[i].key = k
        BY <1>1 DEF InOrder
      <4>2. i >= d + 1
        BY <2>1, <2>9, <2>10, <4>1
      <4> QED BY <1>2, <1>3, <4>1, <4>2
    <3>2. ASSUME NEW i \in (d + 1)..Len(s) PROVE s[i].key \in kept
      <4>1. i \in 1..Len(s) /\ i >= d + 1
        BY <1>2, <1>3
      <4>2. s[i].key \in DOMAIN map
        BY <1>1, <4>1, OrderIsSeq
      <4> QED BY <2>1, <2>9, <2>10, <4>1, <4>2
    <3> QED BY <3>1, <3>2
  <2> DEFINE m2 == Restricted(map, kept)
  <2>12. DOMAIN m2 = {s[i].key : i \in (d + 1)..Len(s)} /\ \A k \in DOMAIN m2 : m2[k] = map[k]
    BY <1>5, <1>6, <2>11
  <2>13. d <= Len(s)
    BY <1>2, <1>3, <1>8
  <2> HIDE DEF m2
  <2>14. InOrder(SubSeq(s, d + 1, Len(s)), m2)
    BY <1>1, <1>3, <2>12, <2>13, OrderDropped
  <2> QED BY <1>4, <1>8, <2>14 DEF m2
<1> QED BY <1>7, <1>8

\* The entry an insert stores, as the list has it.
Stored(k, v) == [key |-> k, value |-> v, stored_at |-> now]

\* Storing after what is kept puts the entry last.
LEMMA StoreIsLast ==
  ASSUME IInv, NEW k \in Keys, NEW v \in Values, insert(k, v), IInv',
         NEW kept \in SUBSET (DOMAIN map \ {k}),
         DOMAIN map' = kept \cup {k},
         map'[k] = NewEntry(v), \A j \in kept : map'[j] = map[j],
         NEW t, InOrder(t, Restricted(map, kept))
  PROVE  ByUse(map') = Append(t, Stored(k, v)) /\ Listed'
<1> DEFINE m == Restricted(map, kept)
<1>1. DOMAIN m = kept /\ k \notin DOMAIN m /\ \A j \in DOMAIN m : m[j] = map[j]
  BY DEF Restricted
<1>2. map'[k].used_at = clock + 1 /\ Item(map', k) = Stored(k, v)
  BY DEF NewEntry, Item, Stored
<1>3. \A j \in DOMAIN m : m[j].used_at < map'[k].used_at
  <2> SUFFICES ASSUME NEW j \in DOMAIN m PROVE m[j].used_at < map'[k].used_at
    OBVIOUS
  <2>1. j \in DOMAIN map /\ m[j].used_at = map[j].used_at
    BY <1>1
  <2>2. map[j].used_at <= clock /\ map[j].used_at \in Nat /\ clock \in Nat
    BY <2>1, AgesAreNumbers DEF IInv, TypeOK, DistinctAges
  <2>3. map[j].used_at < clock + 1
    BY <2>2
  <2> QED BY <1>2, <2>1, <2>3
<1>4. DOMAIN map' = DOMAIN m \cup {k} /\ \A j \in DOMAIN m : map'[j] = m[j]
  BY <1>1
<1> HIDE DEF m
<1>5. InOrder(t, m)
  BY DEF m
<1>6. InOrder(Append(t, Stored(k, v)), map')
  BY <1>1, <1>2, <1>3, <1>4, <1>5, OrderAppend
<1> QED BY <1>6, NextList DEF IInv

LEMMA InsertIsPut ==
  ASSUME IInv, Listed, NEW k \in Keys, NEW v \in Values, insert(k, v)
  PROVE  Abstract!Put(k, v) /\ Listed'
<1>1. ~poisoned /\ ~poisoned' /\ IInv'
  BY InsertIInv DEF insert
<1>2. /\ Abstract!Has(k) <=> k \in DOMAIN map
      /\ InOrder(Abstract!Without(k), Restricted(map, DOMAIN map \ {k}))
  BY <1>1, ListReads
<1> DEFINE left == IF Abstract!Has(k) THEN Abstract!Without(k) ELSE Abstract!Room
<1>3. ByUse(map') = Append(left, Stored(k, v)) /\ Listed'
  <2>1. CASE MustEvict(k)
    <3>1. PICK kept \in SUBSET DOMAIN map : evict_batch(kept) /\ Store(kept, k, v)
      BY <2>1 DEF insert
    <3>2. InOrder(Abstract!Room, Restricted(map, kept))
      BY <1>1, <2>1, <3>1, EvictedIsRoom DEF MustEvict
    <3>3. left = Abstract!Room /\ kept \in SUBSET (DOMAIN map \ {k})
      BY <1>2, <2>1 DEF MustEvict
    <3>4. DOMAIN map' = kept \cup {k} /\ map'[k] = NewEntry(v) /\ \A j \in kept : map'[j] = map[j]
      BY <3>1, <3>3 DEF Store
    <3> HIDE DEF left
    <3> QED BY <1>1, <3>2, <3>3, <3>4, StoreIsLast
  <2>2. CASE k \in DOMAIN map
    <3> DEFINE kept == DOMAIN map \ {k}
    <3>1. Store(DOMAIN map, k, v)
      BY <2>2 DEF insert, MustEvict
    <3>2. DOMAIN map' = kept \cup {k} /\ map'[k] = NewEntry(v) /\ \A j \in kept : map'[j] = map[j]
      BY <2>2, <3>1 DEF Store
    <3>3. left = Abstract!Without(k) /\ InOrder(left, Restricted(map, kept))
      BY <1>2, <2>2
    <3>4. kept \in SUBSET (DOMAIN map \ {k})
      OBVIOUS
    <3> HIDE DEF left, kept
    <3> QED BY <1>1, <3>2, <3>3, <3>4, StoreIsLast
  <2>3. CASE k \notin DOMAIN map /\ ~MustEvict(k)
    <3>1. Store(DOMAIN map, k, v)
      BY <2>3 DEF insert
    <3>2. DOMAIN map' = DOMAIN map \cup {k} /\ map'[k] = NewEntry(v)
          /\ \A j \in DOMAIN map : map'[j] = map[j]
      BY <2>3, <3>1 DEF Store
    <3>3. Len(ByUse(map)) = Cardinality(DOMAIN map)
      BY AgesAreNumbers, OrderIsByUse DEF IInv, Listed
    <3>4. Abstract!Room = ByUse(map)
      BY <1>1, <2>3, <3>3 DEF Abstract!Room, MustEvict, IInv, Bounded, TypeOK
    <3>5. Restricted(map, DOMAIN map) = map
      BY DEF Restricted, IInv, TypeOK
    <3>6. InOrder(left, Restricted(map, DOMAIN map))
      BY <1>2, <2>3, <3>4, <3>5 DEF Listed
    <3>7. DOMAIN map \in SUBSET (DOMAIN map \ {k})
      BY <2>3
    <3> HIDE DEF left
    <3> QED BY <1>1, <3>2, <3>6, <3>7, StoreIsLast
  <2> QED BY <2>1, <2>2, <2>3
<1>4. UNCHANGED <<Abstract!fixed, poisoned, now>> /\ reply' = <<k, v>>
  BY DEF insert, Abstract!fixed, drop_count
<1>5. (IF poisoned THEN <<>> ELSE ByUse(map))' = Append(left, Stored(k, v))
  BY <1>1, <1>3
<1> QED BY <1>1, <1>3, <1>4, <1>5 DEF Abstract!Put, Stored

\* A broken cache finds nothing and keeps nothing, and so does an empty list.
LEMMA OtherSteps ==
  ASSUME IInv, Listed,
         \/ \E k \in Keys : PoisonedGet(k)
         \/ \E k \in Keys, v \in Values : PoisonedInsert(k, v)
         \/ Poison
         \/ Tick
         \/ UNCHANGED vars
  PROVE  [Abstract!Next]_(Abstract!vars) /\ Listed'
<1>1. UNCHANGED <<map, capacity, ttl>>
  BY DEF PoisonedGet, PoisonedInsert, Poison, Tick, vars
<1>2. Listed' /\ UNCHANGED Abstract!fixed /\ UNCHANGED ByUse(map)
  BY <1>1 DEF Listed, Abstract!fixed, drop_count
<1>3. ASSUME NEW k \in Keys, PoisonedGet(k) PROVE Abstract!Lookup(k)
  <2>1. poisoned /\ poisoned' /\ reply' = <<k, Absent>> /\ UNCHANGED <<poisoned, now>>
    BY <1>3 DEF PoisonedGet
  <2>2. ~Abstract!Has(k)
    BY <2>1 DEF Abstract!Has
  <2>3. Abstract!Without(k) = <<>> /\ ~Abstract!Live(k)
    BY <2>1, <2>2 DEF Abstract!Without, Abstract!Live
  <2> QED BY <1>2, <2>1, <2>3 DEF Abstract!Lookup
<1>4. ASSUME NEW k \in Keys, NEW v \in Values, PoisonedInsert(k, v) PROVE Abstract!Put(k, v)
  BY <1>2, <1>4 DEF PoisonedInsert, Abstract!Put
<1>5. CASE Poison
  BY <1>2, <1>5 DEF Poison, Abstract!Break, Abstract!Next
<1>6. CASE Tick
  BY <1>2, <1>6 DEF Tick, Abstract!Pass, Abstract!Next
<1>7. CASE UNCHANGED vars
  BY <1>2, <1>7 DEF vars, Abstract!vars
<1> QED BY <1>2, <1>3, <1>4, <1>5, <1>6, <1>7 DEF Abstract!Next

LEMMA InitIsEmptyList == Init => Abstract!Init /\ Listed
<1> SUFFICES ASSUME Init PROVE Abstract!Init /\ Listed
  OBVIOUS
<1>1. DOMAIN map = {} /\ ~poisoned /\ now = 0 /\ reply = Absent
  BY DEF Init
<1>2. ByUse(map) = <<>>
  BY <1>1, FS_EmptySet DEF ByUse
<1>3. Listed
  BY <1>1, <1>2 DEF Listed, InOrder
<1>4. capacity \in Nat \ {0} /\ drop_count \in 1..capacity /\ ttl \in Nat \cup {NoTtl}
  BY InitIInv, BatchSize DEF IInv, TypeOK
<1> QED BY <1>1, <1>2, <1>3, <1>4 DEF Abstract!Init

\* The clock, the ages and the cut-off of cache.rs are a plain recency list:
\* each lookup, insert, expiry, eviction and poisoning is a step of the list.
THEOREM CacheIsRecencyList == Spec => ImplementsRecencyList
<1>1. IInv /\ Listed /\ [Next]_vars => [Abstract!Next]_(Abstract!vars) /\ Listed'
  <2> SUFFICES ASSUME IInv, Listed, [Next]_vars
               PROVE  [Abstract!Next]_(Abstract!vars) /\ Listed'
    OBVIOUS
  <2>1. ASSUME NEW k \in Keys, GetHit(k) \/ GetMiss(k)
        PROVE  Abstract!Lookup(k) /\ Listed'
    BY <2>1, HitIsLookup, MissIsLookup
  <2>2. ASSUME NEW k \in Keys, NEW v \in Values, insert(k, v)
        PROVE  Abstract!Put(k, v) /\ Listed'
    BY <2>2, InsertIsPut
  <2> QED BY <2>1, <2>2, OtherSteps DEF Next, get, Abstract!Next
<1> QED BY <1>1, InitIsEmptyList, InitIInv, NextIInv, PTL
        DEF Spec, ImplementsRecencyList, Abstract!Spec

-----------------------------------------------------------------------------
(***************************************************************************)
(* Rings.  What is cached or held for a batch is kept under the key that   *)
(* the output itself has (Keyed), because an answer is paired with what was*)
(* asked by position and a short answer is refused.  A batch knows, or has *)
(* asked for, every member of every ring (BatchOut), so that it needs the  *)
(* cache no more; and each input by itself is still out or settled rightly *)
(* (EachOut).                                                              *)
(***************************************************************************)
USE InputAssumption

Keyed(known) == \A k \in DOMAIN known : known[k].key = k

AllMembers(inputs) == UNION {Members(inputs[i]) : i \in DOMAIN inputs}

\* A ring given up or whole, each member the one its offset names; and given up
\* only for a reason.
Right(input, got) ==
  /\ got.at = "resolved" /\ got.ring_unavailable \in BOOLEAN
  /\ IF got.ring_unavailable
     THEN got.ring = <<>>
     ELSE /\ Summable(input)
          /\ Len(got.ring) = Len(input.key_offsets)
          /\ \A m \in DOMAIN got.ring :
               got.ring[m].out.key = <<input.amount, Totals(input.key_offsets)[m]>>

Owed(input, got, heldAt, faulted) ==
  Summable(input) /\ Members(input) \subseteq heldAt /\ ~faulted => ~got.ring_unavailable

\* The batch is out: with what is known already it covers every ring.
BatchOut(q) ==
  /\ q.inputs \in Seq(KeyInput) /\ CanBatch(q.inputs)
  /\ q.wanted \in Seq(AllMembers(q.inputs)) /\ q.wanted # <<>>
  /\ Keyed(q.known)
  /\ \A i \in DOMAIN q.inputs : Members(q.inputs[i]) \subseteq DOMAIN q.known \cup ToSet(q.wanted)

\* Each input by itself: still out, or resolved.
EachOut(q) ==
  /\ q.inputs \in Seq(KeyInput) /\ q.faulted \in BOOLEAN
  /\ q.results = [i \in DOMAIN q.inputs |-> q.results[i]]
  /\ \A i \in DOMAIN q.inputs :
       \/ /\ q.results[i] = Pending
          /\ Summable(q.inputs[i]) /\ q.inputs[i].key_offsets # <<>>
       \/ /\ Right(q.inputs[i], q.results[i])
          /\ Owed(q.inputs[i], q.results[i], q.heldAt, q.faulted)
  /\ q.at = "done" => \A i \in DOMAIN q.inputs : q.results[i] # Pending

RequestOK(q) ==
  /\ q.at \in {"idle", "together", "alone", "done"}
  /\ q.at = "together" => BatchOut(q)
  /\ q.at \in {"alone", "done"} => EachOut(q)

\* What the daemon held when it was asked it holds still.
Since(q) == q.at \in {"together", "alone", "done"} => q.heldAt \subseteq DOMAIN held

RingIInv ==
  /\ held = [k \in DOMAIN held |-> [key |-> k, branch |-> held[k].branch]]
  /\ Keyed(outs)
  /\ req = [r \in Requests |-> req[r]]
  /\ \A r \in Requests : RequestOK(req[r]) /\ Since(req[r])

-----------------------------------------------------------------------------
LEMMA RingMembers ==
  ASSUME NEW input \in KeyInput
  PROVE  /\ Len(input.key_offsets) \in Nat
         /\ ring_members(input) \in Seq(Members(input))
         /\ Len(ring_members(input)) = Len(input.key_offsets)
         /\ \A m \in 1..Len(input.key_offsets) :
              /\ ring_members(input)[m] = <<input.amount, Totals(input.key_offsets)[m]>>
              /\ ring_members(input)[m] \in Members(input)
<1>1. Len(input.key_offsets) \in Nat
  BY DEF KeyInput
<1> DEFINE s == ring_members(input)
<1>2. s = [i \in 1..Len(input.key_offsets) |-> <<input.amount, Totals(input.key_offsets)[i]>>]
  BY DEF ring_members
<1>3. DOMAIN s = 1..Len(input.key_offsets)
  BY <1>2
<1>4. Members(input) = {s[i] : i \in DOMAIN s}
  BY DEF Members, ToSet
<1>5. s \in [1..Len(input.key_offsets) -> Members(input)]
  BY <1>2, <1>3, <1>4
<1>6. \A m \in 1..Len(input.key_offsets) :
              /\ s[m] = <<input.amount, Totals(input.key_offsets)[m]>>
              /\ s[m] \in Members(input)
  BY <1>2, <1>3, <1>4
<1> HIDE DEF s
<1>7. s \in Seq(Members(input)) /\ Len(s) = Len(input.key_offsets)
  BY <1>1, <1>5, SeqDef, LenProperties
<1> QED BY <1>1, <1>6, <1>7 DEF s

LEMMA ListFinite ==
  ASSUME NEW n \in Nat, NEW f
  PROVE  IsFiniteSet({f[i] : i \in 1..n})
<1> DEFINE S == {f[i] : i \in 1..n}
           g == [i \in 1..n |-> f[i]]
<1>1. g \in Surjection(1..n, S)
  BY DEF Surjection
<1>2. IsFiniteSet(1..n)
  BY FS_Interval
<1> HIDE DEF g, S
<1>3. IsFiniteSet(S)
  BY <1>1, <1>2, FS_Surjection
<1> QED BY <1>3 DEF S

LEMMA MembersFinite ==
  ASSUME NEW input \in KeyInput
  PROVE  IsFiniteSet(Members(input))
<1> DEFINE s == ring_members(input)
           n == Len(input.key_offsets)
<1>1. n \in Nat /\ s \in Seq(Members(input)) /\ Len(s) = n
  BY RingMembers
<1>2. DOMAIN s = 1..n
  BY <1>1
<1>3. Members(input) = {s[i] : i \in 1..n}
  BY <1>2 DEF Members, ToSet
<1> HIDE DEF n, s
<1> QED BY <1>1, <1>3, ListFinite

\* A set as a sequence has the set's members and no others.
LEMMA SetAsSeq ==
  ASSUME NEW S, IsFiniteSet(S)
  PROVE  SetToSeq(S) \in Seq(S) /\ ToSet(SetToSeq(S)) = S
<1> DEFINE n == Cardinality(S)
           f == SetToSeq(S)
<1>1. n \in Nat /\ IsFiniteSet(1..n) /\ Cardinality(1..n) = n
  BY FS_CardinalityType, FS_Interval
<1>2. ExistsBijection(1..n, S)
  BY FS_CardinalityType
<1>3. \E g \in [1..n -> S] : IsInjective(g)
  BY <1>2 DEF ExistsBijection, Bijection, Injection
<1>4. f \in [1..n -> S] /\ IsInjective(f)
  BY <1>3 DEF SetToSeq
<1> HIDE DEF n, f
<1>5. f \in Injection(1..n, S)
  BY <1>4 DEF Injection
<1>6. f \in Surjection(1..n, S)
  BY <1>1, <1>5, FS_Injection DEF n
<1>7. \A x \in S : \E i \in 1..n : f[i] = x
  BY <1>6 DEF Surjection
<1>8. DOMAIN f = 1..n /\ \A i \in 1..n : f[i] \in S
  BY <1>4
<1>9. ToSet(f) = S
  BY <1>7, <1>8 DEF ToSet
<1>10. f \in Seq(S)
  BY <1>1, <1>4, SeqDef
<1> QED BY <1>9, <1>10 DEF f

LEMMA WantedIs ==
  ASSUME NEW inputs \in Seq(KeyInput)
  PROVE  /\ Wanted(inputs) \in Seq(AllMembers(inputs))
         /\ ToSet(Wanted(inputs)) = AllMembers(inputs) \ DOMAIN outs
<1> DEFINE all == AllMembers(inputs)
           n == Len(inputs)
           rings == [i \in 1..n |-> Members(inputs[i])]
           next == all \ DOMAIN outs
<1>1. n \in Nat /\ DOMAIN inputs = 1..n /\ \A i \in 1..n : inputs[i] \in KeyInput
  OBVIOUS
<1>2. all = UNION {rings[i] : i \in 1..n}
  BY <1>1 DEF AllMembers
<1>3. \A i \in 1..n : IsFiniteSet(rings[i])
  BY <1>1, MembersFinite
<1>4. Wanted(inputs) = SetToSeq(next) /\ next \in SUBSET all
  BY DEF Wanted, AllMembers
<1> HIDE DEF n, rings, all, next
<1>5. IsFiniteSet({rings[i] : i \in 1..n})
  BY <1>1, ListFinite
<1>6. \A T \in {rings[i] : i \in 1..n} : IsFiniteSet(T)
  BY <1>3
<1>7. IsFiniteSet(all)
  BY <1>2, <1>5, <1>6, FS_UNION
<1>8. IsFiniteSet(next)
  BY <1>4, <1>7, FS_Subset
<1>9. SetToSeq(next) \in Seq(next) /\ ToSet(SetToSeq(next)) = next
  BY <1>8, SetAsSeq
<1>10. SetToSeq(next) \in Seq(all)
  BY <1>4, <1>9
<1> QED BY <1>4, <1>9, <1>10 DEF next, all

\* The last place a member is asked for.
IsLast(i, w, n, k) == w[i] = k /\ \A j \in 1..n : j > i => w[j] # k

LEMMA LastPlace ==
  ASSUME NEW n \in Nat, NEW w, NEW k, NEW i \in 1..n, w[i] = k
  PROVE  \E last \in 1..n : IsLast(last, w, n, k)
<1> DEFINE T == {m \in Nat : m < n /\ w[n - m] = k}
<1>2. n - i \in T
  <2>1. n - (n - i) = i /\ n - i \in Nat /\ n - i < n
    OBVIOUS
  <2> QED BY <2>1
<1>3. PICK m \in T : \A y \in T : m <= y
  <2>1. T \in SUBSET Nat /\ T # {}
    BY <1>2
  <2> HIDE DEF T
  <2> QED BY <2>1, NatMin
<1>4. n - m \in 1..n /\ w[n - m] = k
  BY <1>3
<1>5. ASSUME NEW j \in 1..n, j > n - m PROVE w[j] # k
  <2> SUFFICES ASSUME w[j] = k PROVE FALSE
    OBVIOUS
  <2>1. n - (n - j) = j /\ n - j \in Nat /\ n - j < n /\ n - j < m
    BY <1>3, <1>5
  <2>2. n - j \in T
    BY <2>1
  <2> QED BY <1>3, <2>1, <2>2
<1> QED BY <1>4, <1>5 DEF IsLast

\* The daemon's answer to a request, paired with it by position: what is cached
\* under a key is the output of that key.
LEMMA ZippedIsKeyed ==
  ASSUME RingIInv, NEW A, NEW w \in Seq(A), NEW response \in Replies(w), Usable(response, w), w # <<>>
  PROVE  /\ Len(response.outs) = Len(w)
         /\ \A i \in 1..Len(w) : response.outs[i].key = w[i]
         /\ Keyed(Zipped(w, response.outs))
         /\ DOMAIN Zipped(w, response.outs) = ToSet(w)
<1> DEFINE n == Len(w)
           found == response.outs
           zipped == Zipped(w, found)
<1>1. n \in Nat /\ n > 0 /\ DOMAIN w = 1..n
  BY EmptySeq, LenProperties
<1>2. ToSet(w) \subseteq DOMAIN held /\ found \in {Whole(w), Tail(Whole(w))} /\ Len(found) = n
  BY DEF Replies, Usable
<1>3. \A i \in 1..n : w[i] \in ToSet(w) /\ w[i] \in DOMAIN held
  BY <1>1, <1>2 DEF ToSet
<1>4. Whole(w) = [i \in 1..n |-> held[w[i]]]
  BY DEF Whole
<1> DEFINE H == {held[k] : k \in DOMAIN held}
<1>5. Whole(w) \in Seq(H) /\ Len(Whole(w)) = n
  <2>1. Whole(w) \in [1..n -> H]
    BY <1>3, <1>4
  <2> HIDE DEF H, n
  <2>2. DOMAIN Whole(w) = 1..n
    BY <1>4
  <2> QED BY <1>1, <2>1, <2>2, SeqDef, LenProperties
<1> HIDE DEF n, found, H
<1> DEFINE short == Tail(Whole(w))
<1>6. Len(short) = n - 1
  BY <1>1, <1>5, EmptySeq, HeadTailProperties
<1> HIDE DEF short
<1>7. found = Whole(w)
  <2>1. found \in {Whole(w), short}
    BY <1>2 DEF short
  <2> QED BY <1>1, <1>2, <1>6, <2>1
<1>8. DOMAIN found = 1..n /\ \A i \in 1..n : found[i] = held[w[i]]
  BY <1>4, <1>7
<1>9. \A i \in 1..n : found[i].key = w[i]
  <2>1. \A k \in DOMAIN held : held[k].key = k
    <3>1. held = [k \in DOMAIN held |-> [key |-> k, branch |-> held[k].branch]]
      BY DEF RingIInv
    <3>2. \A k \in DOMAIN held : held[k] = [key |-> k, branch |-> held[k].branch]
      BY <3>1
    <3> QED BY <3>2
  <2> QED BY <1>3, <1>8, <2>1
<1>10. DOMAIN zipped = ToSet(w)
  BY <1>1, <1>8 DEF Zipped, ToSet
<1>11. ASSUME NEW k \in DOMAIN zipped PROVE zipped[k].key = k
  <2> DEFINE at == CHOOSE i \in DOMAIN found :
                     w[i] = k /\ \A j \in DOMAIN found : j > i => w[j] # k
  <2>1. zipped[k] = found[at]
    BY <1>11 DEF Zipped
  <2>2. PICK i \in 1..n : w[i] = k
    BY <1>1, <1>10, <1>11 DEF ToSet
  <2>3. PICK last \in 1..n : IsLast(last, w, n, k)
    BY <1>1, <2>2, LastPlace
  <2>4. at \in 1..n /\ w[at] = k
    BY <1>8, <2>3 DEF IsLast
  <2> HIDE DEF at
  <2> QED BY <1>9, <2>1, <2>4
<1> HIDE DEF zipped
<1>12. Keyed(zipped)
  BY <1>11 DEF Keyed
<1> QED BY <1>2, <1>9, <1>10, <1>12 DEF zipped, n, found

LEMMA OverIsKeyed ==
  ASSUME NEW next, NEW old, Keyed(next), Keyed(old)
  PROVE  /\ Keyed(Over(next, old))
         /\ DOMAIN Over(next, old) = DOMAIN next \cup DOMAIN old
  BY DEF Keyed, Over

LEMMA RestrictIsKeyed ==
  ASSUME NEW known, Keyed(known), NEW S \in SUBSET DOMAIN known
  PROVE  Keyed(Restrict(known, S)) /\ DOMAIN Restrict(known, S) = S
  BY DEF Keyed, Restrict

\* A ring put together from outputs kept under their keys is right.
LEMMA ResolvedIsRight ==
  ASSUME NEW input \in KeyInput, Summable(input), NEW known, Keyed(known),
         Members(input) \subseteq DOMAIN known
  PROVE  /\ Right(input, Resolved(ring_members(input), known))
         /\ ~Resolved(ring_members(input), known).ring_unavailable
<1> DEFINE s == ring_members(input)
           n == Len(input.key_offsets)
           ring == [i \in 1..Len(s) |-> [key |-> s[i], out |-> known[s[i]]]]
<1>1. n \in Nat /\ Len(s) = n
  BY RingMembers
<1>2. \A m \in 1..n : s[m] = <<input.amount, Totals(input.key_offsets)[m]>>
                      /\ s[m] \in DOMAIN known
  BY RingMembers
<1>3. Resolved(s, known) = [at |-> "resolved", ring_unavailable |-> FALSE, ring |-> ring]
  BY DEF Resolved
<1> HIDE DEF s, n
<1>4. DOMAIN ring = 1..n /\ Len(ring) = n
  BY <1>1
<1>5. \A m \in 1..n : ring[m].out = known[s[m]]
  BY <1>1
<1> HIDE DEF ring
<1>6. \A m \in 1..n : ring[m].out.key = s[m]
  BY <1>2, <1>5 DEF Keyed
<1>7. Right(input, Resolved(s, known))
  BY <1>2, <1>3, <1>4, <1>6 DEF Right, n
<1> QED BY <1>3, <1>7 DEF s

LEMMA UnresolvedIsRight ==
  ASSUME NEW input
  PROVE  /\ Right(input, Unresolved(TRUE))
         /\ Summable(input) /\ input.key_offsets = <<>> => Right(input, Unresolved(FALSE))
         /\ Unresolved(TRUE).ring_unavailable /\ ~Unresolved(FALSE).ring_unavailable
BY DEF Right, Unresolved

LEMMA RightIsNotPending ==
  ASSUME NEW input, NEW got, Right(input, got)
  PROVE  got # Pending
BY DEF Right, Pending

-----------------------------------------------------------------------------
\* What needs no call is pending no more, and right.
LEMMA AloneIsSound ==
  ASSUME NEW input \in KeyInput, Keyed(outs), NEW got, got = ResolvedAlone(input)
  PROVE  \/ got = Pending /\ Summable(input) /\ input.key_offsets # <<>>
         \/ Right(input, got) /\ (Summable(input) => ~got.ring_unavailable)
<1>1. CASE ~Summable(input)
  BY <1>1, UnresolvedIsRight DEF ResolvedAlone
<1>2. CASE Summable(input) /\ input.key_offsets = <<>>
  <2>1. got = Unresolved(FALSE)
    BY <1>2 DEF ResolvedAlone
  <2> QED BY <1>2, <2>1, UnresolvedIsRight
<1>3. CASE Summable(input) /\ input.key_offsets # <<>>
  <2>1. got = IF Members(input) \subseteq DOMAIN outs
              THEN Resolved(ring_members(input), outs) ELSE Pending
    BY <1>3 DEF ResolvedAlone
  <2>2. CASE Members(input) \subseteq DOMAIN outs
    BY <1>3, <2>1, <2>2, ResolvedIsRight
  <2>3. CASE ~(Members(input) \subseteq DOMAIN outs)
    BY <1>3, <2>1, <2>3
  <2> QED BY <2>2, <2>3
<1> QED BY <1>1, <1>2, <1>3

LEMMA AloneIsOK ==
  ASSUME NEW inputs \in Seq(KeyInput), NEW heldAt, NEW faulted \in BOOLEAN, Keyed(outs),
         NEW q, q = Alone(inputs, heldAt, faulted)
  PROVE  RequestOK(q) /\ q.heldAt = heldAt
<1> DEFINE results == [i \in DOMAIN inputs |-> ResolvedAlone(inputs[i])]
<1>1. q = [at |-> IF \E i \in DOMAIN inputs : results[i] = Pending THEN "alone" ELSE "done",
           inputs |-> inputs, results |-> results, heldAt |-> heldAt, faulted |-> faulted]
  BY DEF Alone
<1>2. \A i \in DOMAIN inputs : inputs[i] \in KeyInput /\ results[i] = ResolvedAlone(inputs[i])
  OBVIOUS
<1>3. results = [i \in DOMAIN inputs |-> results[i]]
  OBVIOUS
<1> HIDE DEF results
<1>4. ASSUME NEW i \in DOMAIN inputs
      PROVE  \/ /\ results[i] = Pending
                /\ Summable(inputs[i]) /\ inputs[i].key_offsets # <<>>
             \/ /\ Right(inputs[i], results[i])
                /\ Owed(inputs[i], results[i], heldAt, faulted)
  BY <1>2, AloneIsSound DEF Owed
<1>5. /\ q.inputs = inputs /\ q.results = results /\ q.heldAt = heldAt /\ q.faulted = faulted
      /\ q.at \in {"alone", "done"}
      /\ q.at = "done" => \A i \in DOMAIN inputs : results[i] # Pending
  BY <1>1
<1>6. EachOut(q)
  BY <1>3, <1>4, <1>5 DEF EachOut
<1> QED BY <1>5, <1>6 DEF RequestOK

\* A batch that knows every member resolves every ring.
LEMMA TogetherIsOK ==
  ASSUME NEW inputs \in Seq(KeyInput), CanBatch(inputs), NEW heldAt, NEW known, Keyed(known),
         \A i \in DOMAIN inputs : Members(inputs[i]) \subseteq DOMAIN known,
         NEW q, q = Together(inputs, known, heldAt)
  PROVE  RequestOK(q) /\ q.heldAt = heldAt
<1> DEFINE results == ResolvedTogether(inputs, known)
<1>1. q = [at |-> "done", inputs |-> inputs, results |-> results, heldAt |-> heldAt,
           faulted |-> FALSE]
  BY DEF Together
<1>2. /\ results = [i \in DOMAIN inputs |-> results[i]]
      /\ \A i \in DOMAIN inputs : results[i] = Resolved(ring_members(inputs[i]), known)
  BY DEF ResolvedTogether
<1>3. \A i \in DOMAIN inputs : inputs[i] \in KeyInput /\ Summable(inputs[i])
  BY DEF CanBatch
<1> HIDE DEF results
<1>4. ASSUME NEW i \in DOMAIN inputs
      PROVE  Right(inputs[i], results[i]) /\ ~results[i].ring_unavailable
  BY <1>2, <1>3, ResolvedIsRight
<1>5. \A i \in DOMAIN inputs : results[i] # Pending
  BY <1>4, RightIsNotPending
<1>6. /\ q.inputs = inputs /\ q.results = results /\ q.heldAt = heldAt /\ q.faulted = FALSE
      /\ q.at = "done"
  BY <1>1
<1>7. EachOut(q)
  BY <1>2, <1>4, <1>5, <1>6 DEF EachOut, Owed
<1> QED BY <1>6, <1>7 DEF RequestOK

\* A step of one request.
LEMMA RequestSteps ==
  ASSUME RingIInv, NEW r \in Requests, NEW q, req' = [req EXCEPT ![r] = q],
         RequestOK(q), q.at # "idle" => q.heldAt \subseteq DOMAIN held,
         UNCHANGED held, Keyed(outs')
  PROVE  RingIInv'
<1>1. req = [s \in Requests |-> req[s]]
  BY DEF RingIInv
<1>2. req' = [s \in Requests |-> req'[s]] /\ req'[r] = q /\ \A s \in Requests : s # r => req'[s] = req[s]
  BY <1>1
<1>3. ASSUME NEW s \in Requests PROVE RequestOK(req[s])' /\ Since(req[s])'
  <2>1. RequestOK(req[s]) /\ Since(req[s])
    BY DEF RingIInv
  <2>2. CASE s = r
    BY <1>2, <2>2 DEF Since
  <2>3. CASE s # r
    BY <1>2, <2>1, <2>3 DEF Since
  <2> QED BY <2>2, <2>3
<1>4. Keyed(outs)'
  BY DEF Keyed
<1>5. held' = [k \in DOMAIN held' |-> [key |-> k, branch |-> held'[k].branch]]
  BY DEF RingIInv
<1> QED BY <1>2, <1>3, <1>4, <1>5 DEF RingIInv

LEMMA AskedStep ==
  ASSUME RingIInv, NEW r \in Requests, NEW tx \in Inputs, RingsAsked(r, tx)
  PROVE  RingIInv'
<1> DEFINE inputs == Within(tx, KeyInput)
           all    == AllMembers(inputs)
           known  == Restrict(outs, DOMAIN outs \cap all)
           start  == DOMAIN held
           asking == [at |-> "together", inputs |-> inputs, known |-> known,
                      wanted |-> Wanted(inputs), heldAt |-> start]
           q == CASE ~CanBatch(inputs) -> Alone(inputs, start, FALSE)
                  [] CanBatch(inputs) /\ Wanted(inputs) = <<>> -> Together(inputs, known, start)
                  [] OTHER -> asking
<1>1. req' = [req EXCEPT ![r] = q] /\ UNCHANGED <<held, outs>>
  BY DEF RingsAsked, AllMembers
<1>2. inputs \in Seq(KeyInput)
  <2>1. tx \in Seq(KeyInput \cup GenInput)
    OBVIOUS
  <2>2. inputs \in Seq(KeyInput \cup GenInput) /\ \A k \in DOMAIN inputs : inputs[k] \in KeyInput
    BY <2>1, SiftKeeps
  <2> HIDE DEF inputs
  <2> QED BY <2>2
<1>3. Keyed(outs) /\ Keyed(outs')
  BY <1>1 DEF RingIInv, Keyed
<1>4. Wanted(inputs) \in Seq(all) /\ ToSet(Wanted(inputs)) = all \ DOMAIN outs
  BY <1>2, WantedIs
<1>5. Keyed(known) /\ DOMAIN known = DOMAIN outs \cap all
  BY <1>3, RestrictIsKeyed
<1>6. \A i \in DOMAIN inputs : Members(inputs[i]) \subseteq all
  BY DEF AllMembers
<1> HIDE DEF inputs, known, start, all, asking
<1>7. RequestOK(q) /\ q.heldAt = start
  <2>1. CASE ~CanBatch(inputs)
    <3>1. q = Alone(inputs, start, FALSE)
      BY <2>1
    <3> HIDE DEF q
    <3> QED BY <1>2, <1>3, <3>1, AloneIsOK
  <2>2. CASE CanBatch(inputs) /\ Wanted(inputs) = <<>>
    <3>1. q = Together(inputs, known, start)
      BY <2>2
    <3>2. ToSet(Wanted(inputs)) = {}
      BY <2>2 DEF ToSet
    <3>3. \A i \in DOMAIN inputs : Members(inputs[i]) \subseteq DOMAIN known
      BY <1>4, <1>5, <1>6, <3>2
    <3> HIDE DEF q
    <3> QED BY <1>2, <1>5, <2>2, <3>1, <3>3, TogetherIsOK
  <2>3. CASE CanBatch(inputs) /\ Wanted(inputs) # <<>>
    <3>1. q = asking
      BY <2>3
    <3> HIDE DEF q
    <3>2. /\ q.at = "together" /\ q.inputs = inputs /\ q.known = known
          /\ q.wanted = Wanted(inputs) /\ q.heldAt = start
      BY <3>1 DEF asking
    <3>3. \A i \in DOMAIN inputs : Members(inputs[i]) \subseteq DOMAIN known \cup ToSet(Wanted(inputs))
      BY <1>4, <1>5, <1>6
    <3>4. BatchOut(q)
      BY <1>2, <1>4, <1>5, <2>3, <3>2, <3>3 DEF BatchOut, all
    <3> QED BY <3>2, <3>4 DEF RequestOK
  <2> QED BY <2>1, <2>2, <2>3
<1> HIDE DEF q
<1> QED BY <1>1, <1>3, <1>7, RequestSteps DEF start

LEMMA BatchStep ==
  ASSUME RingIInv, NEW r \in Requests, BatchReplied(r)
  PROVE  RingIInv'
<1> DEFINE q == req[r]
<1>1. q.at = "together" /\ BatchOut(q) /\ q.heldAt \subseteq DOMAIN held /\ UNCHANGED held
  BY DEF BatchReplied, RingIInv, RequestOK, Since
<1>2. q.inputs \in Seq(KeyInput) /\ CanBatch(q.inputs) /\ Keyed(q.known) /\ Keyed(outs)
  BY <1>1 DEF BatchOut, RingIInv
<1>3. PICK response \in Replies(q.wanted) :
        \/ /\ Usable(response, q.wanted)
           /\ \E kept \in SUBSET DOMAIN Over(Zipped(q.wanted, response.outs), outs) :
                /\ outs' = Restrict(Over(Zipped(q.wanted, response.outs), outs), kept)
                /\ req' = [req EXCEPT ![r] =
                     Together(q.inputs, KnownAfter(q.known, Zipped(q.wanted, response.outs), kept), q.heldAt)]
        \/ /\ ~Usable(response, q.wanted)
           /\ req' = [req EXCEPT ![r] = FallBack(q, IsFault(q.wanted, response))]
           /\ UNCHANGED outs
  BY DEF BatchReplied
<1>4. CASE Usable(response, q.wanted)
  <2> DEFINE fresh == Zipped(q.wanted, response.outs)
  <2>1. PICK kept \in SUBSET DOMAIN Over(fresh, outs) :
          /\ outs' = Restrict(Over(fresh, outs), kept)
          /\ req' = [req EXCEPT ![r] = Together(q.inputs, KnownAfter(q.known, fresh, kept), q.heldAt)]
    BY <1>3, <1>4
  <2>2. Keyed(fresh) /\ DOMAIN fresh = ToSet(q.wanted)
    BY <1>1, <1>4, ZippedIsKeyed DEF BatchOut
  <2> DEFINE known == KnownAfter(q.known, fresh, kept)
             next == Together(q.inputs, known, q.heldAt)
  <2> HIDE DEF fresh
  <2>3. Keyed(known) /\ DOMAIN known = DOMAIN fresh \cup DOMAIN q.known
    BY <1>2, <2>2, OverIsKeyed DEF KnownAfter
  <2>4. \A i \in DOMAIN q.inputs : Members(q.inputs[i]) \subseteq DOMAIN known
    BY <1>1, <2>2, <2>3 DEF BatchOut
  <2>5. Keyed(outs')
    BY <1>2, <2>1, <2>2, OverIsKeyed, RestrictIsKeyed
  <2> HIDE DEF known
  <2>6. RequestOK(next) /\ next.heldAt = q.heldAt
    BY <1>2, <2>3, <2>4, TogetherIsOK
  <2>7. req' = [req EXCEPT ![r] = next]
    BY <2>1 DEF known
  <2> HIDE DEF next, q
  <2> QED BY <1>1, <2>5, <2>6, <2>7, RequestSteps
<1>5. CASE ~Usable(response, q.wanted)
  <2> DEFINE next == FallBack(q, IsFault(q.wanted, response))
  <2>1. req' = [req EXCEPT ![r] = next] /\ UNCHANGED outs
    BY <1>3, <1>5
  <2>2. next = Alone(q.inputs, q.heldAt, IsFault(q.wanted, response))
    BY DEF FallBack
  <2>3. IsFault(q.wanted, response) \in BOOLEAN
    BY DEF IsFault
  <2> HIDE DEF next, q
  <2>4. RequestOK(next) /\ next.heldAt = q.heldAt
    BY <1>2, <2>2, <2>3, AloneIsOK
  <2>5. Keyed(outs')
    BY <1>2, <2>1
  <2> QED BY <1>1, <2>1, <2>4, <2>5, RequestSteps
<1> QED BY <1>4, <1>5

\* One input more is resolved.
LEMMA OneMore ==
  ASSUME NEW q, EachOut(q), NEW i \in DOMAIN q.inputs, NEW x, Right(q.inputs[i], x),
         NEW f \in BOOLEAN, q.faulted => f, Owed(q.inputs[i], x, q.heldAt, f),
         NEW next, next = Filed(q, i, x, f)
  PROVE  RequestOK(next) /\ next.heldAt = q.heldAt
<1> DEFINE results == [q.results EXCEPT ![i] = x]
           at == IF \E j \in DOMAIN q.inputs : j # i /\ q.results[j] = Pending
                 THEN "alone" ELSE "done"
<1>1. /\ q.results = [j \in DOMAIN q.inputs |-> q.results[j]]
      /\ q.inputs \in Seq(KeyInput)
      /\ \A j \in DOMAIN q.inputs :
           \/ /\ q.results[j] = Pending
              /\ Summable(q.inputs[j]) /\ q.inputs[j].key_offsets # <<>>
           \/ /\ Right(q.inputs[j], q.results[j])
              /\ Owed(q.inputs[j], q.results[j], q.heldAt, q.faulted)
  BY DEF EachOut
<1>2. next = [at |-> at, inputs |-> q.inputs, results |-> results,
             heldAt |-> q.heldAt, faulted |-> f]
  BY DEF Filed
<1>3. results = [j \in DOMAIN q.inputs |-> results[j]]
      /\ results[i] = x /\ \A j \in DOMAIN q.inputs : j # i => results[j] = q.results[j]
  BY <1>1
<1> HIDE DEF results
<1>4. /\ next.inputs = q.inputs /\ next.results = results /\ next.heldAt = q.heldAt
      /\ next.faulted = f /\ next.at = at /\ at \in {"alone", "done"}
  BY <1>2
<1>5. \A j \in DOMAIN q.inputs :
        \/ /\ results[j] = Pending
           /\ Summable(q.inputs[j]) /\ q.inputs[j].key_offsets # <<>>
        \/ /\ Right(q.inputs[j], results[j])
           /\ Owed(q.inputs[j], results[j], q.heldAt, f)
  BY <1>1, <1>3 DEF Owed
<1>6. ASSUME at = "done", NEW j \in DOMAIN q.inputs PROVE results[j] # Pending
  <2>1. x # Pending
    BY RightIsNotPending
  <2> QED BY <1>3, <1>6, <2>1
<1> HIDE DEF at
<1>7. next.at = "done" => \A j \in DOMAIN q.inputs : results[j] # Pending
  BY <1>4, <1>6
<1>8. /\ next.inputs \in Seq(KeyInput) /\ next.faulted \in BOOLEAN
      /\ next.results = [j \in DOMAIN next.inputs |-> next.results[j]]
  BY <1>1, <1>3, <1>4
<1>9. EachOut(next)
  BY <1>4, <1>5, <1>7, <1>8 DEF EachOut
<1> QED BY <1>4, <1>9 DEF RequestOK

\* A ring paired with a whole answer is right.
LEMMA PairedIsRight ==
  ASSUME NEW input \in KeyInput, Summable(input), NEW found,
         Len(found) = Len(ring_members(input)),
         \A m \in 1..Len(found) : found[m].key = ring_members(input)[m]
  PROVE  /\ Right(input, Paired(ring_members(input), found))
         /\ ~Paired(ring_members(input), found).ring_unavailable
<1> DEFINE s == ring_members(input)
           n == Len(input.key_offsets)
           ring == [m \in 1..Len(found) |-> [key |-> s[m], out |-> found[m]]]
<1>1. n \in Nat /\ Len(s) = n
  BY RingMembers
<1>2. \A m \in 1..n : s[m] = <<input.amount, Totals(input.key_offsets)[m]>>
  BY RingMembers
<1>3. Paired(s, found) = [at |-> "resolved", ring_unavailable |-> FALSE, ring |-> ring]
  BY DEF Paired
<1> HIDE DEF s, n
<1>4. Len(found) = n
  BY <1>1 DEF s
<1>5. \A m \in 1..n : found[m].key = s[m]
  BY <1>4 DEF s
<1>6. DOMAIN ring = 1..n /\ Len(ring) = n /\ \A m \in 1..n : ring[m].out = found[m]
  BY <1>1, <1>4
<1> HIDE DEF ring
<1>7. \A m \in 1..n : ring[m].out.key = s[m]
  BY <1>5, <1>6
<1>8. Right(input, Paired(s, found))
  BY <1>2, <1>3, <1>6, <1>7 DEF Right, n
<1> QED BY <1>3, <1>8 DEF s

LEMMA InputStep ==
  ASSUME RingIInv, NEW r \in Requests, NEW i, InputReplied(r, i)
  PROVE  RingIInv'
<1> DEFINE q == req[r]
           input == q.inputs[i]
           w == ring_members(input)
<1>1. /\ q.at = "alone" /\ EachOut(q) /\ q.heldAt \subseteq DOMAIN held /\ UNCHANGED held
      /\ i \in DOMAIN q.inputs /\ q.results[i] = Pending /\ Keyed(outs)
  BY DEF InputReplied, RingIInv, RequestOK, Since
<1>2. input \in KeyInput /\ Summable(input) /\ input.key_offsets # <<>> /\ q.faulted \in BOOLEAN
  <2>1. /\ q.inputs \in Seq(KeyInput) /\ q.faulted \in BOOLEAN
        /\ \/ Summable(input) /\ input.key_offsets # <<>>
           \/ Right(input, q.results[i])
    BY <1>1 DEF EachOut
  <2>2. ~Right(input, q.results[i])
    BY <1>1, RightIsNotPending
  <2> HIDE DEF q
  <2>3. input \in KeyInput
    BY <1>1, <2>1
  <2> QED BY <2>1, <2>2, <2>3
<1>3. w \in Seq(Members(input)) /\ w # <<>> /\ ToSet(w) = Members(input)
  <2>1. input.key_offsets \in Seq(Nat)
    BY <1>2 DEF KeyInput
  <2>2. Len(input.key_offsets) # 0
    BY <1>2, <2>1, EmptySeq
  <2>3. w \in Seq(Members(input)) /\ Len(w) = Len(input.key_offsets)
    BY <1>2, RingMembers
  <2> QED BY <2>2, <2>3 DEF Members
<1>4. PICK response \in Replies(w) :
        \/ /\ Usable(response, w)
           /\ \E kept \in SUBSET DOMAIN Over(Zipped(w, response.outs), outs) :
                outs' = Restrict(Over(Zipped(w, response.outs), outs), kept)
           /\ req' = [req EXCEPT ![r] = Filed(q, i, Paired(w, response.outs), q.faulted)]
        \/ /\ ~Usable(response, w)
           /\ req' = [req EXCEPT ![r] =
                Filed(q, i, Unresolved(TRUE), q.faulted \/ IsFault(w, response))]
           /\ UNCHANGED outs
  BY DEF InputReplied
<1>5. CASE Usable(response, w)
  <2> DEFINE x == Paired(w, response.outs)
             next == Filed(q, i, x, q.faulted)
  <2>1. req' = [req EXCEPT ![r] = next]
    BY <1>4, <1>5
  <2>2. /\ Len(response.outs) = Len(w)
        /\ \A m \in 1..Len(w) : response.outs[m].key = w[m]
        /\ Keyed(Zipped(w, response.outs))
    BY <1>3, <1>5, ZippedIsKeyed
  <2>3. Right(input, x) /\ ~x.ring_unavailable
    BY <1>2, <2>2, PairedIsRight
  <2>4. Owed(input, x, q.heldAt, q.faulted)
    BY <2>3 DEF Owed
  <2>5. Keyed(outs')
    <3>1. PICK kept \in SUBSET DOMAIN Over(Zipped(w, response.outs), outs) :
            outs' = Restrict(Over(Zipped(w, response.outs), outs), kept)
      BY <1>4, <1>5
    <3> QED BY <1>1, <2>2, <3>1, OverIsKeyed, RestrictIsKeyed
  <2> HIDE DEF x, q
  <2>6. RequestOK(next) /\ next.heldAt = q.heldAt
    BY <1>1, <1>2, <2>3, <2>4, OneMore
  <2> HIDE DEF next
  <2> QED BY <1>1, <2>1, <2>5, <2>6, RequestSteps
<1>6. CASE ~Usable(response, w)
  <2> DEFINE x == Unresolved(TRUE)
             f == q.faulted \/ IsFault(w, response)
             next == Filed(q, i, x, f)
  <2>1. req' = [req EXCEPT ![r] = next] /\ UNCHANGED outs
    BY <1>4, <1>6
  <2>2. Right(input, x)
    BY UnresolvedIsRight
  <2>3. f \in BOOLEAN /\ (q.faulted => f)
    BY <1>2 DEF IsFault
  <2>4. Owed(input, x, q.heldAt, f)
    <3>1. Members(input) \subseteq q.heldAt => IsFault(w, response)
      BY <1>1, <1>3, <1>6 DEF IsFault, Usable, Replies
    <3> QED BY <3>1 DEF Owed
  <2>5. Keyed(outs')
    BY <1>1, <2>1
  <2> HIDE DEF x, q, f
  <2>6. RequestOK(next) /\ next.heldAt = q.heldAt
    BY <1>1, <2>2, <2>3, <2>4, OneMore
  <2> HIDE DEF next
  <2> QED BY <1>1, <2>1, <2>5, <2>6, RequestSteps
<1> QED BY <1>4, <1>5, <1>6

\* Outputs come and change, but none goes.
LEMMA HeldStep ==
  ASSUME RingIInv, NEW a \in Amounts, NEW b \in Branches, NewOutput(a, b) \/ Reassigned(a, b)
  PROVE  RingIInv'
<1>1. UNCHANGED <<outs, req>>
  BY DEF NewOutput, Reassigned
<1>2. held = [k \in DOMAIN held |-> [key |-> k, branch |-> held[k].branch]]
  BY DEF RingIInv
<1>3. /\ DOMAIN held \subseteq DOMAIN held'
      /\ held' = [k \in DOMAIN held' |-> [key |-> k, branch |-> held'[k].branch]]
  <2>1. CASE NewOutput(a, b)
    <3> DEFINE k == <<a, Count(a)>>
    <3>1. held' = [j \in DOMAIN held \cup {k} |->
                     IF j = k THEN [key |-> k, branch |-> b] ELSE held[j]]
      BY <2>1 DEF NewOutput
    <3> HIDE DEF k
    <3>2. \A j \in DOMAIN held' : held'[j] = [key |-> j, branch |-> held'[j].branch]
      BY <1>2, <3>1
    <3> QED BY <3>1, <3>2
  <2>2. CASE Reassigned(a, b)
    <3> DEFINE k == <<a, Count(a) - 1>>
    <3>1. held' = [held EXCEPT ![k].branch = b]
      BY <2>2 DEF Reassigned
    <3> HIDE DEF k
    <3>2. DOMAIN held' = DOMAIN held
      BY <1>2, <3>1
    <3>3. ASSUME NEW j \in DOMAIN held PROVE held'[j] = [key |-> j, branch |-> held'[j].branch]
      <4>1. held[j] = [key |-> j, branch |-> held[j].branch]
        BY <1>2
      <4>2. held'[j] = IF j = k THEN [held[j] EXCEPT !.branch = b] ELSE held[j]
        BY <1>2, <3>1
      <4> QED BY <4>1, <4>2
    <3>4. held' = [j \in DOMAIN held' |-> held'[j]]
      BY <1>2, <3>1
    <3> QED BY <3>2, <3>3, <3>4
  <2> QED BY <2>1, <2>2
<1>4. \A r \in Requests : RequestOK(req[r])' /\ Since(req[r])'
  BY <1>1, <1>3 DEF RingIInv, Since
<1> QED BY <1>1, <1>3, <1>4 DEF RingIInv, Keyed

LEMMA CancelledStep ==
  ASSUME RingIInv, NEW r \in Requests, Cancelled(r)
  PROVE  RingIInv'
<1>1. req' = [req EXCEPT ![r] = Idle] /\ UNCHANGED <<held, outs>>
  BY DEF Cancelled
<1>2. RequestOK(Idle) /\ Idle.at = "idle"
  BY DEF RequestOK, Idle
<1>3. Keyed(outs')
  BY <1>1 DEF RingIInv
<1> QED BY <1>1, <1>2, <1>3, RequestSteps

LEMMA RingInitInv == RingInit => RingIInv
<1> SUFFICES ASSUME RingInit PROVE RingIInv
  OBVIOUS
<1>1. PICK b \in Branches : held = [k \in {<<a, 0>> : a \in Amounts} |-> [key |-> k, branch |-> b]]
  BY DEF RingInit
<1>2. held = [k \in DOMAIN held |-> [key |-> k, branch |-> held[k].branch]]
  BY <1>1
<1>3. Keyed(outs)
  BY DEF RingInit, Keyed
<1>4. req = [r \in Requests |-> req[r]] /\ \A r \in Requests : req[r] = Idle
  BY DEF RingInit
<1>5. \A r \in Requests : RequestOK(req[r]) /\ Since(req[r])
  BY <1>4 DEF RequestOK, Since, Idle
<1> QED BY <1>2, <1>3, <1>4, <1>5 DEF RingIInv

LEMMA RingNextInv == RingIInv /\ [RingNext]_ringVars => RingIInv'
<1> SUFFICES ASSUME RingIInv, [RingNext]_ringVars PROVE RingIInv'
  OBVIOUS
<1>1. CASE UNCHANGED ringVars
  BY <1>1 DEF ringVars, RingIInv, Since
<1>2. CASE RingNext
  BY <1>2, HeldStep, AskedStep, BatchStep, InputStep, CancelledStep DEF RingNext
<1> QED BY <1>1, <1>2

-----------------------------------------------------------------------------
\* Whole or not at all, and every member the output its own offset names: for
\* any list of inputs, any cache content and any reorganisation of the indices
\* (resolve_ring, resolve_rings_together).
THEOREM RingsRight == RingSpec => []RingsAreRight
<1>1. RingIInv => RingsAreRight
  <2> SUFFICES ASSUME RingIInv, NEW r \in Requests, req[r].at = "done",
                      NEW i \in DOMAIN req[r].inputs
               PROVE  Right(req[r].inputs[i], req[r].results[i])
    BY DEF RingsAreRight, Right
  <2>1. EachOut(req[r])
    BY DEF RingIInv, RequestOK
  <2> QED BY <2>1 DEF EachOut
<1> QED BY <1>1, RingInitInv, RingNextInv, PTL DEF RingSpec

\* No input is blanked by another, nor by an eviction: whose members the daemon
\* had all along is resolved, unless a call failed (resolve_rings).
THEOREM SoundInputsResolved == RingSpec => []SoundInputResolved
<1>1. RingIInv => SoundInputResolved
  <2> SUFFICES ASSUME RingIInv, NEW r \in Requests, req[r].at = "done",
                      NEW i \in DOMAIN req[r].inputs
               PROVE  Owed(req[r].inputs[i], req[r].results[i], req[r].heldAt, req[r].faulted)
    BY DEF SoundInputResolved, Owed
  <2>1. EachOut(req[r])
    BY DEF RingIInv, RequestOK
  <2> QED BY <2>1 DEF EachOut
<1> QED BY <1>1, RingInitInv, RingNextInv, PTL DEF RingSpec
=============================================================================
