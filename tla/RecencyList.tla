---------------------------- MODULE RecencyList -----------------------------
(***************************************************************************)
(* What the cache of cache.rs promises, without clocks or cut-offs: a list *)
(* of entries ordered by use, least recent first.  A use moves an entry to *)
(* the end, making room takes a batch off the front, and an expired entry  *)
(* is gone before it can be found.  A broken cache is empty and stays so.  *)
(***************************************************************************)
EXTENDS Integers, Sequences

CONSTANTS Keys, Values, NoTtl, Absent

VARIABLES
  cap, batch, ttl,  \* what it holds, drops at once and keeps: fixed when made
  list,    \* sequence of [key, value, stored_at], least recently used first
  broken,
  now,
  reply

fixed == <<cap, batch, ttl>>
vars == <<fixed, list, broken, now, reply>>

Has(k) == \E i \in 1..Len(list) : list[i].key = k

At(k) == CHOOSE i \in 1..Len(list) : list[i].key = k

Of(k) == list[At(k)]

Without(k) ==
  IF Has(k)
  THEN [i \in 1..(Len(list) - 1) |-> IF i < At(k) THEN list[i] ELSE list[i + 1]]
  ELSE list

Live(k) == Has(k) /\ (ttl # NoTtl => now - Of(k).stored_at < ttl)

Init ==
  /\ cap \in Nat \ {0} /\ batch \in 1..cap /\ ttl \in Nat \cup {NoTtl}
  /\ list = <<>> /\ broken = FALSE /\ now = 0 /\ reply = Absent

Lookup(k) ==
  /\ IF Live(k)
     THEN list' = Append(Without(k), Of(k)) /\ reply' = <<k, Of(k).value>>
     ELSE list' = Without(k) /\ reply' = <<k, Absent>>
  /\ UNCHANGED <<fixed, broken, now>>

\* The front of a full list goes, one batch at a time, to make room for a new key.
Room ==
  IF Len(list) < cap THEN list
  ELSE IF batch >= Len(list) THEN <<>> ELSE SubSeq(list, batch + 1, Len(list))

Put(k, v) ==
  /\ list' = IF broken THEN <<>>
             ELSE Append(IF Has(k) THEN Without(k) ELSE Room,
                         [key |-> k, value |-> v, stored_at |-> now])
  /\ reply' = <<k, v>>
  /\ UNCHANGED <<fixed, broken, now>>

Break == broken' = TRUE /\ list' = <<>> /\ UNCHANGED <<fixed, now, reply>>

Pass == now' = now + 1 /\ UNCHANGED <<fixed, list, broken, reply>>

Next ==
  \/ \E k \in Keys : Lookup(k)
  \/ \E k \in Keys, v \in Values : Put(k, v)
  \/ Break
  \/ Pass

Spec == Init /\ [][Next]_vars
=============================================================================
