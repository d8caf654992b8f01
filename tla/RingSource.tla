----------------------------- MODULE RingSource -----------------------------
(***************************************************************************)
(* RpcChainSource::resolve_rings (rpc_source.rs): the ring members of every*)
(* input of a transaction, from a shared cache and /get_outs.              *)
(*                                                                         *)
(* A transaction's rings are asked for in one call; when the daemon refuses*)
(* it, each input is asked for by itself, all together, so that one input  *)
(* that cannot be resolved does not take the others with it.               *)
(***************************************************************************)
EXTENDS Integers, SequencesExt, Sift

CONSTANTS
  Requests,
  Inputs,      \* lists of inputs: [kind, amount, key_offsets]
  Amounts,     \* denominations; 0 stands for RingCT
  MaxU64,      \* the largest u64
  MaxOutputs,  \* bound: outputs of one denomination
  Branches     \* labels telling apart two outputs that had one index

KeyInput == [kind : {"key"}, amount : Amounts, key_offsets : Seq(Nat)]
GenInput == [kind : {"gen"}]

ASSUME AmountAssumption == Amounts \subseteq Nat /\ MaxU64 \in Nat /\ MaxOutputs \in Nat
ASSUME InputAssumption == Inputs \subseteq Seq(KeyInput \cup GenInput)

VARIABLES
  held,  \* the daemon's outputs: <<amount, index>> -> output
  outs,  \* the cache: <<amount, index>> -> output
  req

ringVars == <<held, outs, req>>

-----------------------------------------------------------------------------
\* Running totals of relative offsets; total[0] is 0.
Totals(key_offsets) ==
  LET total[i \in 0..Len(key_offsets)] ==
        IF i = 0 THEN 0 ELSE total[i - 1] + key_offsets[i]
  IN  total

\* Whether ring_members returns Some: no sum passes u64::MAX.
Summable(input) ==
  \A i \in 1..Len(input.key_offsets) : Totals(input.key_offsets)[i] <= MaxU64

\* Fault: an index without the denomination it belongs to.
ring_members_bare(input) ==
  [i \in 1..Len(input.key_offsets) |-> <<0, Totals(input.key_offsets)[i]>>]

ring_members(input) ==
  [i \in 1..Len(input.key_offsets) |-> <<input.amount, Totals(input.key_offsets)[i]>>]

Members(input) == ToSet(ring_members(input))

-----------------------------------------------------------------------------
\* The daemon.  A new output takes the next index of its denomination.
Count(a) == Cardinality({k \in DOMAIN held : k[1] = a})

NewOutput(a, b) ==
  /\ Count(a) < MaxOutputs
  /\ LET k == <<a, Count(a)>>
     IN  held' = [j \in DOMAIN held \cup {k} |->
                    IF j = k THEN [key |-> k, branch |-> b] ELSE held[j]]
  /\ UNCHANGED <<outs, req>>

\* A reorganisation gives the newest index to another output.
Reassigned(a, b) ==
  /\ Count(a) > 0
  /\ LET k == <<a, Count(a) - 1>>
     IN  held[k].branch # b /\ held' = [held EXCEPT ![k].branch = b]
  /\ UNCHANGED <<outs, req>>

\* get_outs refuses the whole request if one index is out of range; it may be
\* busy or unreachable, or answer with an array that is too short.
Whole(wanted) == [i \in 1..Len(wanted) |-> held[wanted[i]]]

Replies(wanted) ==
  {[kind |-> "refused"], [kind |-> "down"]} \cup
  IF ToSet(wanted) \subseteq DOMAIN held
  THEN {[kind |-> "outs", outs |-> Whole(wanted)],
        [kind |-> "outs", outs |-> Tail(Whole(wanted))]}
  ELSE {}

\* A reply that says nothing about the indices asked for.
IsFault(wanted, reply) ==
  \/ reply.kind = "down"
  \/ reply.kind = "refused" /\ ToSet(wanted) \subseteq DOMAIN held
  \/ reply.kind = "outs" /\ Len(reply.outs) # Len(wanted)

-----------------------------------------------------------------------------
Idle == [at |-> "idle"]

RingInit ==
  /\ \E b \in Branches :
       held = [k \in {<<a, 0>> : a \in Amounts} |-> [key |-> k, branch |-> b]]
  /\ outs = [k \in {} |-> 0]
  /\ req = [r \in Requests |-> Idle]

Free(r) == req[r].at \in {"idle", "done"}

Pending == [at |-> "pending"]
Unresolved(unavailable) ==
  [at |-> "resolved", ring |-> <<>>, ring_unavailable |-> unavailable]
Resolved(members, known) ==
  [at |-> "resolved", ring_unavailable |-> FALSE,
   ring |-> [i \in 1..Len(members) |-> [key |-> members[i], out |-> known[members[i]]]]]

\* The first poll of resolve_ring: what needs no call.
ResolvedAlone(input) ==
  CASE ~Summable(input) -> Unresolved(TRUE)
    [] Summable(input) /\ input.key_offsets = <<>> -> Unresolved(FALSE)
    [] OTHER -> IF Members(input) \subseteq DOMAIN outs
                THEN Resolved(ring_members(input), outs)
                ELSE Pending

\* Where a request stands once its inputs are asked for one by one.
Alone(inputs, heldAt, faulted) ==
  LET results == [i \in DOMAIN inputs |-> ResolvedAlone(inputs[i])]
  IN  [at |-> IF \E i \in DOMAIN inputs : results[i] = Pending THEN "alone" ELSE "done",
       inputs |-> inputs, results |-> results, heldAt |-> heldAt, faulted |-> faulted]

\* What the batch returns: a ring with a member it does not know is given up.
ResolvedTogether(inputs, known) ==
  [i \in DOMAIN inputs |->
     IF Members(inputs[i]) \subseteq DOMAIN known
     THEN Resolved(ring_members(inputs[i]), known)
     ELSE Unresolved(TRUE)]

Together(inputs, known, heldAt) ==
  [at |-> "done", inputs |-> inputs, results |-> ResolvedTogether(inputs, known),
   heldAt |-> heldAt, faulted |-> FALSE]

CanBatch(inputs) ==
  /\ Len(inputs) > 1
  /\ \A i \in DOMAIN inputs : Summable(inputs[i]) /\ inputs[i].key_offsets # <<>>

\* The members not in the cache, each once.  In what order makes no difference:
\* the answers are paired with them by position.
Wanted(inputs) ==
  SetToSeq((UNION {Members(inputs[i]) : i \in DOMAIN inputs}) \ DOMAIN outs)

RingsAsked(r, tx) ==
  /\ Free(r)
  /\ LET inputs == Within(tx, KeyInput)
         known  == Restrict(outs, DOMAIN outs \cap UNION {Members(inputs[i]) : i \in DOMAIN inputs})
         start  == DOMAIN held
     IN  req' = [req EXCEPT ![r] =
           CASE ~CanBatch(inputs) -> Alone(inputs, start, FALSE)
             [] CanBatch(inputs) /\ Wanted(inputs) = <<>> -> Together(inputs, known, start)
             [] OTHER -> [at |-> "together", inputs |-> inputs, known |-> known,
                          wanted |-> Wanted(inputs), heldAt |-> start]]
  /\ UNCHANGED <<held, outs>>

-----------------------------------------------------------------------------

Usable(reply, wanted) == reply.kind = "outs" /\ Len(reply.outs) = Len(wanted)

\* Each request paired with the output at the same position of the reply: as
\* cache entries, and as a ring.
Zipped(wanted, found) ==
  [k \in {wanted[i] : i \in DOMAIN found} |->
     found[CHOOSE i \in DOMAIN found :
             wanted[i] = k /\ \A j \in DOMAIN found : j > i => wanted[j] # k]]

Paired(wanted, found) ==
  [at |-> "resolved", ring_unavailable |-> FALSE,
   ring |-> [i \in 1..Len(found) |-> [key |-> wanted[i], out |-> found[i]]]]

Over(new, old) ==
  [k \in DOMAIN new \cup DOMAIN old |-> IF k \in DOMAIN new THEN new[k] ELSE old[k]]

\* Fault: the members are read back out of the cache.
KnownFromCache(known, fresh, kept) == Restrict(Over(fresh, known), kept)

\* What the batch knows once `fresh` is cached, whatever the cache kept of it.
KnownAfter(known, fresh, kept) == Over(fresh, known)

FallBack(q, faulted) == Alone(q.inputs, q.heldAt, faulted)

BatchReplied(r) ==
  /\ req[r].at = "together"
  /\ LET q == req[r] IN
     \E reply \in Replies(q.wanted) :
       \/ /\ Usable(reply, q.wanted)
          /\ LET fresh == Zipped(q.wanted, reply.outs)
                 all   == Over(fresh, outs)
             IN  \E kept \in SUBSET DOMAIN all :
                   /\ outs' = Restrict(all, kept)
                   /\ req' = [req EXCEPT ![r] =
                        Together(q.inputs, KnownAfter(q.known, fresh, kept), q.heldAt)]
       \/ /\ ~Usable(reply, q.wanted)
          /\ req' = [req EXCEPT ![r] = FallBack(q, IsFault(q.wanted, reply))]
          /\ UNCHANGED outs
  /\ UNCHANGED held

\* The result of one input is in; resolve_rings returns with the last.
Filed(q, i, x, faulted) ==
  [at |-> IF \E j \in DOMAIN q.inputs : j # i /\ q.results[j] = Pending THEN "alone" ELSE "done",
   inputs |-> q.inputs, results |-> [q.results EXCEPT ![i] = x],
   heldAt |-> q.heldAt, faulted |-> faulted]

\* One input's own call comes back.
InputReplied(r, i) ==
  /\ req[r].at = "alone"
  /\ i \in DOMAIN req[r].inputs
  /\ req[r].results[i] = Pending
  /\ LET q      == req[r]
         wanted == ring_members(q.inputs[i])
     IN  \E reply \in Replies(wanted) :
           \/ /\ Usable(reply, wanted)
              /\ LET all == Over(Zipped(wanted, reply.outs), outs)
                 IN  \E kept \in SUBSET DOMAIN all : outs' = Restrict(all, kept)
              /\ req' = [req EXCEPT ![r] = Filed(q, i, Paired(wanted, reply.outs), q.faulted)]
           \/ /\ ~Usable(reply, wanted)
              /\ req' = [req EXCEPT ![r] =
                   Filed(q, i, Unresolved(TRUE), q.faulted \/ IsFault(wanted, reply))]
              /\ UNCHANGED outs
  /\ UNCHANGED held

\* The request's deadline passes and its calls are dropped.
Cancelled(r) ==
  /\ ~Free(r)
  /\ req' = [req EXCEPT ![r] = Idle]
  /\ UNCHANGED <<held, outs>>

RingNext ==
  \/ \E a \in Amounts, b \in Branches : NewOutput(a, b) \/ Reassigned(a, b)
  \/ \E r \in Requests, tx \in Inputs : RingsAsked(r, tx)
  \/ \E r \in Requests :
       \/ BatchReplied(r) \/ Cancelled(r)
       \/ req[r].at = "alone" /\ \E i \in DOMAIN req[r].inputs : InputReplied(r, i)

RingSpec == RingInit /\ [][RingNext]_ringVars

-----------------------------------------------------------------------------

\* A ring is shown whole or not at all, and each member is the output its own
\* offset and denomination name, whichever of the cache, the batch and the
\* input's own call it came from (resolve_ring, resolve_rings_together).
RingsAreRight ==
  \A r \in Requests : req[r].at = "done" =>
    \A i \in DOMAIN req[r].inputs :
      LET input == req[r].inputs[i]
          got   == req[r].results[i]
      IN  IF got.ring_unavailable
          THEN got.ring = <<>>
          ELSE /\ Summable(input)
               /\ Len(got.ring) = Len(input.key_offsets)
               /\ \A m \in DOMAIN got.ring :
                    got.ring[m].out.key = <<input.amount, Totals(input.key_offsets)[m]>>

\* An input whose members the daemon had all along is resolved unless a call
\* failed: another input that cannot be resolved never blanks it, and neither
\* does an eviction while the rings are being put together (resolve_rings).
SoundInputResolved ==
  \A r \in Requests : req[r].at = "done" /\ ~req[r].faulted =>
    \A i \in DOMAIN req[r].inputs :
      Summable(req[r].inputs[i]) /\ Members(req[r].inputs[i]) \subseteq req[r].heldAt
        => ~req[r].results[i].ring_unavailable
=============================================================================
