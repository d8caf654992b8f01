------------------------------ MODULE RpcProofs ------------------------------
(***************************************************************************)
(* The way to the daemon and back: what the gate in front of it lets       *)
(* through (RpcGate), what one call may take, hold and conclude            *)
(* (RpcClient), and what becomes of its reply (Decoding).  The three share *)
(* no state, so each is proved from an invariant of its own.               *)
(***************************************************************************)
EXTENDS RpcGate, RpcClient, Decoding, SiftProofs, FiniteSetTheorems, TLAPS

(***************************************************************************)
(* The gate: permits are conserved and no call outlives its request, for   *)
(* any number of requests, routes, permits and calls at once.              *)
(*                                                                         *)
(* That the free permits and the calls in flight add up is not inductive   *)
(* alone: a call granted twice would take a permit and add nothing to the  *)
(* set.  Calls are therefore told apart (Apart), which holds because a     *)
(* stage starts only when the last has left no call behind, and a handler  *)
(* that is dropped leaves none either (SiftKeeps).                         *)
(***************************************************************************)

GateTyped ==
  /\ phase \in [Requests -> {"idle", "queued", "running"}]
  /\ stages \in [Requests -> Seq(1..MaxStage)]
  /\ waiting \in Seq(Call)
  /\ inflight \in SUBSET Call /\ IsFiniteSet(inflight)
  /\ permits \in Nat /\ ceiling \in Nat

\* No call is queued twice, or queued and in flight.
Apart ==
  /\ \A i, j \in DOMAIN waiting : i # j => waiting[i] # waiting[j]
  /\ \A i \in DOMAIN waiting : waiting[i] \notin inflight

GateIInv == GateTyped /\ Apart /\ PermitsConserved /\ NoOrphanCalls

-----------------------------------------------------------------------------
USE RouteAssumption, PlanAssumption, InflightAssumption

LEMMA GateInitInv == ASSUME Init PROVE GateIInv
<1>1. PICK n \in Given : ceiling = max_inflight(n)
  BY DEF Init
<1>2. ceiling \in Nat
  BY <1>1 DEF max_inflight
<1>3. GateTyped
  BY <1>2, FS_EmptySet DEF Init, GateTyped
<1>4. PermitsConserved
  BY <1>2, FS_EmptySet DEF Init, PermitsConserved
<1> QED BY <1>3, <1>4 DEF Init, GateIInv, Apart, NoOrphanCalls

\* A request that has no call anywhere may change its phase.
LEMMA PhaseMoves ==
  ASSUME GateIInv, NEW r \in Requests, CallsOf(r) = {}, ~Queued(r),
         NEW p \in {"idle", "queued", "running"},
         phase' = [phase EXCEPT ![r] = p], UNCHANGED <<waiting, inflight>>
  PROVE  NoOrphanCalls'
<1>1. \A c \in inflight : c[1] \in Requests /\ c[1] # r
  BY DEF CallsOf, GateIInv, GateTyped, Call
<1>2. \A i \in DOMAIN waiting : waiting[i][1] \in Requests /\ waiting[i][1] # r
  <2>1. \A i \in DOMAIN waiting : waiting[i] \in Call
    BY DEF GateIInv, GateTyped
  <2> QED BY <2>1 DEF Queued, Call
<1> QED BY <1>1, <1>2 DEF NoOrphanCalls, GateIInv, GateTyped

\* Only a request that is being handled has calls.
LEMMA OthersHaveNone ==
  ASSUME GateIInv, NEW r \in Requests, phase[r] # "running"
  PROVE  CallsOf(r) = {} /\ ~Queued(r)
  BY DEF GateIInv, NoOrphanCalls, CallsOf, Queued

LEMMA StepStartStage ==
  ASSUME GateIInv, NEW r \in Requests, StartStage(r)
  PROVE  GateIInv'
<1> DEFINE n == Head(stages[r])
           new == [i \in 1..n |-> <<r, i>>]
<1>1. /\ CallsOf(r) = {} /\ ~Queued(r) /\ phase[r] = "running"
      /\ waiting' = waiting \o new /\ stages' = [stages EXCEPT ![r] = Tail(@)]
      /\ UNCHANGED <<phase, lobby, inflight, permits, ceiling>>
  BY DEF StartStage, Awaited
<1>2. stages[r] \in Seq(1..MaxStage) /\ stages[r] # <<>>
  BY DEF GateIInv, GateTyped, StartStage
<1>3. n \in 1..MaxStage /\ Tail(stages[r]) \in Seq(1..MaxStage)
  BY <1>2, HeadTailProperties
<1>4. new \in Seq(Call) /\ Len(new) = n /\ \A i \in 1..n : new[i] = <<r, i>>
  <2>1. \A i \in 1..n : <<r, i>> \in Call
    BY <1>3 DEF Call
  <2>2. new \in [1..n -> Call] /\ n \in Nat
    BY <1>3, <2>1
  <2>3. new \in Seq(Call)
    <3> HIDE DEF new, n
    <3> QED BY <2>2, SeqDef
  <2>4. Len(new) = n
    <3>1. DOMAIN new = 1..n
      OBVIOUS
    <3> HIDE DEF new, n
    <3> QED BY <2>2, <2>3, <3>1, LenProperties
  <2> QED BY <2>3, <2>4
<1> HIDE DEF n, new
<1>5. waiting \in Seq(Call)
  BY DEF GateIInv, GateTyped
<1>6. /\ waiting' \in Seq(Call)
      /\ \A i \in DOMAIN waiting' :
           \/ i \in DOMAIN waiting /\ waiting'[i] = waiting[i]
           \/ i - Len(waiting) \in 1..n /\ waiting'[i] = <<r, i - Len(waiting)>>
  <2>1. waiting' \in Seq(Call) /\ Len(waiting') = Len(waiting) + n
    BY <1>1, <1>4, <1>5, ConcatProperties
  <2>2. ASSUME NEW i \in DOMAIN waiting', i \notin DOMAIN waiting
        PROVE  i - Len(waiting) \in 1..n /\ waiting'[i] = new[i - Len(waiting)]
    BY <1>1, <1>3, <1>4, <1>5, <2>1, <2>2
  <2>3. ASSUME NEW i \in DOMAIN waiting', i \in DOMAIN waiting
        PROVE  waiting'[i] = waiting[i]
    BY <1>1, <1>4, <1>5, <2>3
  <2> QED BY <1>4, <2>1, <2>2, <2>3
<1>7. \A i \in DOMAIN waiting : waiting[i][1] # r
  BY <1>1 DEF Queued
<1>8. \A c \in inflight : c[1] # r
  BY <1>1 DEF CallsOf
<1>9. GateTyped'
  BY <1>1, <1>3, <1>6 DEF GateIInv, GateTyped
<1>10. Apart'
  <2>1. ASSUME NEW i \in DOMAIN waiting', NEW j \in DOMAIN waiting', i # j
        PROVE  waiting'[i] # waiting'[j]
    <3>1. i \in Nat /\ j \in Nat /\ Len(waiting) \in Nat
      BY <1>5, <1>6
    <3>2. CASE i \in DOMAIN waiting /\ j \in DOMAIN waiting
      <4>1. waiting'[i] = waiting[i] /\ waiting'[j] = waiting[j]
        <5>1. DOMAIN waiting = 1..Len(waiting)
          BY <1>5
        <5> QED BY <1>6, <3>1, <3>2, <5>1
      <4> QED BY <2>1, <3>2, <4>1 DEF GateIInv, Apart
    <3>3. CASE i \notin DOMAIN waiting /\ j \notin DOMAIN waiting
      <4>1. waiting'[i] = <<r, i - Len(waiting)>> /\ waiting'[j] = <<r, j - Len(waiting)>>
        BY <1>6, <3>3
      <4>2. i - Len(waiting) # j - Len(waiting)
        BY <2>1, <3>1
      <4> QED BY <4>1, <4>2
    <3>4. CASE i \in DOMAIN waiting /\ j \notin DOMAIN waiting
      <4>1. waiting'[j] = <<r, j - Len(waiting)>> /\ waiting'[i][1] # r
        <5>1. waiting'[i] = waiting[i]
          <6>1. ~(i - Len(waiting) \in 1..n) \/ i \notin 1..Len(waiting)
            BY <1>3, <3>1
          <6>2. DOMAIN waiting = 1..Len(waiting)
            BY <1>5
          <6> QED BY <1>6, <3>4, <6>1, <6>2
        <5> QED BY <1>6, <1>7, <3>4, <5>1
      <4> QED BY <4>1
    <3>5. CASE i \notin DOMAIN waiting /\ j \in DOMAIN waiting
      <4>1. waiting'[i] = <<r, i - Len(waiting)>> /\ waiting'[j][1] # r
        <5>1. waiting'[j] = waiting[j]
          <6>1. ~(j - Len(waiting) \in 1..n) \/ j \notin 1..Len(waiting)
            BY <1>3, <3>1
          <6>2. DOMAIN waiting = 1..Len(waiting)
            BY <1>5
          <6> QED BY <1>6, <3>5, <6>1, <6>2
        <5> QED BY <1>6, <1>7, <3>5, <5>1
      <4> QED BY <4>1
    <3> QED BY <3>2, <3>3, <3>4, <3>5
  <2>2. ASSUME NEW i \in DOMAIN waiting'
        PROVE  waiting'[i] \notin inflight
    <3>1. CASE i \in DOMAIN waiting /\ waiting'[i] = waiting[i]
      BY <3>1 DEF GateIInv, Apart
    <3>2. CASE waiting'[i] = <<r, i - Len(waiting)>>
      <4>1. waiting'[i][1] = r
        BY <3>2
      <4> QED BY <1>8, <4>1
    <3> QED BY <1>6, <3>1, <3>2
  <2> QED BY <1>1, <2>1, <2>2 DEF Apart
<1>11. NoOrphanCalls'
  <2>1. ASSUME NEW i \in DOMAIN waiting' PROVE phase[waiting'[i][1]] = "running"
    <3>1. CASE i \in DOMAIN waiting /\ waiting'[i] = waiting[i]
      BY <3>1 DEF GateIInv, NoOrphanCalls
    <3>2. CASE waiting'[i] = <<r, i - Len(waiting)>>
      <4>1. waiting'[i][1] = r
        BY <3>2
      <4> QED BY <1>1, <4>1
    <3> QED BY <1>6, <3>1, <3>2
  <2> QED BY <1>1, <2>1 DEF GateIInv, NoOrphanCalls
<1>12. PermitsConserved'
  BY <1>1 DEF GateIInv, PermitsConserved
<1> QED BY <1>9, <1>10, <1>11, <1>12 DEF GateIInv

LEMMA StepGrant ==
  ASSUME GateIInv, Grant
  PROVE  GateIInv'
<1> DEFINE c == Head(waiting)
<1>1. /\ waiting \in Seq(Call) /\ waiting # <<>> /\ permits \in Nat /\ permits > 0
      /\ waiting' = Tail(waiting) /\ inflight' = inflight \cup {c} /\ permits' = permits - 1
      /\ UNCHANGED <<phase, lobby, stages, ceiling>>
  BY DEF GateIInv, GateTyped, Grant
<1>2. Len(waiting) \in Nat \ {0} /\ DOMAIN waiting = 1..Len(waiting) /\ c = waiting[1]
  BY <1>1, EmptySeq, LenProperties
<1>3. /\ c \in Call /\ waiting' \in Seq(Call) /\ DOMAIN waiting' = 1..(Len(waiting) - 1)
      /\ \A i \in DOMAIN waiting' : waiting'[i] = waiting[i + 1]
  <2>1. Len(waiting') = Len(waiting) - 1 /\ waiting' \in Seq(Call) /\ c \in Call
    BY <1>1, HeadTailProperties
  <2>2. DOMAIN waiting' = 1..Len(waiting')
    BY <2>1, LenProperties
  <2> QED BY <1>1, <2>1, <2>2, HeadTailProperties
<1> HIDE DEF c
<1>4. 1 \in DOMAIN waiting /\ \A i \in DOMAIN waiting' : i + 1 \in DOMAIN waiting /\ i + 1 # 1
  BY <1>2, <1>3
<1>5. c \notin inflight
  BY <1>2, <1>4 DEF GateIInv, Apart
<1>6. IsFiniteSet(inflight') /\ Cardinality(inflight') = Cardinality(inflight) + 1
  BY <1>1, <1>5, FS_AddElement DEF GateIInv, GateTyped
<1>7. GateTyped'
  BY <1>1, <1>3, <1>6 DEF GateIInv, GateTyped
<1>8. Apart'
  <2>1. ASSUME NEW i \in DOMAIN waiting', NEW j \in DOMAIN waiting', i # j
        PROVE  waiting'[i] # waiting'[j]
    <3>1. i + 1 # j + 1 /\ i + 1 \in DOMAIN waiting /\ j + 1 \in DOMAIN waiting
      BY <1>2, <1>3, <1>4, <2>1
    <3> QED BY <1>3, <3>1 DEF GateIInv, Apart
  <2>2. ASSUME NEW i \in DOMAIN waiting'
        PROVE  waiting'[i] \notin inflight'
    <3>1. i + 1 \in DOMAIN waiting /\ i + 1 # 1 /\ waiting'[i] = waiting[i + 1]
      BY <1>3, <1>4
    <3>2. waiting[i + 1] # waiting[1] /\ waiting[i + 1] \notin inflight
      BY <1>4, <3>1 DEF GateIInv, Apart
    <3> QED BY <1>1, <1>2, <3>1, <3>2
  <2> QED BY <2>1, <2>2 DEF Apart
<1>9. NoOrphanCalls'
  <2>1. phase[c[1]] = "running"
    BY <1>2, <1>4 DEF GateIInv, NoOrphanCalls
  <2>2. \A i \in DOMAIN waiting' : phase[waiting'[i][1]] = "running"
    BY <1>3, <1>4 DEF GateIInv, NoOrphanCalls
  <2> QED BY <1>1, <2>1, <2>2 DEF GateIInv, NoOrphanCalls
<1>10. PermitsConserved'
  <2>1. Cardinality(inflight) \in Nat
    BY FS_CardinalityType DEF GateIInv, GateTyped
  <2> QED BY <1>1, <1>6, <2>1 DEF GateIInv, PermitsConserved
<1> QED BY <1>7, <1>8, <1>9, <1>10 DEF GateIInv

LEMMA StepCallEnds ==
  ASSUME GateIInv, NEW c \in inflight, CallEnds(c)
  PROVE  GateIInv'
<1>1. /\ inflight' = inflight \ {c} /\ permits' = permits + 1
      /\ UNCHANGED <<phase, lobby, stages, waiting, ceiling>>
  BY DEF CallEnds
<1>2. /\ IsFiniteSet(inflight') /\ Cardinality(inflight') = Cardinality(inflight) - 1
      /\ Cardinality(inflight) \in Nat
  BY <1>1, FS_RemoveElement, FS_CardinalityType DEF GateIInv, GateTyped
<1>3. GateTyped'
  BY <1>1, <1>2 DEF GateIInv, GateTyped
<1>4. Apart' /\ NoOrphanCalls'
  BY <1>1 DEF GateIInv, Apart, NoOrphanCalls
<1>5. PermitsConserved'
  BY <1>1, <1>2 DEF GateIInv, GateTyped, PermitsConserved
<1> QED BY <1>3, <1>4, <1>5 DEF GateIInv

LEMMA StepDrop ==
  ASSUME GateIInv, NEW r \in Requests, Drop(r)
  PROVE  GateIInv'
<1>1. /\ phase' = [phase EXCEPT ![r] = "idle"] /\ stages' = [stages EXCEPT ![r] = <<>>]
      /\ waiting' = Within(waiting, {c \in Call : c[1] # r}) /\ inflight' = inflight \ CallsOf(r)
      /\ permits' = permits + Cardinality(CallsOf(r)) /\ UNCHANGED <<lobby, ceiling>>
  BY DEF Drop, Release
<1>2. waiting \in Seq(Call) /\ \A i, j \in DOMAIN waiting : i # j => waiting[i] # waiting[j]
  BY DEF GateIInv, GateTyped, Apart
<1>3. /\ waiting' \in Seq(Call)
      /\ \A k \in DOMAIN waiting' :
           \E i \in DOMAIN waiting : waiting'[k] = waiting[i] /\ waiting[i][1] # r
      /\ \A k, l \in DOMAIN waiting' : k # l => waiting'[k] # waiting'[l]
  <2> DEFINE others == {c \in Call : c[1] # r}
  <2>1. waiting' = Within(waiting, others)
    BY <1>1
  <2>2. \A c \in others : c[1] # r
    OBVIOUS
  <2> HIDE DEF others
  <2>3. /\ waiting' \in Seq(Call)
        /\ \A k \in DOMAIN waiting' :
             \E i \in DOMAIN waiting : waiting'[k] = waiting[i] /\ waiting[i] \in others
        /\ \A k, l \in DOMAIN waiting' : k # l => waiting'[k] # waiting'[l]
    BY <1>2, <2>1, SiftKeeps DEF Unrepeated
  <2> QED BY <2>2, <2>3
<1>4. CallsOf(r) \in SUBSET inflight /\ IsFiniteSet(inflight)
  BY DEF CallsOf, GateIInv, GateTyped
<1>5. /\ IsFiniteSet(inflight') /\ Cardinality(CallsOf(r)) \in Nat
      /\ Cardinality(inflight) \in Nat
      /\ Cardinality(inflight') = Cardinality(inflight) - Cardinality(CallsOf(r))
  <2>1. inflight \cap CallsOf(r) = CallsOf(r) /\ IsFiniteSet(CallsOf(r))
    BY <1>4, FS_Subset
  <2> QED BY <1>1, <1>4, <2>1, FS_Difference, FS_CardinalityType
<1>6. GateTyped'
  <2>1. <<>> \in Seq(1..MaxStage)
    OBVIOUS
  <2>2. phase' \in [Requests -> {"idle", "queued", "running"}]
    BY <1>1 DEF GateIInv, GateTyped
  <2>3. stages' \in [Requests -> Seq(1..MaxStage)]
    BY <1>1, <2>1 DEF GateIInv, GateTyped
  <2>4. permits' \in Nat /\ ceiling' \in Nat /\ inflight' \in SUBSET Call
    BY <1>1, <1>5 DEF GateIInv, GateTyped
  <2> QED BY <1>3, <1>5, <2>2, <2>3, <2>4 DEF GateTyped
<1>7. Apart'
  BY <1>1, <1>3 DEF GateIInv, Apart
<1>8. NoOrphanCalls'
  <2>1. ASSUME NEW c \in inflight' PROVE phase'[c[1]] = "running"
    <3>1. c \in inflight /\ c[1] # r
      BY <1>1 DEF CallsOf
    <3>2. c[1] \in Requests
      BY <3>1 DEF GateIInv, GateTyped, Call
    <3> QED BY <1>1, <3>1, <3>2 DEF GateIInv, GateTyped, NoOrphanCalls
  <2>2. ASSUME NEW k \in DOMAIN waiting' PROVE phase'[waiting'[k][1]] = "running"
    <3>1. PICK i \in DOMAIN waiting : waiting'[k] = waiting[i] /\ waiting[i][1] # r
      BY <1>3
    <3>2. waiting[i] \in Call
      BY <1>2
    <3>3. waiting[i][1] \in Requests
      BY <3>2 DEF Call
    <3> QED BY <1>1, <3>1, <3>3 DEF GateIInv, GateTyped, NoOrphanCalls
  <2> QED BY <2>1, <2>2 DEF NoOrphanCalls
<1>9. PermitsConserved'
  BY <1>1, <1>5 DEF GateIInv, GateTyped, PermitsConserved
<1> QED BY <1>6, <1>7, <1>8, <1>9 DEF GateIInv

\* The steps that leave calls and permits alone.
LEMMA StepRest ==
  ASSUME GateIInv,
         \/ \E r \in Requests : Arrive(r) \/ Answer(r) \/ LeaveQueue(r)
         \/ \E p \in Routes : Admit(p)
         \/ Shutdown \/ Stopped \/ UNCHANGED vars
  PROVE  GateIInv'
<1>1. UNCHANGED <<waiting, inflight, permits, ceiling>>
  BY DEF Arrive, Answer, LeaveQueue, Admit, Shutdown, Stopped, vars
<1>2. Apart' /\ PermitsConserved'
  BY <1>1 DEF GateIInv, Apart, PermitsConserved
<1>3. phase' \in [Requests -> {"idle", "queued", "running"}] /\ stages' \in [Requests -> Seq(1..MaxStage)]
  <2>1. <<>> \in Seq(1..MaxStage)
    OBVIOUS
  <2>2. ASSUME NEW r \in Requests, Arrive(r) \/ Answer(r) \/ LeaveQueue(r)
        PROVE  phase' \in [Requests -> {"idle", "queued", "running"}] /\ stages' \in [Requests -> Seq(1..MaxStage)]
    BY <2>1, <2>2 DEF GateIInv, GateTyped, Arrive, Answer, LeaveQueue
  <2>3. ASSUME NEW p \in Routes, Admit(p)
        PROVE  phase' \in [Requests -> {"idle", "queued", "running"}] /\ stages' \in [Requests -> Seq(1..MaxStage)]
    BY <2>3 DEF GateIInv, GateTyped, Admit
  <2>4. CASE Shutdown \/ Stopped \/ UNCHANGED vars
    BY <2>4 DEF GateIInv, GateTyped, Shutdown, Stopped, vars
  <2> QED BY <2>2, <2>3, <2>4
<1>4. GateTyped'
  BY <1>1, <1>3 DEF GateIInv, GateTyped
<1>5. NoOrphanCalls'
  <2>1. ASSUME NEW r \in Requests, Arrive(r) \/ Answer(r) \/ LeaveQueue(r)
        PROVE  NoOrphanCalls'
    <3>1. PICK p \in {"idle", "queued", "running"} : phase' = [phase EXCEPT ![r] = p]
      BY <2>1 DEF Arrive, Answer, LeaveQueue
    <3>2. CASE Answer(r)
      <4>1. CallsOf(r) = {} /\ ~Queued(r)
        BY <3>2 DEF Answer, Awaited
      <4> QED BY <1>1, <3>1, <4>1, PhaseMoves
    <3>3. CASE Arrive(r) \/ LeaveQueue(r)
      <4>1. phase[r] # "running"
        BY <3>3 DEF Arrive, LeaveQueue
      <4> QED BY <1>1, <3>1, <4>1, OthersHaveNone, PhaseMoves
    <3> QED BY <2>1, <3>2, <3>3
  <2>2. ASSUME NEW p \in Routes, Admit(p)
        PROVE  NoOrphanCalls'
    <3>1. phase' = [phase EXCEPT ![Head(lobby[p])] = "running"]
      BY <2>2 DEF Admit
    <3>2. \A q \in Requests : phase[q] = "running" => phase'[q] = "running"
      BY <3>1 DEF GateIInv, GateTyped
    <3>3. \A c \in inflight : c[1] \in Requests
      BY DEF GateIInv, GateTyped, Call
    <3>4. \A i \in DOMAIN waiting : waiting[i][1] \in Requests
      <4>1. \A i \in DOMAIN waiting : waiting[i] \in Call
        BY DEF GateIInv, GateTyped
      <4> QED BY <4>1 DEF Call
    <3> QED BY <1>1, <3>2, <3>3, <3>4 DEF GateIInv, NoOrphanCalls
  <2>3. CASE Shutdown \/ Stopped \/ UNCHANGED vars
    BY <2>3 DEF GateIInv, NoOrphanCalls, Shutdown, Stopped, vars
  <2> QED BY <2>1, <2>2, <2>3
<1> QED BY <1>2, <1>4, <1>5 DEF GateIInv

LEMMA GateStepInv == ASSUME GateIInv, [Next]_vars PROVE GateIInv'
<1>1. CASE \E r \in Requests : StartStage(r)
  BY <1>1, StepStartStage
<1>2. CASE \E r \in Requests : Drop(r)
  BY <1>2, StepDrop
<1>3. CASE Grant
  BY <1>3, StepGrant
<1>4. CASE \E c \in inflight : CallEnds(c)
  BY <1>4, StepCallEnds
<1>5. CASE \/ \E r \in Requests : Arrive(r) \/ Answer(r) \/ LeaveQueue(r)
           \/ \E p \in Routes : Admit(p)
           \/ Shutdown \/ Stopped \/ UNCHANGED vars
  BY <1>5, StepRest
<1> QED BY <1>1, <1>2, <1>3, <1>4, <1>5 DEF Next

LEMMA GateInvHolds == Spec => []GateIInv
  BY GateInitInv, GateStepInv, PTL DEF Spec

-----------------------------------------------------------------------------
\* Permits are neither lost nor minted, whatever is answered, timed out,
\* dropped or left (RpcChainSource::permit, rpc, bare).
THEOREM PermitsAreConserved == Spec => []PermitsConserved
<1>1. GateIInv => PermitsConserved
  BY DEF GateIInv
<1> QED BY GateInvHolds, <1>1, PTL

\* No call outlives the request it is made for (RpcChainSource::permit).
THEOREM CallsHaveRequests == Spec => []NoOrphanCalls
<1>1. GateIInv => NoOrphanCalls
  BY DEF GateIInv
<1> QED BY GateInvHolds, <1>1, PTL

-----------------------------------------------------------------------------
(***************************************************************************)
(* One call: for every deadline, every ceiling, and every size of declared *)
(* length and frame.                                                       *)
(*                                                                         *)
(* The deadline and the ceiling are inductive once the timer is known not  *)
(* to be set again.  What a result says is not: that a status is earned    *)
(* is a fact about the whole exchange, so each kind of result is tied to   *)
(* what was seen of it (Grounded), and the statuses are read off that.     *)
(***************************************************************************)
USE TimeoutAssumption, SizeAssumption

ClientTyped ==
  /\ now \in Nat /\ deadline = Timeout
  /\ at \in {"idle", "sent", "reading", "done"}
  /\ call \in Calls
  /\ head \in Heads \cup {NoHead}
  /\ buf \in Nat
  /\ answer \in Answers

\* Nothing is known of the head before it comes.
HeadComes == at = "sent" => head = NoHead

\* What each kind of result rests on.
Grounded ==
  at = "done" =>
    /\ out = Ok =>
         /\ head.status = 200 /\ head.declared \in {Undeclared, buf}
         /\ answer.json
         /\ IF call \in JsonRpc
            THEN answer.error = "absent" /\ answer.inner \in {"absent", "OK"}
            ELSE answer.status \in {"absent", "OK"}
    /\ out.kind = "JsonRpc" =>
         /\ head.status = 200 /\ answer.json
         /\ answer.error = out.detail /\ out.detail \in Codes \ {NO_CODE}
    /\ out = RpcErr("Status", "BUSY") =>
         answer.json /\ "BUSY" \in {answer.inner, answer.status}
    /\ out.kind = "Transport" /\ out.detail = "Timeout" => now >= Timeout
    /\ out.kind = "Transport" /\ out.detail = "Connect" => head = NoHead

ClientIInv ==
  /\ ClientTyped
  /\ WithinDeadline
  /\ BufferBounded
  /\ HeadComes
  /\ Grounded

-----------------------------------------------------------------------------
LEMMA ClientInitInv == ASSUME ClientInit PROVE ClientIInv
  BY DEF ClientInit, ClientIInv, ClientTyped, WithinDeadline, BufferBounded, HeadComes, Grounded, Answers

LEMMA Bodies ==
  ASSUME NEW body \in Answers
  PROVE  /\ body.json \in BOOLEAN
         /\ body.json => body.error \in (Codes \ {NO_CODE}) \cup {"absent"}
<1> DEFINE Objects == [json : {TRUE}, error : (Codes \ {NO_CODE}) \cup {"absent"},
                       result : BOOLEAN, status : Statuses, inner : Statuses, fits : BOOLEAN]
<1>1. CASE body = NoAnswer
  <2>1. body.json = FALSE
    BY <1>1 DEF NoAnswer
  <2> QED BY <2>1
<1>2. CASE body \in Objects
  <2>1. body.error \in (Codes \ {NO_CODE}) \cup {"absent"} /\ body.json \in {TRUE}
    BY <1>2
  <2> QED BY <2>1
<1> QED BY <1>1, <1>2 DEF Answers

\* The result read off a whole body rests on that body.
LEMMA InterpretedGrounds ==
  ASSUME ClientTyped, NEW body \in Answers, NEW r, r = Interpreted(body)
  PROVE  /\ r = Ok =>
              /\ head.status = 200 /\ body.json
              /\ IF call \in JsonRpc
                 THEN body.error = "absent" /\ body.inner \in {"absent", "OK"}
                 ELSE body.status \in {"absent", "OK"}
         /\ r.kind = "JsonRpc" =>
              /\ head.status = 200 /\ body.json
              /\ body.error = r.detail /\ r.detail \in Codes \ {NO_CODE}
         /\ r = RpcErr("Status", "BUSY") =>
              body.json /\ "BUSY" \in {body.inner, body.status}
         /\ r.kind # "Transport"
<1>1. CASE head.status # 200
  <2>1. r = RpcErr("Http", head.status)
    BY <1>1 DEF Interpreted
  <2> QED BY <2>1 DEF RpcErr, Ok
<1>2. CASE head.status = 200 /\ ~body.json
  <2>1. r = RpcErr("Decode", "json")
    BY <1>2 DEF Interpreted
  <2> QED BY <2>1 DEF RpcErr, Ok
<1>3. CASE head.status = 200 /\ body.json /\ call \in JsonRpc
  <2>1. r = json_rpc(body)
    BY <1>3 DEF Interpreted
  <2>2. body.error \in (Codes \ {NO_CODE}) \cup {"absent"}
    BY <1>3, Bodies
  <2>3. CASE body.error # "absent"
    <3>1. r = RpcErr("JsonRpc", body.error)
      BY <2>1, <2>3 DEF json_rpc
    <3> QED BY <1>3, <2>2, <2>3, <3>1 DEF RpcErr, Ok
  <2>4. CASE body.error = "absent" /\ ~body.result
    <3>1. r = RpcErr("Missing", "result")
      BY <2>1, <2>4 DEF json_rpc
    <3> QED BY <3>1 DEF RpcErr, Ok
  <2>5. CASE body.error = "absent" /\ body.result /\ ~check_status(body.inner)
    <3>1. r = RpcErr("Status", body.inner)
      BY <2>1, <2>5 DEF json_rpc
    <3> QED BY <1>3, <3>1 DEF RpcErr, Ok
  <2>6. CASE body.error = "absent" /\ body.result /\ check_status(body.inner)
    <3>1. r = Decoded(body)
      BY <2>1, <2>6 DEF json_rpc
    <3> QED BY <1>3, <2>6, <3>1 DEF Decoded, RpcErr, Ok, check_status
  <2> QED BY <2>3, <2>4, <2>5, <2>6
<1>4. CASE head.status = 200 /\ body.json /\ call \notin JsonRpc
  <2>1. r = endpoint(body)
    BY <1>4 DEF Interpreted
  <2>2. CASE check_status(body.status)
    BY <1>4, <2>1, <2>2 DEF endpoint, Decoded, RpcErr, Ok, check_status
  <2>3. CASE ~check_status(body.status)
    BY <1>4, <2>1, <2>3 DEF endpoint, RpcErr, Ok
  <2> QED BY <2>2, <2>3
<1>5. body.json \in BOOLEAN
  BY Bodies
<1> QED BY <1>1, <1>2, <1>3, <1>4, <1>5

-----------------------------------------------------------------------------
LEMMA ClientStepInv ==
  ASSUME ClientIInv, [ClientNext]_clientVars
  PROVE  ClientIInv'
<1> USE DEF ClientIInv, Ended
<1>1. ASSUME NEW c \in Calls, Called(c)  PROVE ClientIInv'
  BY <1>1 DEF Called, ClientTyped, WithinDeadline, BufferBounded, HeadComes, Grounded, Answers
<1>2. CASE RequestFailed
  <2>1. (ClientTyped /\ WithinDeadline /\ BufferBounded /\ HeadComes)'
    BY <1>2 DEF RequestFailed, ClientTyped, WithinDeadline, BufferBounded, HeadComes
  <2>2. Grounded'
    <3>1. PICK kind \in {"Connect", "Other"} : out' = RpcErr("Transport", kind)
      BY <1>2 DEF RequestFailed
    <3>2. head' = NoHead
      BY <1>2 DEF RequestFailed, HeadComes
    <3> QED BY <3>1, <3>2 DEF Grounded, RpcErr, Ok
  <2> QED BY <2>1, <2>2
<1>3. ASSUME NEW h \in Heads, HeadReceived(h)  PROVE ClientIInv'
  <2>1. (ClientTyped /\ WithinDeadline /\ BufferBounded /\ HeadComes)'
    BY <1>3 DEF HeadReceived, ClientTyped, WithinDeadline, BufferBounded, HeadComes
  <2>2. Grounded'
    <3>1. at' = "reading" \/ out' = RpcErr("ResponseTooLarge", "length")
      BY <1>3 DEF HeadReceived
    <3> QED BY <3>1, <1>3 DEF HeadReceived, Grounded, RpcErr, Ok
  <2> QED BY <2>1, <2>2
<1>4. ASSUME NEW n \in Frames, FrameReceived(n)  PROVE ClientIInv'
  <2>1. (ClientTyped /\ WithinDeadline /\ BufferBounded /\ HeadComes)'
    BY <1>4 DEF FrameReceived, Fits, ClientTyped, WithinDeadline, BufferBounded, HeadComes
  <2>2. Grounded'
    <3>1. at' = "reading" \/ out' = RpcErr("ResponseTooLarge", "body")
      BY <1>4 DEF FrameReceived
    <3> QED BY <3>1 DEF Grounded, RpcErr, Ok
  <2> QED BY <2>1, <2>2
<1>5. CASE BodyFailed
  <2>1. (ClientTyped /\ WithinDeadline /\ BufferBounded /\ HeadComes)'
    BY <1>5 DEF BodyFailed, ClientTyped, WithinDeadline, BufferBounded, HeadComes
  <2>2. Grounded'
    BY <1>5 DEF BodyFailed, Grounded, RpcErr, Ok
  <2> QED BY <2>1, <2>2
<1>6. ASSUME NEW body \in Answers, BodyEnded(body)  PROVE ClientIInv'
  <2>1. (ClientTyped /\ WithinDeadline /\ BufferBounded /\ HeadComes)'
    BY <1>6 DEF BodyEnded, ClientTyped, WithinDeadline, BufferBounded, HeadComes
  <2>2. Grounded'
    <3>1. /\ out' = Interpreted(body) /\ answer' = body
          /\ UNCHANGED <<now, call, head, buf>> /\ head.declared \in {Undeclared, buf}
      BY <1>6 DEF BodyEnded
    <3>2. ClientTyped
      OBVIOUS
    <3>3. out'.kind # "Transport"
      BY <3>1, <3>2, InterpretedGrounds
    <3>4. /\ out' = Ok =>
               /\ head.status = 200 /\ body.json
               /\ IF call \in JsonRpc
                  THEN body.error = "absent" /\ body.inner \in {"absent", "OK"}
                  ELSE body.status \in {"absent", "OK"}
          /\ out'.kind = "JsonRpc" =>
               /\ head.status = 200 /\ body.json
               /\ body.error = out'.detail /\ out'.detail \in Codes \ {NO_CODE}
          /\ out' = RpcErr("Status", "BUSY") =>
               body.json /\ "BUSY" \in {body.inner, body.status}
      BY <3>1, <3>2, InterpretedGrounds
    <3> QED BY <3>1, <3>3, <3>4 DEF Grounded
  <2> QED BY <2>1, <2>2
<1>7. CASE Expired
  <2>1. (ClientTyped /\ WithinDeadline /\ BufferBounded /\ HeadComes)'
    BY <1>7 DEF Expired, ClientTyped, WithinDeadline, BufferBounded, HeadComes
  <2>2. Grounded'
    BY <1>7 DEF Expired, ClientTyped, Grounded, RpcErr, Ok
  <2> QED BY <2>1, <2>2
<1>8. CASE Dropped
  BY <1>8 DEF Dropped, ClientTyped, WithinDeadline, BufferBounded, HeadComes, Grounded
<1>9. CASE Tick
  BY <1>9 DEF Tick, ClientTyped, WithinDeadline, BufferBounded, HeadComes, Grounded
<1>10. CASE UNCHANGED clientVars
  BY <1>10 DEF clientVars, ClientTyped, WithinDeadline, BufferBounded, HeadComes, Grounded
<1> QED BY <1>1, <1>2, <1>3, <1>4, <1>5, <1>6, <1>7, <1>8, <1>9, <1>10 DEF ClientNext

LEMMA ClientInvHolds == ClientSpec => []ClientIInv
  BY ClientInitInv, ClientStepInv, PTL DEF ClientSpec

-----------------------------------------------------------------------------
\* "One deadline across the whole exchange": no call lasts longer than the
\* timeout it began with, whatever the daemon does in each stage (post).
THEOREM OneDeadline == ClientSpec => []WithinDeadline
<1>1. ClientIInv => WithinDeadline
  BY DEF ClientIInv
<1> QED BY ClientInvHolds, <1>1, PTL

\* The body held stays within the ceiling, for every declared length and every
\* size of frame (collect_body).
THEOREM BodyWithinCeiling == ClientSpec => []BufferBounded
<1>1. ClientIInv => BufferBounded
  BY DEF ClientIInv
<1> QED BY ClientInvHolds, <1>1, PTL

\* A call succeeds only on a whole body that reports no failure in the
\* convention of the call (json_rpc, endpoint).
THEOREM SuccessIsEarned == ClientSpec => []OkIsTheDaemonsOk
<1>1. ClientIInv => OkIsTheDaemonsOk
  BY DEF ClientIInv, Grounded, OkIsTheDaemonsOk
<1> QED BY ClientInvHolds, <1>1, PTL

\* Only get_block's own word for an absent block ends in a 404.
LEMMA NotFoundStatuses ==
  ASSUME NEW c, NEW err, 404 \in {PageStatus(c, err), ApiStatus(c, err)}
  PROVE  /\ c = "block" /\ err.kind = "JsonRpc"
         /\ err.detail \in {WRONG_PARAM, TOO_BIG_HEIGHT, INTERNAL}
<1>1. chain_error(c, err) = "BlockNotFound"
  BY DEF PageStatus, ApiStatus, chain_error_page, on_chain_error
<1>2. c = "block" /\ classify_block_error(CodeOf(err)) = "BlockNotFound"
  BY <1>1 DEF chain_error
<1>3. CodeOf(err) \in {WRONG_PARAM, TOO_BIG_HEIGHT, INTERNAL}
  BY <1>2 DEF classify_block_error
<1> QED
  BY <1>2, <1>3 DEF CodeOf, NO_CODE, WRONG_PARAM, TOO_BIG_HEIGHT, INTERNAL

\* 404 is said only on the daemon's own word, in a whole answer of success
\* status (classify_block_error, on_chain_error).
THEOREM NotFoundIsEarned == ClientSpec => []NotFoundIsTheDaemonsWord
<1>1. ClientIInv => NotFoundIsTheDaemonsWord
  BY NotFoundStatuses DEF ClientIInv, Grounded, NotFoundIsTheDaemonsWord, Failed
<1> QED BY ClientInvHolds, <1>1, PTL

\* What a page calls worth trying again.
LEMMA TransientStatuses ==
  ASSUME NEW c, NEW err, PageStatus(c, err) = 503,
         err.kind = "JsonRpc" => err.detail \in Codes \ {NO_CODE}
  PROVE  \/ err = RpcErr("Status", "BUSY")
         \/ err.kind = "Transport" /\ err.detail \in {"Timeout", "Connect"}
         \/ c = "block" /\ err.kind = "JsonRpc" /\ err.detail \in {CORE_BUSY, OTHER_CODE}
<1>1. is_transient(c, err)
  BY DEF PageStatus, chain_error_page
<1>2. CASE rpc_is_transient(err)
  BY <1>2 DEF rpc_is_transient
<1>3. CASE chain_error(c, err) = "Unavailable"
  <2>1. c = "block" /\ classify_block_error(CodeOf(err)) = "Unavailable"
    BY <1>3 DEF chain_error
  <2>2. CodeOf(err) \notin {WRONG_PARAM, TOO_BIG_HEIGHT, INTERNAL, METHOD_NOT_FOUND, RESTRICTED, NO_CODE}
    BY <2>1 DEF classify_block_error
  <2>3. err.kind = "JsonRpc" /\ CodeOf(err) = err.detail
    BY <2>2 DEF CodeOf
  <2> QED BY <2>1, <2>2, <2>3 DEF Codes
<1> QED BY <1>1, <1>2, <1>3 DEF is_transient

\* A page asks its reader to try again only after something that may pass by
\* itself (is_transient).
THEOREM RetryLaterEarned == ClientSpec => []RetryLaterIsEarned
<1>1. ClientIInv => RetryLaterIsEarned
  <2> SUFFICES ASSUME ClientIInv, Failed, PageStatus(call, out) = 503
               PROVE  Passing
    BY DEF RetryLaterIsEarned
  <2>1. Grounded /\ at = "done"
    BY DEF ClientIInv, Failed
  <2>2. \/ out = RpcErr("Status", "BUSY")
        \/ out.kind = "Transport" /\ out.detail \in {"Timeout", "Connect"}
        \/ call = "block" /\ out.kind = "JsonRpc" /\ out.detail \in {CORE_BUSY, OTHER_CODE}
    <3>1. out.kind = "JsonRpc" => out.detail \in Codes \ {NO_CODE}
      BY <2>1 DEF Grounded
    <3> QED BY <3>1, TransientStatuses
  <2> QED BY <2>1, <2>2 DEF Grounded, Passing
<1> QED BY ClientInvHolds, <1>1, PTL

-----------------------------------------------------------------------------
(***************************************************************************)
(* What comes back: the decoder of the extra field, and the conversions a  *)
(* reply goes through before it is shown (Decoding).                       *)
(*                                                                         *)
(* The decoder never changes a field it has recorded: that no step writes  *)
(* but at the end of the list.  The conversions are functions of what they *)
(* are given, so what is shown of them holds of every transaction, struct, *)
(* table and strip the assumptions of Decoding admit, and of a behaviour   *)
(* because a sample never changes (SampleKept).                            *)
(***************************************************************************)
HIDE RouteAssumption
HIDE PlanAssumption
HIDE InflightAssumption
HIDE TimeoutAssumption
HIDE SizeAssumption

-----------------------------------------------------------------------------
\* f holds, for each number of terms up to n, their sum.
SumsTo(f, g, n) == f = [i \in 0..n |-> IF i = 0 THEN 0 ELSE f[i - 1] + g[i]]

\* The recursive function of a sum exists.
LEMMA SumExists ==
  ASSUME NEW g, NEW n \in Nat
  PROVE  \E f : SumsTo(f, g, n)
<1> DEFINE S == {m \in Nat : \E f : SumsTo(f, g, m)}
<1>1. 0 \in S
  <2> DEFINE f == [i \in 0..0 |-> 0]
  <2>1. SumsTo(f, g, 0)
    BY DEF SumsTo
  <2> QED BY <2>1
<1>2. ASSUME NEW m \in S PROVE m + 1 \in S
  <2>1. PICK f : SumsTo(f, g, m)
    OBVIOUS
  <2>2. m \in Nat
    OBVIOUS
  <2> DEFINE h == [i \in 0..(m + 1) |-> IF i <= m THEN f[i] ELSE f[i - 1] + g[i]]
  <2>3. ASSUME NEW i \in 0..(m + 1)
        PROVE  h[i] = IF i = 0 THEN 0 ELSE h[i - 1] + g[i]
    <3>1. CASE i = 0
      BY <2>1, <2>2, <3>1 DEF SumsTo
    <3>2. CASE i # 0 /\ i <= m
      <4>1. i - 1 \in 0..m /\ i \in 0..m /\ i - 1 \in 0..(m + 1)
        BY <2>2, <3>2
      <4>2. h[i] = f[i] /\ h[i - 1] = f[i - 1]
        BY <3>2, <4>1
      <4>3. f[i] = f[i - 1] + g[i]
        BY <2>1, <3>2, <4>1 DEF SumsTo
      <4> QED BY <3>2, <4>2, <4>3
    <3>3. CASE i = m + 1
      <4>1. h[i - 1] = f[i - 1]
        BY <2>2, <3>3
      <4> QED BY <2>2, <3>3, <4>1
    <3> QED BY <2>2, <3>1, <3>2, <3>3
  <2>4. SumsTo(h, g, m + 1)
    <3>1. h = [i \in 0..(m + 1) |-> h[i]]
      OBVIOUS
    <3> HIDE DEF h
    <3>2. h = [i \in 0..(m + 1) |-> IF i = 0 THEN 0 ELSE h[i - 1] + g[i]]
      BY <2>3, <3>1
    <3> QED BY <3>2 DEF SumsTo
  <2> QED BY <2>2, <2>4
<1> HIDE DEF S
<1>3. S \in SUBSET Nat
  BY DEF S
<1>4. S = Nat
  BY <1>1, <1>2, <1>3, Induction
<1> QED BY <1>4 DEF S

\* A sum of numbers is one.
LEMMA SumIsInt ==
  ASSUME NEW f, NEW g, NEW n \in Nat, SumsTo(f, g, n), \A i \in 1..n : g[i] \in Int
  PROVE  \A m \in 0..n : f[m] \in Int
<1> DEFINE S == {m \in Nat : m <= n => f[m] \in Int}
<1>1. 0 \in S
  BY DEF SumsTo
<1>2. ASSUME NEW m \in S PROVE m + 1 \in S
  <2>1. m \in Nat /\ (m <= n => f[m] \in Int)
    OBVIOUS
  <2>2. ASSUME m + 1 <= n PROVE f[m + 1] \in Int
    <3>1. m + 1 \in 0..n /\ m + 1 \in 1..n /\ m + 1 # 0 /\ (m + 1) - 1 = m
      BY <2>1, <2>2
    <3>2. f[m + 1] = f[m] + g[m + 1]
      BY <3>1 DEF SumsTo
    <3> QED BY <2>1, <2>2, <3>1, <3>2
  <2> QED BY <2>1, <2>2
<1> HIDE DEF S
<1>3. S \in SUBSET Nat
  BY DEF S
<1>4. S = Nat
  BY <1>1, <1>2, <1>3, Induction
<1> QED BY <1>4 DEF S

-----------------------------------------------------------------------------
\* The least of a set of numbers is in it.
LEMMA FirstIs ==
  ASSUME NEW S \in SUBSET Nat, S # {}
  PROVE  First(S) \in S
BY NatMin DEF First

\* The digits a varint may have are a number, and so is what they come to.
LEMMA DigitsIsNat == Digits \in Nat
BY WidthAssumption DEF Digits

LEMMA ValueIsInt ==
  ASSUME NEW input \in Seq(Byte), NEW pos \in Nat, NEW n \in Nat, pos + n <= Len(input)
  PROVE  Value(input, pos, n) \in Int
<1> DEFINE g == [i \in 1..n |-> (At(input, pos + i - 1) % Base) * Base^(i - 1)]
<1>1. \A i \in 1..n : g[i] \in Int
  <2> SUFFICES ASSUME NEW i \in 1..n PROVE g[i] \in Int
    OBVIOUS
  <2>1. (pos + i - 1) + 1 \in 1..Len(input)
    OBVIOUS
  <2>2. At(input, pos + i - 1) \in Byte
    BY <2>1 DEF At
  <2>3. At(input, pos + i - 1) \in Int
    BY <2>2, BaseAssumption DEF Byte
  <2>4. At(input, pos + i - 1) % Base \in Int
    BY <2>3, BaseAssumption
  <2>5. Base^(i - 1) \in Int
    BY BaseAssumption
  <2> QED BY <2>4, <2>5
<1> DEFINE Is(f) == f = [i \in 0..n |-> IF i = 0 THEN 0
                           ELSE f[i - 1] + (At(input, pos + i - 1) % Base) * Base^(i - 1)]
<1>2. \A f : SumsTo(f, g, n) <=> Is(f)
  <2> SUFFICES ASSUME NEW f PROVE SumsTo(f, g, n) <=> Is(f)
    OBVIOUS
  <2>1. \A i \in 0..n : (IF i = 0 THEN 0 ELSE f[i - 1] + g[i]) =
          (IF i = 0 THEN 0 ELSE f[i - 1] + (At(input, pos + i - 1) % Base) * Base^(i - 1))
    OBVIOUS
  <2> HIDE DEF g
  <2> QED BY <2>1 DEF SumsTo
<1>3. \E f : Is(f)
  BY <1>2, SumExists
<1> DEFINE F == CHOOSE f : Is(f)
<1>4. Is(F)
  <2> HIDE DEF Is
  <2> QED BY <1>3
<1>5. SumsTo(F, g, n)
  BY <1>2, <1>4
<1>6. F[n] \in Int
  <2> HIDE DEF F, g, Is
  <2> QED BY <1>1, <1>5, SumIsInt
<1>7. Value(input, pos, n) = F[n]
  BY DEF Value
<1> QED BY <1>6, <1>7

\* A varint ends at a place, whatever its value.
LEMMA VarintIsInt ==
  ASSUME NEW input \in Seq(Byte), NEW pos \in Nat, pos <= Len(input)
  PROVE  /\ read_varint(input, pos).value \in Int
         /\ read_varint(input, pos).pos \in Nat
         /\ read_varint(input, pos).pos <= Len(input)
<1> DEFINE n == Stop(input, pos)
           S == {i \in 0..Digits :
                   \/ i = Digits \/ pos + i >= Len(input)
                   \/ Overflows(At(input, pos + i), i)
                   \/ NonCanonical(At(input, pos + i), i)
                   \/ At(input, pos + i) < Base}
<1>1. n \in S
  <2>1. S \in SUBSET Nat /\ Digits \in S
    BY DigitsIsNat
  <2> HIDE DEF S
  <2>2. First(S) \in S
    BY <2>1, FirstIs
  <2> QED BY <2>2 DEF S, Stop
<1>2. n \in 0..Digits
  BY <1>1
<1>3. pos + n <= Len(input)
  <2>1. CASE n = 0
    BY <2>1
  <2>2. CASE n # 0
    <3> DEFINE k == n - 1
    <3>1. k \in 0..Digits /\ k < n
      BY <1>2, <2>2, DigitsIsNat
    <3>2. k \notin S
      <4>1. S \in SUBSET Nat
        BY DigitsIsNat
      <4>2. n = First(S)
        BY DEF Stop
      <4> HIDE DEF S, n
      <4>3. PICK m \in S : \A j \in S : m <= j
        BY <1>1, <4>1, NatMin
      <4>4. \A j \in S : First(S) <= j
        BY <4>3 DEF First
      <4> HIDE DEF k
      <4> QED BY <1>2, <3>1, <4>1, <4>2, <4>4, DigitsIsNat
    <3>3. ~(pos + k >= Len(input))
      BY <3>1, <3>2
    <3> QED BY <1>2, <3>1, <3>3, DigitsIsNat
  <2> QED BY <2>1, <2>2
<1> HIDE DEF n
<1>4. CASE n = Digits
  BY <1>2, <1>3, <1>4, DigitsIsNat, ValueIsInt DEF read_varint, ReadTo, Read, n
<1>5. CASE n < Digits /\ pos + n >= Len(input)
  BY <1>2, <1>3, <1>5, DigitsIsNat, ValueIsInt DEF read_varint, ReadTo, Read, n
<1>6. CASE n < Digits /\ pos + n < Len(input)
  <2>1. n \in Nat /\ n + 1 \in Nat /\ pos + (n + 1) <= Len(input) /\ n # Digits /\ ~(pos + n >= Len(input))
    BY <1>2, <1>6, DigitsIsNat
  <2>2. Value(input, pos, n) \in Int /\ Value(input, pos, n + 1) \in Int
    BY <1>3, <2>1, ValueIsInt
  <2>3. \/ read_varint(input, pos) = Read(input, pos, n, n + 1, FALSE)
        \/ read_varint(input, pos) = Read(input, pos, n + 1, n + 1, TRUE)
    BY <2>1 DEF read_varint, ReadTo, n
  <2> QED BY <2>1, <2>2, <2>3 DEF Read
<1> QED BY <1>2, <1>4, <1>5, <1>6, DigitsIsNat

\* A field taken ends at a place.
LEMMA FieldEnds ==
  ASSUME NEW input \in Seq(Byte), NEW start \in Nat, start < Len(input),
         parse_field(input, start).ok
  PROVE  parse_field(input, start).next \in Int
<1> DEFINE pos == start + 1
           len == read_varint(input, pos)
           tag == At(input, start)
           got == parse_field(input, start)
<1>1. pos \in Nat /\ pos <= Len(input)
  OBVIOUS
<1>2. len.value \in Int /\ len.pos \in Nat /\ len.pos <= Len(input)
  BY <1>1, VarintIsInt
<1>3. Counted(input, len).ok => Counted(input, len).next \in Int
  <2> HIDE DEF len
  <2> QED BY <1>2 DEF Counted, FieldOk, FieldErr
<1>4. nonce(Counted(input, len)).ok => nonce(Counted(input, len)).next \in Int
  <2> HIDE DEF len
  <2> QED BY <1>3 DEF nonce, FieldOk, FieldErr
<1>5. minergate(Counted(input, len)).ok => minergate(Counted(input, len)).next \in Int
  <2> HIDE DEF len
  <2> QED BY <1>3 DEF minergate, FieldOk, FieldErr
<1>6. merge_mining(Counted(input, len)).ok => merge_mining(Counted(input, len)).next \in Int
  <2> HIDE DEF len
  <2> DEFINE c == Counted(input, len)
  <2>1. CASE c.ok
    <3>1. \/ \E x : merge_mining(c) = FieldOk(x, c.next)
          \/ \E o, k : merge_mining(c) = FieldErr(o, k)
      <4> HIDE DEF c
      <4> QED BY <2>1 DEF merge_mining, DepthAndRoot
    <3> QED BY <1>3, <2>1, <3>1 DEF FieldOk, FieldErr
  <2>2. CASE ~c.ok
    BY <1>3, <2>2 DEF merge_mining
  <2> QED BY <2>1, <2>2
<1>7. additional_pub_keys(input, len).ok => additional_pub_keys(input, len).next \in Int
  <2> HIDE DEF len
  <2>1. len.pos + ((len.value + 1) - 1) * HashLen \in Int
    BY <1>2, LengthAssumption
  <2> DEFINE avail == Len(input) - len.pos
             keys  == [tag |-> TAG_ADDITIONAL_PUBKEYS,
                       keys |-> [i \in 1..len.value |->
                         Slice(input, len.pos + (i - 1) * HashLen, len.pos + ((i + 1) - 1) * HashLen)]]
  <2>2. additional_pub_keys(input, len) =
          CASE ~len.good -> FieldErr(len.pos, "BadVarint")
            [] len.good /\ avail < len.value -> FieldErr(len.pos, "LengthBeyondEnd")
            [] len.good /\ avail >= len.value /\ avail \div HashLen < len.value ->
                 FieldErr(len.pos + ((avail \div HashLen + 1) - 1) * HashLen, "TruncatedAdditionalKeys")
            [] OTHER -> FieldOk(keys, len.pos + ((len.value + 1) - 1) * HashLen)
    BY DEF additional_pub_keys
  <2> HIDE DEF avail, keys
  <2> QED BY <2>1, <2>2 DEF FieldOk, FieldErr
<1>8. pub_key(input, pos).ok => pub_key(input, pos).next \in Int
  <2>1. pos + HashLen \in Int
    BY <1>1, LengthAssumption
  <2> HIDE DEF pos
  <2> QED BY <2>1 DEF pub_key, FieldOk, FieldErr
<1>9. padding(input, pos, Zeros(input, pos)).ok => padding(input, pos, Zeros(input, pos)).next \in Int
  <2> DEFINE S == {i \in 0..PaddingMax :
           i = PaddingMax \/ pos + i >= Len(input) \/ At(input, pos + i) # 0}
             z == Zeros(input, pos)
  <2>1. S \in SUBSET Nat /\ PaddingMax \in S
    BY LengthAssumption
  <2>2. z = First(S)
    BY DEF Zeros
  <2>3. z \in Nat
    <3> HIDE DEF S, z
    <3> QED BY <2>1, <2>2, FirstIs
  <2>4. pos + z \in Int
    BY <1>1, <2>3
  <2> HIDE DEF z, pos
  <2> QED BY <2>4 DEF padding, FieldOk, FieldErr, z
<1>10. CASE tag \in {TAG_PADDING, TAG_PUBKEY, TAG_NONCE, TAG_MERGE_MINING, TAG_ADDITIONAL_PUBKEYS, MinerGate}
  <2> HIDE DEF tag
  <2>1. \/ got = padding(input, pos, Zeros(input, pos))
        \/ got = pub_key(input, pos)
        \/ got = nonce(Counted(input, len))
        \/ got = merge_mining(Counted(input, len))
        \/ got = additional_pub_keys(input, len)
        \/ got = minergate(Counted(input, len))
    BY <1>10, TagAssumption DEF parse_field, tag, TAG_PADDING, TAG_PUBKEY, TAG_NONCE,
       TAG_MERGE_MINING, TAG_ADDITIONAL_PUBKEYS
  <2> HIDE DEF pos, len
  <2> QED BY <1>4, <1>5, <1>6, <1>7, <1>8, <1>9, <2>1
<1>11. CASE tag \notin {TAG_PADDING, TAG_PUBKEY, TAG_NONCE, TAG_MERGE_MINING, TAG_ADDITIONAL_PUBKEYS, MinerGate}
  <2>1. got = FieldErr(start, "UnknownTag")
    BY <1>11 DEF parse_field
  <2> QED BY <2>1 DEF FieldErr
<1> QED BY <1>10, <1>11

-----------------------------------------------------------------------------
-----------------------------------------------------------------------------
\* What a step of the decoder needs to know of the last one.
ParseSound ==
  /\ extra \in Seq(Byte)
  /\ fields \in Seq(Range(fields))
  /\ consumed \in Nat
  /\ fields # <<>> => consumed > 0 /\ extra # <<>>
  /\ ~done => error = NoError

\* A decoder starts sound, with an input or with none.
LEMMA ParseSoundInit == Start => ParseSound
<1>1. ParseInit => ParseSound
  <2> SUFFICES ASSUME ParseInit PROVE ParseSound
    OBVIOUS
  <2> QED BY BlobAssumption DEF ParseInit, ParseSound, Range
<1>2. Unused => ParseSound
  BY DEF Unused, ParseSound, Range
<1> QED BY <1>1, <1>2 DEF Start

\* One field more is one member more of the range.
LEMMA AppendRange ==
  ASSUME NEW s, s \in Seq(Range(s)), NEW x
  PROVE  /\ Append(s, x) \in Seq(Range(Append(s, x)))
         /\ x \in Range(Append(s, x)) /\ s \in Seq(Range(Append(s, x)))
         /\ \A i \in 1..Len(s) : s[i] \in Range(s) /\ s[i] \in Range(Append(s, x))
         /\ DOMAIN s = 1..Len(s)
<1> DEFINE A == Range(s) \cup {x}
           r == Append(s, x)
<1>1. s \in Seq(A) /\ x \in A
  OBVIOUS
<1>2. r \in Seq(A) /\ DOMAIN r = 1..(Len(s) + 1) /\ Len(s) \in Nat /\ DOMAIN s = 1..Len(s)
  BY <1>1
<1>3. r[Len(s) + 1] = x /\ \A i \in 1..Len(s) : r[i] = s[i]
  BY <1>1
<1> HIDE DEF r
<1>4. Range(r) = A
  BY <1>2, <1>3 DEF Range
<1> QED BY <1>1, <1>2, <1>3, <1>4 DEF Range, r

\* Each reader of a field, like the end of them, keeps the decoder sound.
LEMMA ParseSoundNext ==
  ASSUME ParseSound, [ParseNext /\ UNCHANGED sample]_<<parse_vars, sample>>
  PROVE  ParseSound'
<1>1. CASE Field
  <2>1. PICK got \in {parse_field(extra, consumed)} :
       /\ \/ /\ got.ok /\ got.next > consumed
             /\ fields' = Append(fields, got.field)
             /\ consumed' = got.next
             /\ UNCHANGED <<error, done>>
          \/ /\ ~(got.ok /\ got.next > consumed)
             /\ error' = IF got.ok THEN [kind |-> "BadVarint", offset |-> consumed] ELSE got.error
             /\ done' = TRUE
             /\ UNCHANGED <<fields, consumed>>
       /\ UNCHANGED extra /\ ~done /\ consumed < Len(extra)
    BY <1>1 DEF Field
  <2>2. CASE got.ok /\ got.next > consumed
    <3>1. got.next \in Int
      BY <2>1, <2>2, FieldEnds DEF ParseSound
    <3>2. fields' \in Seq(Range(fields'))
      BY <2>1, <2>2, AppendRange DEF ParseSound
    <3>3. extra # <<>>
      BY <2>1 DEF ParseSound
    <3> QED BY <2>1, <2>2, <3>1, <3>2, <3>3 DEF ParseSound
  <2>3. CASE ~(got.ok /\ got.next > consumed)
    BY <2>1, <2>3 DEF ParseSound, Range
  <2> QED BY <2>2, <2>3
<1>2. CASE AtEnd
  BY <1>2 DEF AtEnd, ParseSound, Range
<1>3. CASE UNCHANGED <<parse_vars, sample>>
  BY <1>3 DEF parse_vars, ParseSound, Range
<1> QED BY <1>1, <1>2, <1>3 DEF ParseNext

\* Of the fields with a tag, a further field is the last, or none of them.
LEMMA TaggedMore ==
  ASSUME ParseSound, NEW x, fields' = Append(fields, x), NEW tag
  PROVE  /\ Tagged(tag)' = IF x.tag = tag THEN Append(Tagged(tag), x) ELSE Tagged(tag)
         /\ \E A : Tagged(tag) \in Seq(A) /\ Tagged(tag)' \in Seq(A) /\ x \in A
<1> DEFINE r == Append(fields, x)
           T == {f \in Range(fields) : f.tag = tag}
           U == {f \in Range(r) : f.tag = tag}
           A == Range(r)
<1>1. /\ r \in Seq(A) /\ x \in A /\ fields \in Seq(A)
      /\ \A i \in 1..Len(fields) : fields[i] \in Range(fields) /\ fields[i] \in A
  BY AppendRange DEF ParseSound
<1>2. Tagged(tag)' = Within(r, U) /\ Tagged(tag) = Within(fields, T)
  BY DEF Tagged, Range
<1> HIDE DEF r, A
<1>3. \A i \in 1..Len(fields) : fields[i] \in T <=> fields[i] \in U
  BY <1>1 DEF A
<1>4. x \in U <=> x.tag = tag
  BY <1>1 DEF A
<1> HIDE DEF T, U
<1>5. Within(r, U) = IF x \in U THEN Append(Within(fields, T), x) ELSE Within(fields, T)
  <2>1. fields \in Seq(A) /\ x \in A
    BY <1>1
  <2>2. \A V, W : (\A i \in 1..Len(fields) : fields[i] \in V <=> fields[i] \in W) =>
          Within(Append(fields, x), W) = IF x \in W THEN Append(Within(fields, V), x) ELSE Within(fields, V)
    BY <2>1, SiftAppend
  <2> QED BY <1>3, <2>2 DEF r
<1>6. Within(r, U) \in Seq(A) /\ Within(fields, T) \in Seq(A)
  BY <1>1, SiftPicks
<1> QED BY <1>1, <1>2, <1>4, <1>5, <1>6

\* The first with a tag stays the first.
LEMMA FirstStays ==
  ASSUME ParseSound, NEW x, fields' = Append(fields, x), NEW tag
  PROVE  FirstTagged(tag) = {} \/ FirstTagged(tag)' = FirstTagged(tag)
<1>1. PICK A : Tagged(tag) \in Seq(A) /\ Tagged(tag)' \in Seq(A) /\ x \in A
  BY TaggedMore
<1>2. Tagged(tag)' = Append(Tagged(tag), x) \/ Tagged(tag)' = Tagged(tag)
  BY TaggedMore
<1>3. CASE Tagged(tag) = <<>>
  BY <1>3 DEF FirstTagged
<1>4. CASE Tagged(tag) # <<>>
  <2>1. Append(Tagged(tag), x) # <<>> /\ Append(Tagged(tag), x)[1] = Tagged(tag)[1]
    BY <1>1, <1>4
  <2> QED BY <1>2, <1>4, <2>1 DEF FirstTagged
<1> QED BY <1>3, <1>4

\* The key of the pages: the first until there are two, then the second.
LEMMA CompatStays ==
  ASSUME ParseSound, NEW x, fields' = Append(fields, x)
  PROVE  tx_pub_key_explorer_compat' # tx_pub_key_explorer_compat => Len(pub_keys') \in 1..2
<1> DEFINE T == Tagged(TAG_PUBKEY)
           K(s) == [i \in DOMAIN s |-> s[i].data]
<1>1. PICK A : T \in Seq(A) /\ T' \in Seq(A) /\ x \in A
  BY TaggedMore
<1>2. T' = Append(T, x) \/ T' = T
  BY TaggedMore
<1>3. pub_keys = K(T) /\ pub_keys' = K(T')
  BY DEF pub_keys
<1>4. CASE T' = T
  <2>1. pub_keys' = pub_keys
    BY <1>3, <1>4
  <2>2. tx_pub_key' = tx_pub_key
    BY <1>4 DEF tx_pub_key, FirstTagged
  <2> QED BY <2>1, <2>2 DEF tx_pub_key_explorer_compat
<1>5. CASE T' = Append(T, x)
  <2> HIDE DEF T
  <2>1. Len(K(T)) = Len(T) /\ Len(K(T')) = Len(T) + 1 /\ Len(T) \in Nat
    <3>1. Len(T') = Len(T) + 1 /\ Len(T) \in Nat
      BY <1>1, <1>5
    <3>2. \A s \in Seq(A) : Len(K(s)) = Len(s)
      OBVIOUS
    <3> QED BY <1>1, <3>1, <3>2
  <2>2. CASE Len(T) <= 1
    BY <1>3, <2>1, <2>2
  <2>3. CASE Len(T) > 1
    <3>1. T'[2] = T[2] /\ 2 \in DOMAIN T /\ 2 \in DOMAIN T'
      BY <1>1, <1>5, <2>1, <2>3
    <3>2. pub_keys'[2] = pub_keys[2]
      BY <1>3, <3>1
    <3>3. Len(pub_keys) > 1 /\ Len(pub_keys') > 1
      BY <1>3, <2>1, <2>3
    <3> QED BY <3>2, <3>3 DEF tx_pub_key_explorer_compat
  <2> QED BY <2>1, <2>2, <2>3
<1> QED BY <1>2, <1>4, <1>5

\* Without a field there is no payment id.
LEMMA PaymentIdIsDecoded ==
  ASSUME ParseSound, payment_id # {}
  PROVE  Len(undecoded_tail) < Len(extra)
<1>1. fields # <<>>
  <2> SUFFICES ASSUME fields = <<>> PROVE FALSE
    OBVIOUS
  <2>1. Tagged(TAG_NONCE) = <<>>
    BY SiftEmpty DEF Tagged
  <2>2. nonce_asked = {}
    BY <2>1 DEF nonce_asked, FirstTagged
  <2> QED BY <2>2 DEF payment_id
<1>2. consumed > 0 /\ consumed \in Nat /\ Len(extra) \in Nat /\ Len(extra) > 0 /\ extra \in Seq(Byte)
  BY <1>1 DEF ParseSound
<1>3. CASE consumed >= Len(extra)
  <2>1. undecoded_tail = <<>>
    BY <1>2, <1>3 DEF undecoded_tail, Slice
  <2> QED BY <1>2, <2>1
<1>4. CASE consumed < Len(extra)
  <2>1. Len(undecoded_tail) = Len(extra) - consumed
    BY <1>2, <1>4 DEF undecoded_tail, Slice
  <2> QED BY <1>2, <2>1
<1> QED BY <1>2, <1>3, <1>4

\* A step that reads one field more leaves every answer given from the fields.
LEMMA FieldsStand ==
  ASSUME ParseSound, (payment_id # {} => Len(undecoded_tail) < Len(extra))', [ParseNext /\ UNCHANGED sample]_<<parse_vars, sample>>
  PROVE  [ /\ tx_pub_key \subseteq tx_pub_key'
           /\ merge_mining_tag \subseteq merge_mining_tag'
           /\ additional_pub_keys_of # {} => additional_pub_keys_of' = additional_pub_keys_of
           /\ payment_id \subseteq payment_id' \/ error' # NoError
           /\ tx_pub_key_explorer_compat' # tx_pub_key_explorer_compat => Len(pub_keys') \in 1..2
           /\ payment_id' # {} => Len(undecoded_tail') < Len(extra)
         ]_parse_vars
<1> SUFFICES ASSUME ParseNext, parse_vars' # parse_vars
    PROVE  /\ tx_pub_key \subseteq tx_pub_key'
           /\ merge_mining_tag \subseteq merge_mining_tag'
           /\ additional_pub_keys_of # {} => additional_pub_keys_of' = additional_pub_keys_of
           /\ payment_id \subseteq payment_id' \/ error' # NoError
           /\ tx_pub_key_explorer_compat' # tx_pub_key_explorer_compat => Len(pub_keys') \in 1..2
           /\ payment_id' # {} => Len(undecoded_tail') < Len(extra)
  BY DEF parse_vars
<1>1. UNCHANGED extra
  BY DEF ParseNext, Field, AtEnd
<1>2. payment_id' # {} => Len(undecoded_tail') < Len(extra)
  BY <1>1
<1>3. CASE UNCHANGED fields
  <2>1. \A tag : FirstTagged(tag)' = FirstTagged(tag) /\ Tagged(tag)' = Tagged(tag)
    BY <1>3 DEF FirstTagged, Tagged, Range
  <2>2. /\ tx_pub_key' = tx_pub_key /\ merge_mining_tag' = merge_mining_tag
        /\ additional_pub_keys_of' = additional_pub_keys_of /\ pub_keys' = pub_keys
        /\ nonce_asked' = nonce_asked
    BY <2>1 DEF tx_pub_key, merge_mining_tag, additional_pub_keys_of, pub_keys, nonce_asked, Range
  <2>3. payment_id \subseteq payment_id' \/ error' # NoError
    <3>1. error = NoError => payment_id' = payment_id \/ error' # NoError
      BY <2>2 DEF payment_id, is_complete
    <3>2. error # NoError => payment_id = {}
      BY DEF payment_id, is_complete
    <3> QED BY <3>1, <3>2
  <2>4. tx_pub_key_explorer_compat' = tx_pub_key_explorer_compat
    BY <2>2 DEF tx_pub_key_explorer_compat
  <2> QED BY <1>2, <2>2, <2>3, <2>4
<1>4. CASE ~UNCHANGED fields
  <2>1. PICK x : fields' = Append(fields, x)
    BY <1>4 DEF ParseNext, Field, AtEnd
  <2>2. UNCHANGED error
    BY <1>4 DEF ParseNext, Field, AtEnd
  <2>3. \A tag : FirstTagged(tag) = {} \/ FirstTagged(tag)' = FirstTagged(tag)
    BY <2>1, FirstStays
  <2>4. tx_pub_key \subseteq tx_pub_key' /\ merge_mining_tag \subseteq merge_mining_tag'
    BY <2>3 DEF tx_pub_key, merge_mining_tag
  <2>5. additional_pub_keys_of # {} => additional_pub_keys_of' = additional_pub_keys_of
    BY <2>3 DEF additional_pub_keys_of, Range
  <2>6. payment_id \subseteq payment_id'
    <3>1. nonce_asked \subseteq nonce_asked'
      BY <2>3 DEF nonce_asked
    <3> QED BY <2>2, <3>1 DEF payment_id, is_complete
  <2>7. tx_pub_key_explorer_compat' # tx_pub_key_explorer_compat => Len(pub_keys') \in 1..2
    BY <2>1, CompatStays
  <2> QED BY <1>2, <2>4, <2>5, <2>6, <2>7
<1> QED BY <1>3, <1>4

\* Whatever the extra, reading on never takes back the key, the merge-mining tag,
\* the additional keys or, unless it fails, the payment id already found, and the
\* key the pages use moves only to the second (the accessors of tx_extra.rs).
THEOREM FieldsStandStill == DecodingSpec => FirstFieldsStand
<1>1. Start => ParseSound
  BY ParseSoundInit
<1>2. ParseSound /\ [ParseNext /\ UNCHANGED sample]_<<parse_vars, sample>> => ParseSound'
  BY ParseSoundNext
<1>3. ParseSound => (payment_id # {} => Len(undecoded_tail) < Len(extra))
  BY PaymentIdIsDecoded
<1>4. ParseSound /\ (payment_id # {} => Len(undecoded_tail) < Len(extra))'
      /\ [ParseNext /\ UNCHANGED sample]_<<parse_vars, sample>> =>
         [ /\ tx_pub_key \subseteq tx_pub_key'
           /\ merge_mining_tag \subseteq merge_mining_tag'
           /\ additional_pub_keys_of # {} => additional_pub_keys_of' = additional_pub_keys_of
           /\ payment_id \subseteq payment_id' \/ error' # NoError
           /\ tx_pub_key_explorer_compat' # tx_pub_key_explorer_compat => Len(pub_keys') \in 1..2
           /\ payment_id' # {} => Len(undecoded_tail') < Len(extra)
         ]_parse_vars
  BY FieldsStand
<1> QED BY <1>1, <1>2, <1>3, <1>4, PTL DEF DecodingSpec, FirstFieldsStand

-----------------------------------------------------------------------------
\* Partial sums of what is not negative only grow.
LEMMA SumGrows ==
  ASSUME NEW f, NEW g, NEW n \in Nat, SumsTo(f, g, n), \A i \in 1..n : g[i] \in Nat
  PROVE  \A m \in 0..n : f[m] \in Nat /\ f[m] <= f[n]
<1>1. \A m \in 0..n : f[m] \in Int
  BY SumIsInt
<1>2. \A m \in 0..n : m + 1 <= n => f[m + 1] = f[m] + g[m + 1]
  BY DEF SumsTo
<1> DEFINE U == {m \in Nat : m <= n => f[m] \in Nat}
           D == {k \in Nat : k <= n => f[n - k] <= f[n]}
<1>3. 0 \in U /\ U \in SUBSET Nat /\ \A m \in U : m + 1 \in U
  <2>1. 0 \in U
    BY DEF SumsTo
  <2>2. ASSUME NEW m \in U, m + 1 <= n PROVE f[m + 1] \in Nat
    BY <1>2, <2>2
  <2> QED BY <2>1, <2>2
<1>4. 0 \in D /\ D \in SUBSET Nat /\ \A k \in D : k + 1 \in D
  <2>1. 0 \in D
    <3>1. n - 0 = n /\ n \in 0..n
      OBVIOUS
    <3> QED BY <1>1, <3>1
  <2>2. ASSUME NEW k \in D, k + 1 <= n PROVE f[n - (k + 1)] <= f[n]
    <3> DEFINE m == n - (k + 1)
    <3>1. m \in 0..n /\ m + 1 \in 1..n /\ m + 1 = n - k /\ m + 1 <= n /\ n - k \in 0..n /\ n \in 0..n
      BY <2>2
    <3>2. f[m + 1] = f[m] + g[m + 1] /\ g[m + 1] \in Nat /\ f[m] \in Int /\ f[n - k] <= f[n] /\ f[n] \in Int
      BY <1>1, <1>2, <2>2, <3>1
    <3> HIDE DEF m
    <3>3. f[m] <= f[n]
      BY <3>1, <3>2
    <3> QED BY <3>3 DEF m
  <2> QED BY <2>1, <2>2
<1> HIDE DEF U, D
<1>5. U = Nat /\ D = Nat
  BY <1>3, <1>4, Induction
<1>6. SUFFICES ASSUME NEW m \in 0..n PROVE f[m] \in Nat /\ f[m] <= f[n]
  OBVIOUS
<1>7. m \in U /\ n - m \in D /\ n - m <= n /\ n - (n - m) = m
  BY <1>5
<1> QED BY <1>7 DEF U, D

\* Total is the last of the partial sums.
LEMMA TotalIs ==
  ASSUME NEW a, Len(a) \in Nat
  PROVE  \E f : SumsTo(f, a, Len(a)) /\ Total(a) = f[Len(a)]
<1> DEFINE F == CHOOSE f : SumsTo(f, a, Len(a))
<1>1. SumsTo(F, a, Len(a))
  BY SumExists
<1>2. Total(a) = F[Len(a)]
  BY DEF Total, SumsTo
<1> QED BY <1>1, <1>2

\* A sum within range never saturates.
LEMMA SumOfIs ==
  ASSUME NEW a \in Seq(Nat), Total(a) <= MaxAmount
  PROVE  SumOf(a) = Total(a) /\ Total(a) \in Nat
<1> DEFINE n == Len(a)
           Is(f) == f = [i \in 0..n |-> IF i = 0 THEN 0 ELSE Saturating(f[i - 1] + a[i])]
<1>1. n \in Nat /\ \A i \in 1..n : a[i] \in Nat
  OBVIOUS
<1>2. PICK F : SumsTo(F, a, n) /\ Total(a) = F[n]
  BY <1>1, TotalIs
<1> HIDE DEF n
<1>3. \A m \in 0..n : F[m] \in Nat /\ F[m] <= MaxAmount
  <2>1. \A m \in 0..n : F[m] \in Nat /\ F[m] <= F[n]
    BY <1>1, <1>2, SumGrows
  <2> QED BY <1>1, <1>2, <2>1, TransactionAssumption
<1>4. Is(F)
  <2>1. \A i \in 0..n : F[i] = IF i = 0 THEN 0 ELSE F[i - 1] + a[i]
    BY <1>2 DEF SumsTo
  <2>2. \A i \in 0..n : F[i] = IF i = 0 THEN 0 ELSE Saturating(F[i - 1] + a[i])
    BY <1>1, <1>3, <2>1, TransactionAssumption DEF Saturating
  <2>3. F = [i \in 0..n |-> F[i]]
    <3>1. F = [i \in 0..n |-> IF i = 0 THEN 0 ELSE F[i - 1] + a[i]]
      BY <1>2 DEF SumsTo
    <3> QED BY <2>1, <3>1
  <2> QED BY <2>2, <2>3
<1> DEFINE G == CHOOSE f : Is(f)
<1>5. Is(G)
  <2> HIDE DEF Is
  <2> QED BY <1>4
<1>6. \A i \in 0..n : G[i] = IF i = 0 THEN 0 ELSE Saturating(G[i - 1] + a[i])
  <2> HIDE DEF G
  <2> QED BY <1>5
<1>7. \A i \in 0..n : F[i] = IF i = 0 THEN 0 ELSE Saturating(F[i - 1] + a[i])
  BY <1>4
<1>8. SumOf(a) = G[n]
  BY DEF SumOf, n
<1> HIDE DEF Is, G
<1> DEFINE S == {m \in Nat : m <= n => G[m] = F[m]}
<1>9. 0 \in S /\ S \in SUBSET Nat
  <2>1. 0 \in 0..n
    BY <1>1
  <2>2. G[0] = 0 /\ F[0] = 0
    BY <1>6, <1>7, <2>1
  <2> QED BY <2>2
<1>10. ASSUME NEW m \in S PROVE m + 1 \in S
  <2>1. m \in Nat /\ (m <= n => G[m] = F[m])
    OBVIOUS
  <2>2. ASSUME m + 1 <= n PROVE G[m + 1] = F[m + 1]
    <3>1. m + 1 \in 0..n /\ m + 1 # 0 /\ (m + 1) - 1 = m /\ m <= n
      BY <1>1, <2>1, <2>2
    <3>2. G[m + 1] = Saturating(G[m] + a[m + 1]) /\ F[m + 1] = Saturating(F[m] + a[m + 1])
      BY <1>6, <1>7, <3>1
    <3> QED BY <2>1, <3>1, <3>2
  <2> QED BY <2>1, <2>2
<1> HIDE DEF S
<1>11. S = Nat
  BY <1>9, <1>10, Induction
<1>12. G[n] = F[n]
  BY <1>1, <1>11 DEF S
<1>13. n \in 0..n
  BY <1>1
<1> QED BY <1>2, <1>3, <1>8, <1>12, <1>13

-----------------------------------------------------------------------------
\* A document with one key more.
LEMMA WithIs ==
  ASSUME NEW doc, NEW condition \in BOOLEAN, NEW key, NEW what
  PROVE  LET d == With(doc, condition, key, what)
         IN  /\ Has(d, key) <=> condition \/ Has(doc, key)
             /\ condition => d[key] = what
             /\ \A k : k # key => (Has(d, k) <=> Has(doc, k))
             /\ \A k \in DOMAIN doc : k # key => d[k] = doc[k]
BY DEF With, Has

\* The RingCT base states a fee unless it is a coinbase's, and holds the
\* pseudo-outputs where the scheme puts them early.
LEMMA BaseIs ==
  ASSUME NEW t, IsTransaction(t)
  PROVE  LET base == BaseOf(t)
             early == t.scheme = 2 \/ (t.scheme = 7 /\ t.early)
         IN  /\ base.type = t.scheme
             /\ Has(base, "txnFee") <=> ~t.coinbase
             /\ ~t.coinbase => base.txnFee = t.fee
             /\ Has(base, "pseudoOuts") <=> early
             /\ early => base.pseudoOuts = t.pseudo
<1> DEFINE typed == [type |-> t.scheme]
           pays == ~t.coinbase
           feed == With(typed, pays, "txnFee", t.fee)
           early == t.scheme = 2 \/ (t.scheme = 7 /\ t.early)
           base == With(feed, early, "pseudoOuts", t.pseudo)
<1>1. BaseOf(t) = base
  BY DEF BaseOf
<1>2. t.coinbase \in BOOLEAN /\ t.early \in BOOLEAN
  BY DEF IsTransaction
<1>3. DOMAIN typed = {"type"} /\ typed["type"] = t.scheme
  OBVIOUS
<1> HIDE DEF typed
<1>4. pays \in BOOLEAN /\ early \in BOOLEAN
  BY <1>2
<1> HIDE DEF pays
<1>5. /\ Has(feed, "txnFee") <=> pays
      /\ pays => feed["txnFee"] = t.fee
      /\ Has(feed, "type") /\ feed["type"] = t.scheme
      /\ ~Has(feed, "pseudoOuts")
  BY <1>3, <1>4, WithIs DEF Has
<1> HIDE DEF feed, early
<1>6. /\ Has(base, "pseudoOuts") <=> early
      /\ early => base["pseudoOuts"] = t.pseudo
      /\ Has(base, "txnFee") <=> Has(feed, "txnFee")
      /\ Has(feed, "txnFee") => base["txnFee"] = feed["txnFee"]
      /\ base["type"] = feed["type"]
  BY <1>4, <1>5, WithIs DEF Has
<1> HIDE DEF base
<1>7. base.type = base["type"] /\ base.txnFee = base["txnFee"] /\ base.pseudoOuts = base["pseudoOuts"]
  OBVIOUS
<1> QED BY <1>1, <1>5, <1>6, <1>7 DEF early, pays

\* The document of a transaction, key by key.
LEMMA JsonIs ==
  ASSUME NEW t, IsTransaction(t), NEW split \in BOOLEAN
  PROVE  LET tx == JsonOf(t, split)
             late == t.scheme \in 3..6 \/ (t.scheme = 7 /\ ~t.early)
         IN  /\ tx.version = t.version /\ tx.vin = Inputs(t)
             /\ tx.vout = [i \in DOMAIN t.outs |-> [amount |-> t.outs[i]]]
             /\ Has(tx, "signatures") <=> t.version = 1 /\ ~(t.coinbase /\ split)
             /\ t.version = 1 /\ ~t.coinbase =>
                  tx.signatures = [i \in DOMAIN t.ins |-> SigHexLen * t.ins[i].ring]
             /\ Has(tx, "rct_signatures") <=> t.version = 2
             /\ t.version = 2 => tx.rct_signatures = BaseOf(t)
             /\ Has(tx, "rctsig_prunable") <=> Prunable(t) /\ ~t.lost
             /\ Prunable(t) /\ ~t.lost =>
                  tx.rctsig_prunable = IF late THEN [pseudoOuts |-> t.pseudo] ELSE [nbp |-> 0]
<1> DEFINE outs == [i \in DOMAIN t.outs |-> [amount |-> t.outs[i]]]
           sigs == IF t.coinbase THEN <<>> ELSE [i \in DOMAIN t.ins |-> SigHexLen * t.ins[i].ring]
           late == t.scheme \in 3..6 \/ (t.scheme = 7 /\ ~t.early)
           rest == IF late THEN [pseudoOuts |-> t.pseudo] ELSE [nbp |-> 0]
           plain == [version |-> t.version, vin |-> Inputs(t), vout |-> outs]
           one == t.version = 1 /\ ~(t.coinbase /\ split)
           two == t.version = 2
           three == Prunable(t) /\ ~t.lost
           signed == With(plain, one, "signatures", sigs)
           based == With(signed, two, "rct_signatures", BaseOf(t))
           tx == With(based, three, "rctsig_prunable", rest)
<1>1. JsonOf(t, split) = tx
  BY DEF JsonOf
<1>2. one \in BOOLEAN /\ two \in BOOLEAN /\ three \in BOOLEAN
  BY DEF IsTransaction, Prunable
<1>3. /\ DOMAIN plain = {"version", "vin", "vout"}
      /\ plain["version"] = t.version /\ plain["vin"] = Inputs(t) /\ plain["vout"] = outs
  OBVIOUS
<1>4. t.version = 1 /\ ~t.coinbase => one /\ sigs = [i \in DOMAIN t.ins |-> SigHexLen * t.ins[i].ring]
  OBVIOUS
<1> HIDE DEF plain, one, two, three, outs, sigs, rest
<1>5. /\ Has(signed, "signatures") <=> one
      /\ one => signed["signatures"] = sigs
      /\ Has(signed, "version") /\ signed["version"] = t.version
      /\ Has(signed, "vin") /\ signed["vin"] = Inputs(t)
      /\ Has(signed, "vout") /\ signed["vout"] = outs
      /\ ~Has(signed, "rct_signatures") /\ ~Has(signed, "rctsig_prunable")
  BY <1>2, <1>3, WithIs DEF Has
<1> HIDE DEF signed
<1>6. /\ Has(based, "rct_signatures") <=> two
      /\ two => based["rct_signatures"] = BaseOf(t)
      /\ Has(based, "signatures") <=> one
      /\ one => based["signatures"] = sigs
      /\ Has(based, "version") /\ based["version"] = t.version
      /\ Has(based, "vin") /\ based["vin"] = Inputs(t)
      /\ Has(based, "vout") /\ based["vout"] = outs
      /\ ~Has(based, "rctsig_prunable")
  BY <1>2, <1>5, WithIs DEF Has
<1> HIDE DEF based
<1>7. /\ Has(tx, "rctsig_prunable") <=> three
      /\ three => tx["rctsig_prunable"] = rest
      /\ Has(tx, "rct_signatures") <=> two
      /\ two => tx["rct_signatures"] = BaseOf(t)
      /\ Has(tx, "signatures") <=> one
      /\ one => tx["signatures"] = sigs
      /\ tx["version"] = t.version /\ tx["vin"] = Inputs(t) /\ tx["vout"] = outs
  BY <1>2, <1>6, WithIs DEF Has
<1> HIDE DEF tx
<1>8. /\ tx.version = tx["version"] /\ tx.vin = tx["vin"] /\ tx.vout = tx["vout"]
      /\ tx.signatures = tx["signatures"] /\ tx.rct_signatures = tx["rct_signatures"]
      /\ tx.rctsig_prunable = tx["rctsig_prunable"]
  OBVIOUS
<1>9. /\ JsonOf(t, split).version = t.version /\ JsonOf(t, split).vin = Inputs(t)
      /\ JsonOf(t, split).vout = outs
      /\ Has(JsonOf(t, split), "signatures") <=> one
      /\ t.version = 1 /\ ~t.coinbase =>
           JsonOf(t, split).signatures = [i \in DOMAIN t.ins |-> SigHexLen * t.ins[i].ring]
  BY <1>1, <1>4, <1>7, <1>8
<1>10. /\ Has(JsonOf(t, split), "rct_signatures") <=> two
       /\ two => JsonOf(t, split).rct_signatures = BaseOf(t)
       /\ Has(JsonOf(t, split), "rctsig_prunable") <=> three
       /\ three => JsonOf(t, split).rctsig_prunable = rest
  BY <1>1, <1>7, <1>8
<1> QED BY <1>9, <1>10 DEF one, two, three, outs, rest

\* A coinbase is seen in its document.
LEMMA CoinbaseSeen ==
  ASSUME NEW t, IsTransaction(t), NEW split \in BOOLEAN
  PROVE  is_coinbase(JsonOf(t, split)) <=> t.coinbase
<1>1. JsonOf(t, split).vin = Inputs(t)
  BY JsonIs
<1>2. CASE t.coinbase
  <2>1. Inputs(t) = <<[tag |-> "gen"]>>
    BY <1>2 DEF Inputs
  <2> QED BY <1>1, <1>2, <2>1 DEF is_coinbase, is_gen
<1>3. CASE ~t.coinbase
  <2>1. Len(t.ins) \in Nat /\ Len(t.ins) > 0 /\ DOMAIN t.ins = 1..Len(t.ins)
    BY DEF IsTransaction
  <2>2. 1 \in DOMAIN Inputs(t) /\ Inputs(t)[1].tag = "key"
    BY <1>3, <2>1 DEF Inputs
  <2> QED BY <1>1, <1>3, <2>2 DEF is_coinbase, is_gen
<1> QED BY <1>2, <1>3

\* What each raw type of a scheme is read as.
LEMMA SchemesAre ==
  ASSUME NEW raw \in 0..7
  PROVE  LET got == from_raw(raw).scheme
         IN  /\ raw = 0 <=> got = "Null"
             /\ raw = 1 <=> got = "Full"
             /\ raw = 2 <=> got = "Simple"
             /\ raw = 3 <=> got = "Bulletproof"
             /\ raw = 4 <=> got = "Bulletproof2"
             /\ raw = 5 <=> got = "Clsag"
             /\ raw = 6 <=> got = "BulletproofPlus"
             /\ raw = 7 <=> got = "Unknown"
             /\ raw = 7 => from_raw(raw).raw = raw
             /\ got # "None"
<1>1. /\ Schemes[1] = "Full" /\ Schemes[2] = "Simple" /\ Schemes[3] = "Bulletproof"
      /\ Schemes[4] = "Bulletproof2" /\ Schemes[5] = "Clsag" /\ Schemes[6] = "BulletproofPlus"
  BY DEF Schemes
<1>2. raw \in {0, 1, 2, 3, 4, 5, 6, 7}
  OBVIOUS
<1>3. CASE raw = 0
  BY <1>3 DEF from_raw
<1>4. CASE raw = 7
  BY <1>4 DEF from_raw
<1>5. CASE raw \in {1, 2, 3, 4, 5, 6}
  <2>1. from_raw(raw).scheme = Schemes[raw]
    BY <1>5 DEF from_raw
  <2> QED BY <1>1, <1>5, <2>1
<1> QED BY <1>2, <1>3, <1>4, <1>5

\* The scheme that the document names is the transaction's.
LEMMA SchemeSeen ==
  ASSUME NEW t, IsTransaction(t), NEW split \in BOOLEAN
  PROVE  rct_type(JsonOf(t, split)) =
           IF t.version = 2 THEN from_raw(t.scheme) ELSE [scheme |-> "None"]
<1>1. Has(JsonOf(t, split), "rct_signatures") <=> t.version = 2
  BY JsonIs
<1>2. t.version = 2 => JsonOf(t, split).rct_signatures.type = t.scheme
  BY JsonIs, BaseIs
<1> QED BY <1>1, <1>2 DEF rct_type

\* Nothing is called pruned but what this node has pruned.
LEMMA PrunedSeen ==
  ASSUME NEW t, IsTransaction(t), NEW split \in BOOLEAN
  PROVE  LET tx == JsonOf(t, split)
         IN  /\ prunable_missing(EntryOf(t, split), tx) <=> Prunable(t) /\ t.lost
             /\ looks_pruned(tx) <=> Prunable(t) /\ t.lost
<1> DEFINE tx == JsonOf(t, split)
<1>1. is_coinbase(tx) <=> t.coinbase
  BY CoinbaseSeen
<1>2. tx.version = t.version /\ t.version \in {1, 2}
  BY JsonIs DEF IsTransaction
<1>3. /\ Has(tx, "signatures") <=> t.version = 1 /\ ~(t.coinbase /\ split)
      /\ Has(tx, "rctsig_prunable") <=> Prunable(t) /\ ~t.lost
  BY JsonIs
<1>4. rct_type(tx) = IF t.version = 2 THEN from_raw(t.scheme) ELSE [scheme |-> "None"]
  BY SchemeSeen
<1> HIDE DEF tx
<1>5. prunable_missing(EntryOf(t, split), tx) <=> Prunable(t) /\ t.lost
  <2> DEFINE e == EntryOf(t, split)
  <2>1. CASE Prunable(t) /\ t.lost
    <3>1. e.as_hex = <<>> /\ e.prunable_as_hex = <<>>
      BY <2>1 DEF EntryOf
    <3> QED BY <1>1, <1>2, <2>1, <3>1 DEF prunable_missing, Prunable
  <2>2. CASE ~(Prunable(t) /\ t.lost)
    <3>1. CASE ~Prunable(t)
      BY <1>1, <1>2, <3>1 DEF prunable_missing, Prunable
    <3>2. CASE Prunable(t) /\ ~t.lost
      <4>1. Parts(t).rest = <<"rest", "rest">> /\ Parts(t).prefix = <<"prefix">>
        BY <3>2 DEF Parts, Prunable
      <4>2. e.as_hex # <<>> \/ e.prunable_as_hex # <<>>
        BY <3>2, <4>1 DEF EntryOf
      <4> QED BY <2>2, <4>2 DEF prunable_missing
    <3> QED BY <2>2, <3>1, <3>2
  <2> QED BY <2>1, <2>2
<1>6. looks_pruned(tx) <=> Prunable(t) /\ t.lost
  <2>1. CASE t.version = 1
    BY <1>1, <1>2, <1>3, <2>1 DEF looks_pruned, is_v1, Prunable
  <2>2. CASE t.version = 2
    <3>1. t.scheme = 0 <=> t.coinbase
      BY <2>2 DEF IsTransaction
    <3>2. rct_type(tx) = from_raw(t.scheme) /\ t.scheme \in 0..7
      BY <1>4, <2>2 DEF IsTransaction
    <3>3. (rct_type(tx).scheme = "Null" <=> t.scheme = 0) /\ rct_type(tx).scheme # "None"
      BY <3>2, SchemesAre
    <3> QED BY <1>1, <1>2, <1>3, <2>2, <3>1, <3>3 DEF looks_pruned, is_v1, Prunable
  <2> QED BY <1>2, <2>1, <2>2
<1> QED BY <1>5, <1>6 DEF tx

-----------------------------------------------------------------------------
\* The scheme shown is the scheme sent.
LEMMA RawSeen ==
  ASSUME NEW raw \in 0..7
  PROVE  to_raw(from_raw(raw)) = raw
<1> DEFINE type == from_raw(raw)
<1>1. CASE raw = 0 \/ raw = 7
  BY <1>1, SchemesAre DEF to_raw
<1>2. CASE raw \in 1..6
  <2>1. type.scheme # "Null" /\ type.scheme # "Unknown"
    BY <1>2, SchemesAre
  <2>2. to_raw(type) = CHOOSE r \in 1..6 : Schemes[r] = type.scheme
    BY <2>1 DEF to_raw
  <2>3. type.scheme = Schemes[raw]
    BY <1>2 DEF from_raw
  <2>4. \A r \in 1..6 : Schemes[r] = type.scheme => r = raw
    <3> SUFFICES ASSUME NEW r \in 1..6, Schemes[r] = type.scheme PROVE r = raw
      OBVIOUS
    <3>1. from_raw(r).scheme = type.scheme /\ r \in 0..7 /\ r \in {1, 2, 3, 4, 5, 6}
      BY DEF from_raw
    <3> HIDE DEF type
    <3>2. \A a \in 0..7 : LET got == from_raw(a).scheme
         IN  /\ a = 1 <=> got = "Full"
             /\ a = 2 <=> got = "Simple"
             /\ a = 3 <=> got = "Bulletproof"
             /\ a = 4 <=> got = "Bulletproof2"
             /\ a = 5 <=> got = "Clsag"
             /\ a = 6 <=> got = "BulletproofPlus"
      BY SchemesAre
    <3> QED BY <3>1, <3>2 DEF type
  <2> HIDE DEF type
  <2> QED BY <1>2, <2>2, <2>3, <2>4 DEF type
<1> QED BY <1>1, <1>2

\* The inputs of a transaction: one at least, each with an amount and a ring.
LEMMA InsAre ==
  ASSUME NEW t, IsTransaction(t)
  PROVE  /\ t.ins \in Seq([amount : Nat, ring : Nat \ {0}]) /\ 1 \in DOMAIN t.ins
         /\ DOMAIN t.ins = 1..Len(t.ins) /\ Len(t.ins) \in Nat
         /\ \A i \in DOMAIN t.ins : t.ins[i].amount \in Nat /\ t.ins[i].ring \in Nat \ {0}
<1>1. t.ins \in Seq([amount : Nat, ring : Nat \ {0}]) /\ t.ins # <<>>
  BY DEF IsTransaction
<1>2. DOMAIN t.ins = 1..Len(t.ins) /\ Len(t.ins) \in Nat /\ 1 \in DOMAIN t.ins
  BY <1>1
<1>3. \A i \in DOMAIN t.ins : t.ins[i] \in [amount : Nat, ring : Nat \ {0}]
  <2> DEFINE R == [amount : Nat, ring : Nat \ {0}]
  <2>1. t.ins \in Seq(R)
    BY <1>1
  <2> HIDE DEF R
  <2>2. \A i \in DOMAIN t.ins : t.ins[i] \in R
    BY <1>2, <2>1
  <2> QED BY <2>2 DEF R
<1>4. \A i \in DOMAIN t.ins : t.ins[i].amount \in Nat /\ t.ins[i].ring \in Nat \ {0}
  BY <1>3
<1> QED BY <1>1, <1>2, <1>4

\* Division undoes multiplication.
LEMMA WholeRings ==
  ASSUME NEW a \in Nat \ {0}, NEW b \in Nat \ {0}
  PROVE  (a * b) % a = 0 /\ (a * b) \div a = b /\ a * b > 0
<1>1. (a * b) % a = 0 /\ (a * b) \div a = b
  BY Z3
<1>2. a * b > 0
  BY Z3
<1> QED BY <1>1, <1>2

\* The inputs that spend an output: none of a coinbase, else all.
LEMMA KeysAre ==
  ASSUME NEW t, IsTransaction(t), NEW split \in BOOLEAN
  PROVE  /\ t.coinbase => Keys(JsonOf(t, split)) = <<>>
         /\ ~t.coinbase =>
              /\ Keys(JsonOf(t, split)) # <<>>
              /\ DOMAIN Keys(JsonOf(t, split)) = DOMAIN t.ins
              /\ \A i \in DOMAIN t.ins :
                   /\ Keys(JsonOf(t, split))[i].amount = t.ins[i].amount
                   /\ Keys(JsonOf(t, split))[i].key_offsets = [m \in 1..t.ins[i].ring |-> m]
<1> DEFINE s == Inputs(t)
           T == {in \in Range(s) : as_key(in)}
           A == Range(s)
<1>1. Keys(JsonOf(t, split)) = Within(s, T)
  <2>1. JsonOf(t, split).vin = s
    BY JsonIs
  <2> HIDE DEF s
  <2> QED BY <2>1 DEF Keys
<1>2. t.coinbase \in BOOLEAN /\ t.ins \in Seq([amount : Nat, ring : Nat \ {0}]) /\ t.ins # <<>>
  BY DEF IsTransaction
<1>3. CASE t.coinbase
  <2>1. s = <<[tag |-> "gen"]>>
    BY <1>3 DEF Inputs
  <2>2. s \in Seq({[tag |-> "gen"]}) /\ Len(s) = 1 /\ s[1] = [tag |-> "gen"]
    BY <2>1
  <2> HIDE DEF s
  <2>3. \A in \in T : in.tag = "key"
    BY DEF as_key
  <2>4. s[1] \notin T
    BY <2>2, <2>3
  <2> HIDE DEF T
  <2>5. Within(s, T) \in Seq({[tag |-> "gen"]})
    BY <2>2, SiftKeeps
  <2>6. \A k \in DOMAIN Within(s, T) : \E i \in DOMAIN s : s[i] \in T
    BY <2>2, SiftKeeps
  <2>7. \A i \in DOMAIN s : i = 1
    BY <2>2
  <2>8. Within(s, T) = <<>>
    <3> SUFFICES ASSUME Within(s, T) # <<>> PROVE FALSE
      OBVIOUS
    <3>1. 1 \in DOMAIN Within(s, T)
      BY <2>5
    <3>2. \E i \in DOMAIN s : s[i] \in T
      BY <2>6, <3>1
    <3> QED BY <2>4, <2>7, <3>2
  <2> QED BY <1>1, <1>3, <2>8
<1>4. CASE ~t.coinbase
  <2>1. s = [i \in DOMAIN t.ins |->
          [tag |-> "key", amount |-> t.ins[i].amount, key_offsets |-> [m \in 1..t.ins[i].ring |-> m]]]
    BY <1>4 DEF Inputs
  <2>2. DOMAIN t.ins = 1..Len(t.ins) /\ Len(t.ins) \in Nat /\ Len(t.ins) > 0
    BY <1>2
  <2>3. \A i \in DOMAIN t.ins :
          /\ s[i].tag = "key" /\ s[i].amount = t.ins[i].amount
          /\ s[i].key_offsets = [m \in 1..t.ins[i].ring |-> m]
    BY <2>1
  <2>4. DOMAIN s = DOMAIN t.ins
    BY <2>1
  <2> HIDE DEF s
  <2>5. \A i \in DOMAIN s : s[i] \in Range(s) /\ as_key(s[i])
    BY <2>3, <2>4 DEF Range, as_key
  <2>6. s \in Seq(Range(s)) /\ Len(s) = Len(t.ins)
    <3>1. s = [i \in DOMAIN s |-> s[i]]
      <4>1. \E g : s = [i \in DOMAIN t.ins |-> g[i]]
        <5> DEFINE g == [i \in DOMAIN t.ins |->
             [tag |-> "key", amount |-> t.ins[i].amount, key_offsets |-> [m \in 1..t.ins[i].ring |-> m]]]
        <5>1. g = [i \in DOMAIN t.ins |-> g[i]]
          OBVIOUS
        <5> QED BY <2>1, <5>1
      <4> QED BY <2>4, <4>1
    <3>2. s \in [1..Len(t.ins) -> Range(s)]
      BY <2>2, <2>4, <2>5, <3>1
    <3> QED BY <2>2, <2>4, <3>2
  <2>7. \A i \in 1..Len(s) : s[i] \in T
    BY <2>2, <2>4, <2>5, <2>6
  <2> HIDE DEF T
  <2>8. Within(s, T) = s
    BY <2>6, <2>7, SiftAll
  <2>9. s # <<>>
    BY <2>2, <2>6
  <2> QED BY <1>1, <1>4, <2>3, <2>4, <2>8, <2>9
<1> QED BY <1>2, <1>3, <1>4

\* What the inputs bring and the outputs take, as far as the document says.
LEMMA SumsSeen ==
  ASSUME NEW t, IsTransaction(t), NEW split \in BOOLEAN, ~t.coinbase
  PROVE  LET tx == JsonOf(t, split)
             keys == Keys(tx)
         IN  /\ SumOf([i \in DOMAIN keys |-> keys[i].amount]) = Total([i \in DOMAIN t.ins |-> t.ins[i].amount])
             /\ SumOf([i \in DOMAIN tx.vout |-> tx.vout[i].amount]) = Total(t.outs)
             /\ Total([i \in DOMAIN t.ins |-> t.ins[i].amount]) \in Nat /\ Total(t.outs) \in Nat
<1> DEFINE tx == JsonOf(t, split)
           keys == Keys(tx)
           ins == [i \in DOMAIN t.ins |-> t.ins[i].amount]
<1>1. /\ t.ins \in Seq([amount : Nat, ring : Nat \ {0}]) /\ t.outs \in Seq(Nat)
      /\ Total(ins) <= MaxAmount /\ Total(t.outs) <= MaxAmount
  BY DEF IsTransaction
<1>2. [i \in DOMAIN keys |-> keys[i].amount] = ins
  <2>1. DOMAIN keys = DOMAIN t.ins /\ \A i \in DOMAIN t.ins : keys[i].amount = t.ins[i].amount
    BY KeysAre
  <2> HIDE DEF keys, tx
  <2> QED BY <2>1
<1>3. [i \in DOMAIN tx.vout |-> tx.vout[i].amount] = t.outs
  <2>1. tx.vout = [i \in DOMAIN t.outs |-> [amount |-> t.outs[i]]]
    BY JsonIs
  <2>2. DOMAIN tx.vout = DOMAIN t.outs /\ \A i \in DOMAIN t.outs : tx.vout[i].amount = t.outs[i]
    BY <2>1
  <2>3. t.outs = [i \in DOMAIN t.outs |-> t.outs[i]]
    BY <1>1
  <2> HIDE DEF tx
  <2> QED BY <2>2, <2>3
<1>4. ins \in Seq(Nat)
  <2>1. DOMAIN t.ins = 1..Len(t.ins) /\ Len(t.ins) \in Nat /\ \A i \in DOMAIN t.ins : t.ins[i].amount \in Nat
    BY InsAre
  <2>2. ins \in [1..Len(t.ins) -> Nat]
    BY <2>1
  <2> QED BY <2>1, <2>2
<1> HIDE DEF ins, tx, keys
<1>5. SumOf(ins) = Total(ins) /\ Total(ins) \in Nat /\ SumOf(t.outs) = Total(t.outs) /\ Total(t.outs) \in Nat
  BY <1>1, <1>4, SumOfIs
<1> QED BY <1>2, <1>3, <1>5 DEF ins, tx, keys

\* The fee shown is what is paid, stated or not.
LEMMA FeeSeen ==
  ASSUME NEW t, IsTransaction(t), NEW split \in BOOLEAN, NEW size, NEW stated \in {{}, {Paid(t)}}
  PROVE  derive(JsonOf(t, split), size, stated).fee = Paid(t)
<1> DEFINE tx == JsonOf(t, split)
           ins == SumOf([i \in DOMAIN Keys(tx) |-> Keys(tx)[i].amount])
           outs == SumOf([i \in DOMAIN tx.vout |-> tx.vout[i].amount])
<1>1. derive(tx, size, stated).fee = fee(tx, stated, Less(ins, outs))
  BY DEF derive
<1>2. is_coinbase(tx) <=> t.coinbase
  BY CoinbaseSeen
<1>3. CASE t.coinbase
  BY <1>1, <1>2, <1>3 DEF fee, Paid
<1>4. CASE ~t.coinbase /\ stated = {Paid(t)}
  <2>1. (CHOOSE f \in stated : TRUE) = Paid(t)
    BY <1>4
  <2> HIDE DEF tx, ins, outs
  <2> QED BY <1>1, <1>2, <1>4, <2>1 DEF fee, tx
<1>5. CASE ~t.coinbase /\ stated = {}
  <2>1. /\ ins = Total([i \in DOMAIN t.ins |-> t.ins[i].amount]) /\ outs = Total(t.outs)
        /\ ins \in Nat /\ outs \in Nat
    BY <1>5, SumsSeen
  <2>2. fee(tx, stated, Less(ins, outs)) = Held(tx, "rct_signatures", "txnFee", Less(ins, outs))
    <3> HIDE DEF tx, ins, outs
    <3> QED BY <1>2, <1>5 DEF fee
  <2>3. Has(tx, "rct_signatures") <=> t.version = 2
    BY JsonIs
  <2>4. CASE t.version = 1
    <3>1. outs <= ins
      BY <1>5, <2>1, <2>4 DEF IsTransaction
    <3>2. Paid(t) = ins - outs
      BY <1>5, <2>1, <2>4 DEF Paid
    <3> HIDE DEF tx, ins, outs
    <3> QED BY <1>1, <2>1, <2>2, <2>3, <2>4, <3>1, <3>2 DEF Held, Less, tx
  <2>5. CASE t.version = 2
    <3>1. tx.rct_signatures = BaseOf(t)
      BY <2>5, JsonIs
    <3>2. Has(BaseOf(t), "txnFee") /\ BaseOf(t).txnFee = t.fee
      BY <1>5, BaseIs
    <3>3. Paid(t) = t.fee
      BY <1>5, <2>5 DEF Paid
    <3> HIDE DEF ins, outs, tx
    <3>4. Held(tx, "rct_signatures", "txnFee", Less(ins, outs)) = t.fee
      BY <2>3, <2>5, <3>1, <3>2 DEF Held
    <3> QED BY <1>1, <2>2, <3>3, <3>4 DEF tx
  <2> QED BY <2>4, <2>5 DEF IsTransaction
<1> QED BY <1>3, <1>4, <1>5

\* The bytes counted are those that are left of it.
LEMMA SizeSeen ==
  ASSUME NEW t, IsTransaction(t), NEW split \in BOOLEAN
  PROVE  Len(raw_hex(EntryOf(t, split))) =
           IF Prunable(t) /\ t.lost THEN 1 ELSE Len(Parts(t).prefix \o Parts(t).rest)
<1> DEFINE left == IF Prunable(t) /\ t.lost THEN <<>> ELSE Parts(t).rest
           e == EntryOf(t, split)
<1>1. Parts(t).prefix = <<"prefix">> /\ Parts(t).rest = IF t.coinbase THEN <<>> ELSE <<"rest", "rest">>
  BY DEF Parts
<1>2. left = <<>> \/ left = <<"rest", "rest">>
  BY <1>1
<1>3. raw_hex(e) = <<"prefix">> \o left
  <2>1. CASE split \/ left = <<>>
    <3>1. e.as_hex = <<>> /\ e.pruned_as_hex = <<"prefix">> /\ e.prunable_as_hex = left
      BY <1>1, <2>1 DEF EntryOf
    <3> HIDE DEF e, left
    <3> QED BY <3>1 DEF raw_hex
  <2>2. CASE ~(split \/ left = <<>>)
    <3>1. e.as_hex = <<"prefix">> \o left
      BY <1>1, <2>2 DEF EntryOf
    <3>2. <<"prefix">> \o left # <<>>
      BY <1>2
    <3> HIDE DEF e, left
    <3> QED BY <3>1, <3>2 DEF raw_hex
  <2> QED BY <2>1, <2>2
<1>4. CASE Prunable(t) /\ t.lost
  <2>1. Len(<<"prefix">> \o <<>>) = 1
    OBVIOUS
  <2> QED BY <1>3, <1>4, <2>1
<1>5. CASE ~(Prunable(t) /\ t.lost)
  BY <1>1, <1>3, <1>5
<1> QED BY <1>4, <1>5

\* The pseudo-outputs are found where the scheme has them, or nowhere.
LEMMA PseudoSeen ==
  ASSUME NEW t, IsTransaction(t), NEW split \in BOOLEAN
  PROVE  pseudo_outs(JsonOf(t, split)) = IF CarriesPseudo(t) THEN t.pseudo ELSE <<>>
<1> DEFINE tx == JsonOf(t, split)
           base == BaseOf(t)
           early == t.scheme = 2 \/ (t.scheme = 7 /\ t.early)
           late == t.scheme \in 3..6 \/ (t.scheme = 7 /\ ~t.early)
           rest == IF late THEN [pseudoOuts |-> t.pseudo] ELSE [nbp |-> 0]
           there == Prunable(t) /\ ~t.lost
           InBase == Held(tx, "rct_signatures", "pseudoOuts", <<>>)
           InRest(other) == Held(tx, "rctsig_prunable", "pseudoOuts", other)
<1>1. /\ Has(tx, "rct_signatures") <=> t.version = 2
      /\ t.version = 2 => tx.rct_signatures = base
      /\ Has(tx, "rctsig_prunable") <=> there
      /\ there => tx.rctsig_prunable = rest
  BY JsonIs
<1>2. (Has(base, "pseudoOuts") <=> early) /\ (early => base.pseudoOuts = t.pseudo)
  BY BaseIs
<1>3. (Has(rest, "pseudoOuts") <=> late) /\ (late => rest.pseudoOuts = t.pseudo)
  BY DEF Has
<1>4. rct_type(tx) = IF t.version = 2 THEN from_raw(t.scheme) ELSE [scheme |-> "None"]
  BY SchemeSeen
<1>5. /\ t.scheme \in 0..7 /\ t.version \in {1, 2} /\ t.coinbase \in BOOLEAN
      /\ t.early \in BOOLEAN /\ t.lost \in BOOLEAN /\ (t.early => t.scheme = 7)
      /\ (t.version = 2 => (t.coinbase <=> t.scheme = 0))
  BY DEF IsTransaction
<1> HIDE DEF tx, base, rest, there
<1>6. InBase = IF t.version = 2 /\ early THEN t.pseudo ELSE <<>>
  BY <1>1, <1>2 DEF Held
<1>7. \A other : InRest(other) = IF there /\ late THEN t.pseudo ELSE other
  BY <1>1, <1>3 DEF Held
<1> DEFINE type == rct_type(tx)
<1>8. pseudo_outs(tx) =
        CASE type.scheme = "Unknown" -> InRest(InBase)
          [] pseudo_outs_location(type) = "Base" -> InBase
          [] pseudo_outs_location(type) = "Prunable" -> InRest(<<>>)
          [] OTHER -> <<>>
  BY DEF pseudo_outs
<1>9. CASE t.version = 1
  <2>1. type.scheme = "None"
    BY <1>4, <1>9
  <2>2. pseudo_outs_location(type) = "Absent"
    BY <2>1 DEF pseudo_outs_location
  <2> HIDE DEF type, InBase, InRest
  <2>3. pseudo_outs(tx) = <<>>
    BY <1>8, <2>1, <2>2
  <2> QED BY <1>9, <2>3 DEF CarriesPseudo, tx
<1>10. CASE t.version = 2
  <2>1. type.scheme = from_raw(t.scheme).scheme
    BY <1>4, <1>10
  <2> HIDE DEF InBase, InRest, type
  <2>2. there <=> t.scheme # 0 /\ ~t.lost
    BY <1>5, <1>10 DEF there, Prunable
  <2>3. CASE t.scheme \in {0, 1}
    <3>1. type.scheme \in {"Null", "Full"}
      BY <1>5, <2>1, <2>3, SchemesAre
    <3>2. pseudo_outs_location(type) = "Absent"
      BY <3>1 DEF pseudo_outs_location
    <3>3. pseudo_outs(tx) = <<>>
      BY <1>8, <3>1, <3>2
    <3> QED BY <1>5, <1>10, <2>3, <3>3 DEF CarriesPseudo, tx
  <2>4. CASE t.scheme = 2
    <3>1. type.scheme = "Simple"
      BY <1>5, <2>1, <2>4, SchemesAre
    <3>2. pseudo_outs_location(type) = "Base"
      BY <3>1 DEF pseudo_outs_location
    <3>3. pseudo_outs(tx) = InBase
      BY <1>8, <3>1, <3>2
    <3> QED BY <1>5, <1>6, <1>10, <2>4, <3>3 DEF CarriesPseudo, tx
  <2>5. CASE t.scheme \in 3..6
    <3>1. type.scheme \in {"Bulletproof", "Bulletproof2", "Clsag", "BulletproofPlus"}
      <4>1. t.scheme \in {3, 4, 5, 6}
        BY <2>5
      <4> QED BY <1>5, <2>1, <4>1, SchemesAre
    <3>2. pseudo_outs_location(type) = "Prunable"
      BY <3>1 DEF pseudo_outs_location
    <3>3. pseudo_outs(tx) = InRest(<<>>)
      BY <1>8, <3>1, <3>2
    <3> QED BY <1>5, <1>7, <1>10, <2>2, <2>5, <3>3 DEF CarriesPseudo, tx
  <2>6. CASE t.scheme = 7
    <3>1. type.scheme = "Unknown"
      BY <1>5, <2>1, <2>6, SchemesAre
    <3>2. pseudo_outs_location(type) = "Absent"
      BY <3>1 DEF pseudo_outs_location
    <3>3. pseudo_outs(tx) = InRest(InBase)
      BY <1>8, <3>1, <3>2
    <3> QED BY <1>5, <1>6, <1>7, <1>10, <2>2, <2>6, <3>3 DEF CarriesPseudo, tx
  <2>7. t.scheme \in {0, 1} \/ t.scheme = 2 \/ t.scheme \in 3..6 \/ t.scheme = 7
    BY <1>5
  <2> QED BY <2>3, <2>4, <2>5, <2>6, <2>7
<1> QED BY <1>5, <1>9, <1>10

\* As many signatures are split off as a ring has members.
LEMMA SignaturesSeen ==
  ASSUME NEW t, IsTransaction(t), NEW split \in BOOLEAN, t.version = 1, ~t.coinbase,
         NEW i \in DOMAIN t.ins
  PROVE  ring_signatures_for_input(JsonOf(t, split), i) = t.ins[i].ring
<1> DEFINE tx == JsonOf(t, split)
           ring == t.ins[i].ring
<1>1. ring \in Nat \ {0}
  BY InsAre
<1>2. Has(tx, "signatures") /\ tx.signatures = [k \in DOMAIN t.ins |-> SigHexLen * t.ins[k].ring]
  BY JsonIs
<1>3. tx.vin = Inputs(t)
  BY JsonIs
<1>4. i \in DOMAIN tx.vin /\ as_key(tx.vin[i]) /\ Len(tx.vin[i].key_offsets) = ring
  <2>1. Inputs(t)[i].key_offsets = [m \in 1..ring |-> m] /\ Inputs(t)[i].tag = "key" /\ i \in DOMAIN Inputs(t)
    BY DEF Inputs
  <2>2. Len([m \in 1..ring |-> m]) = ring
    BY <1>1
  <2> HIDE DEF ring, tx
  <2> QED BY <1>3, <2>1, <2>2 DEF as_key
<1>5. split_ring_signatures(SigHexLen * ring) = ring
  <2>1. SigHexLen \in Nat \ {0}
    BY TransactionAssumption
  <2> HIDE DEF ring
  <2>2. (SigHexLen * ring) % SigHexLen = 0 /\ (SigHexLen * ring) \div SigHexLen = ring /\ SigHexLen * ring > 0
    BY <1>1, <2>1, WholeRings
  <2> QED BY <2>2 DEF split_ring_signatures
<1> HIDE DEF tx, ring
<1>6. i \in DOMAIN tx.signatures /\ tx.signatures[i] = SigHexLen * ring
  BY <1>2 DEF ring
<1> QED BY <1>2, <1>4, <1>5, <1>6 DEF ring_signatures_for_input, tx, ring

\* All the facts of a transaction, together.
LEMMA Facts ==
  ASSUME NEW s, IsTransaction(s.tx), s.split \in BOOLEAN
  PROVE  Factual(s)
<1> DEFINE t == s.tx
           tx == JsonOf(s.tx, s.split)
           got == from_entry(EntryOf(s.tx, s.split), tx)
           pool == from_pool([blob_size |-> 3, fee |-> Paid(s.tx)], tx)
<1>1. got = derive(tx, Len(raw_hex(EntryOf(s.tx, s.split))), {}) /\ pool = derive(tx, 3, {Paid(s.tx)})
  BY DEF from_entry, from_pool
<1>2. got.coinbase = t.coinbase
  <2>1. got.coinbase = is_coinbase(tx)
    BY <1>1 DEF derive
  <2>2. is_coinbase(tx) <=> t.coinbase
    BY CoinbaseSeen
  <2>3. is_coinbase(tx) \in BOOLEAN /\ t.coinbase \in BOOLEAN
    BY DEF is_coinbase, is_gen, IsTransaction
  <2> QED BY <2>1, <2>2, <2>3
<1>3. got.fee = Paid(t) /\ pool.fee = Paid(t)
  BY <1>1, FeeSeen
<1>4. got.rct_type = IF t.version = 2 THEN t.scheme ELSE 0
  <2>1. got.rct_type = IF Has(tx, "rct_signatures") THEN to_raw(rct_type(tx)) ELSE 0
    BY <1>1 DEF derive
  <2>2. Has(tx, "rct_signatures") <=> t.version = 2
    BY JsonIs
  <2>3. t.version = 2 => to_raw(rct_type(tx)) = t.scheme
    BY SchemeSeen, RawSeen DEF IsTransaction
  <2> QED BY <2>1, <2>2, <2>3
<1>5. got.ring_size = IF t.coinbase THEN 0 ELSE t.ins[1].ring
  <2>1. got.ring_size = IF Keys(tx) = <<>> THEN 0 ELSE Len(Keys(tx)[1].key_offsets)
    BY <1>1 DEF derive
  <2>2. CASE t.coinbase
    <3>1. Keys(tx) = <<>>
      BY <2>2, KeysAre
    <3> QED BY <2>1, <2>2, <3>1
  <2>3. CASE ~t.coinbase
    <3>1. 1 \in DOMAIN t.ins /\ t.ins[1].ring \in Nat
      BY InsAre
    <3>2. /\ Keys(tx) # <<>>
          /\ \A i \in DOMAIN t.ins : Keys(tx)[i].key_offsets = [m \in 1..t.ins[i].ring |-> m]
      BY <2>3, KeysAre
    <3>3. Len([m \in 1..t.ins[1].ring |-> m]) = t.ins[1].ring
      BY <3>1
    <3>4. Keys(tx)[1].key_offsets = [m \in 1..t.ins[1].ring |-> m]
      BY <3>1, <3>2
    <3> HIDE DEF tx, got
    <3>5. Len(Keys(tx)[1].key_offsets) = t.ins[1].ring
      BY <3>3, <3>4
    <3> QED BY <2>1, <2>3, <3>2, <3>5
  <2> QED BY <2>2, <2>3
<1>6. got.size = IF Prunable(t) /\ t.lost THEN 1 ELSE Len(Parts(t).prefix \o Parts(t).rest)
  <2>1. got.size = Len(raw_hex(EntryOf(s.tx, s.split)))
    BY <1>1 DEF derive
  <2> QED BY <2>1, SizeSeen
<1>7. pseudo_outs(tx) = IF CarriesPseudo(t) THEN t.pseudo ELSE <<>>
  BY PseudoSeen
<1>8. t.pseudo # <<>>
  BY DEF IsTransaction
<1>9. t.version = 1 /\ ~t.coinbase =>
        \A i \in DOMAIN t.ins : ring_signatures_for_input(tx, i) = t.ins[i].ring
  BY SignaturesSeen
<1> HIDE DEF tx, got, pool
<1> QED BY <1>2, <1>3, <1>4, <1>5, <1>6, <1>7, <1>8, <1>9 DEF Factual, tx, got, pool

-----------------------------------------------------------------------------
\* The order of a sort is strict and total: equal values go by place.
LEMMA OrderTotal ==
  ASSUME NEW n \in Nat, NEW values \in [1..n -> Int], NEW dir \in {"asc", "desc"}
  PROVE  /\ \A i \in 1..n : ~goes_before(values, dir, i, i)
         /\ \A i, j \in 1..n : i # j => goes_before(values, dir, i, j) \/ goes_before(values, dir, j, i)
         /\ \A i, j, k \in 1..n :
              goes_before(values, dir, i, j) /\ goes_before(values, dir, j, k) => goes_before(values, dir, i, k)
<1>1. \A i \in 1..n : values[i] \in Int /\ i \in Int
  OBVIOUS
<1>2. CASE dir = "asc"
  BY <1>1, <1>2 DEF goes_before
<1>3. CASE dir = "desc"
  BY <1>1, <1>3 DEF goes_before
<1> QED BY <1>2, <1>3

\* The rows that go before row i.
Ahead(values, dir, n, i) == {j \in 1..n : goes_before(values, dir, j, i)}

\* A row has fewer rows before it than any it goes before, so their numbers are
\* the places 0 to n - 1.
LEMMA AheadIs ==
  ASSUME NEW n \in Nat, NEW values \in [1..n -> Int], NEW dir \in {"asc", "desc"}
  PROVE  /\ \A i \in 1..n : Cardinality(Ahead(values, dir, n, i)) \in 0..(n - 1)
         /\ \A i, j \in 1..n : goes_before(values, dir, i, j) =>
              Cardinality(Ahead(values, dir, n, i)) < Cardinality(Ahead(values, dir, n, j))
<1> DEFINE A(i) == Ahead(values, dir, n, i)
<1>1. IsFiniteSet(1..n) /\ Cardinality(1..n) = n
  BY FS_Interval
<1>2. \A i \in 1..n : A(i) \subseteq 1..n /\ i \notin A(i)
  BY OrderTotal DEF Ahead
<1>3. \A i, j \in 1..n : goes_before(values, dir, i, j) => A(i) \subseteq A(j) /\ i \in A(j)
  BY OrderTotal DEF Ahead
<1> HIDE DEF A
<1>4. \A i \in 1..n : IsFiniteSet(A(i)) /\ Cardinality(A(i)) \in Nat
  BY <1>1, <1>2, FS_Subset, FS_CardinalityType
<1>5. ASSUME NEW i \in 1..n PROVE Cardinality(A(i)) \in 0..(n - 1)
  <2>1. Cardinality(A(i)) <= n /\ A(i) # 1..n
    BY <1>1, <1>2, FS_Subset
  <2>2. Cardinality(A(i)) # n
    BY <1>1, <1>2, <2>1, FS_Subset
  <2> QED BY <1>4, <2>1, <2>2
<1>6. ASSUME NEW i \in 1..n, NEW j \in 1..n, goes_before(values, dir, i, j)
      PROVE  Cardinality(A(i)) < Cardinality(A(j))
  <2>1. A(i) \subseteq A(j) /\ i \in A(j) /\ i \notin A(i)
    BY <1>2, <1>3, <1>6
  <2>2. Cardinality(A(i)) <= Cardinality(A(j)) /\ Cardinality(A(i)) # Cardinality(A(j))
    BY <1>4, <2>1, FS_Subset
  <2> QED BY <1>4, <2>2
<1> QED BY <1>5, <1>6 DEF A

\* The orders to show n rows in, each once, as the sort asks.
Orders(n, rows, values, dir) ==
  {p \in [1..n -> 1..n] :
     /\ sort_rows(rows, values, dir) = [k \in 1..n |-> rows[p[k]]]
     /\ \A i \in 1..n : \E k \in 1..n : p[k] = i
     /\ \A k, l \in 1..n : k < l => goes_before(values, dir, p[k], p[l])}

\* The rows sorted are the rows in another order, each once, and in the sort's.
LEMMA SortIs ==
  ASSUME NEW n \in Nat, NEW rows, DOMAIN rows = 1..n, NEW values \in [1..n -> Int],
         NEW dir \in {"asc", "desc"}
  PROVE  Orders(n, rows, values, dir) # {}
<1> DEFINE C(i) == Cardinality(Ahead(values, dir, n, i))
           rank == [i \in 1..n |-> C(i) + 1]
<1>1. \A i \in 1..n : C(i) \in 0..(n - 1)
  BY AheadIs
<1>2. \A i, j \in 1..n : goes_before(values, dir, i, j) => C(i) < C(j)
  BY AheadIs
<1>3. \A i, j \in 1..n : i # j => goes_before(values, dir, i, j) \/ goes_before(values, dir, j, i)
  BY OrderTotal
<1>4. \A k \in 1..n, i \in DOMAIN rows :
        Cardinality({j \in DOMAIN rows : goes_before(values, dir, j, i)}) = C(i)
  BY DEF Ahead
<1> HIDE DEF C
<1>5. rank \in [1..n -> 1..n] /\ \A i \in 1..n : rank[i] = C(i) + 1
  BY <1>1
<1> HIDE DEF rank
<1>6. \A i, j \in 1..n : goes_before(values, dir, i, j) => rank[i] < rank[j]
  BY <1>1, <1>2, <1>5
<1>7. \A i, j \in 1..n : rank[i] = rank[j] => i = j
  <2> SUFFICES ASSUME NEW i \in 1..n, NEW j \in 1..n, rank[i] = rank[j], i # j PROVE FALSE
    OBVIOUS
  <2>1. rank[i] < rank[j] \/ rank[j] < rank[i]
    BY <1>3, <1>6
  <2>2. rank[i] \in Int /\ rank[j] \in Int
    BY <1>5
  <2> QED BY <2>1, <2>2
<1>8. \A k \in 1..n : \E i \in 1..n : rank[i] = k
  <2>1. rank \in Injection(1..n, 1..n)
    BY <1>5, <1>7 DEF Injection, IsInjective
  <2>2. IsFiniteSet(1..n) /\ Cardinality(1..n) = n
    BY FS_Interval
  <2>3. rank \in Surjection(1..n, 1..n)
    BY <2>1, <2>2, FS_Injection
  <2> QED BY <2>3 DEF Surjection
<1> DEFINE nth(k) == CHOOSE i \in 1..n : rank[i] = k
           p == [k \in 1..n |-> nth(k)]
<1>9. \A k \in 1..n : nth(k) \in 1..n /\ rank[nth(k)] = k
  BY <1>8
<1>10. sort_rows(rows, values, dir) = [k \in 1..n |-> rows[nth(k)]]
  <2>1. \A k \in 1..n, i \in 1..n :
          Cardinality({j \in DOMAIN rows : goes_before(values, dir, j, i)}) = k - 1 <=> rank[i] = k
    <3> SUFFICES ASSUME NEW k \in 1..n, NEW i \in 1..n
                 PROVE  Cardinality({j \in DOMAIN rows : goes_before(values, dir, j, i)}) = k - 1 <=> rank[i] = k
      OBVIOUS
    <3> DEFINE c == Cardinality({j \in DOMAIN rows : goes_before(values, dir, j, i)})
    <3>1. c = C(i)
      BY <1>4
    <3>2. C(i) \in Int /\ rank[i] = C(i) + 1
      BY <1>1, <1>5
    <3> HIDE DEF c
    <3>3. c = k - 1 <=> rank[i] = k
      BY <3>1, <3>2
    <3> QED BY <3>3 DEF c
  <2> DEFINE picked(k) == CHOOSE i \in DOMAIN rows :
        Cardinality({j \in DOMAIN rows : goes_before(values, dir, j, i)}) = k - 1
  <2>2. ASSUME NEW k \in 1..n PROVE picked(k) = nth(k)
    BY <2>1
  <2>3. sort_rows(rows, values, dir) = [k \in 1..n |-> rows[picked(k)]]
    BY DEF sort_rows
  <2> HIDE DEF picked, nth
  <2> QED BY <2>2, <2>3
<1> HIDE DEF nth
<1>11. p \in [1..n -> 1..n] /\ \A k \in 1..n : p[k] = nth(k) /\ rank[p[k]] = k
  BY <1>9
<1>12. [k \in 1..n |-> rows[nth(k)]] = [k \in 1..n |-> rows[p[k]]]
  OBVIOUS
<1> HIDE DEF p
<1>13. ASSUME NEW i \in 1..n PROVE \E k \in 1..n : p[k] = i
  <2>1. rank[i] \in 1..n
    BY <1>5
  <2>2. p[rank[i]] \in 1..n /\ rank[p[rank[i]]] = rank[i]
    BY <1>11, <2>1
  <2>3. p[rank[i]] = i
    BY <1>7, <2>2
  <2> QED BY <2>1, <2>3
<1>14. ASSUME NEW k \in 1..n, NEW l \in 1..n, k < l PROVE goes_before(values, dir, p[k], p[l])
  <2>1. p[k] \in 1..n /\ p[l] \in 1..n /\ rank[p[k]] = k /\ rank[p[l]] = l
    BY <1>11
  <2>2. p[k] # p[l]
    BY <1>14, <2>1
  <2>3. ~goes_before(values, dir, p[l], p[k])
    BY <1>6, <1>14, <2>1
  <2> QED BY <1>3, <2>1, <2>2, <2>3
<1>15. p \in Orders(n, rows, values, dir)
  BY <1>10, <1>11, <1>12, <1>13, <1>14 DEF Orders
<1> QED BY <1>15

\* The sort asked for: none, or one of the three keys one way or the other.
LEMMA ActiveIs ==
  ASSUME NEW sort, NEW dir
  PROVE  \/ active_sort(sort, dir) = {} /\ sort \notin {"waiting", "fee", "size"}
         \/ /\ sort \in {"waiting", "fee", "size"}
            /\ \E d \in {"asc", "desc"} :
                 /\ active_sort(sort, dir) = {[key |-> sort, dir |-> d]}
                 /\ dir \in {"asc", "desc"} => d = dir
BY DEF active_sort

\* The values of the rows in a column of the pool's table.
Column(rows, key) ==
  [i \in DOMAIN rows |-> IF key = "fee" THEN rows[i].fee_atomic
                         ELSE IF key = "size" THEN rows[i].size ELSE rows[i].waiting_secs]

\* What a table is sorted by: a column of its own.
LEMMA RowsSortedBy ==
  ASSUME NEW rows, NEW active, NEW key \in {"waiting", "fee", "size"}, NEW dir,
         active = {[key |-> key, dir |-> dir]}
  PROVE  sort_pool_rows(rows, active) = sort_rows(rows, Column(rows, key), dir)
<1> DEFINE a == CHOOSE a \in active : TRUE
           W == [i \in DOMAIN rows |-> rows[i].waiting_secs]
           F == [i \in DOMAIN rows |-> rows[i].fee_atomic]
           S == [i \in DOMAIN rows |-> rows[i].size]
           V == Column(rows, key)
           columns == [waiting |-> W, fee |-> F, size |-> S]
<1>1. a = [key |-> key, dir |-> dir] /\ active # {}
  OBVIOUS
<1>2. a.key = key /\ a.dir = dir
  BY <1>1
<1>3. sort_pool_rows(rows, active) = sort_rows(rows, columns[a.key], a.dir)
  BY <1>1 DEF sort_pool_rows, Sorted
<1>4. columns[key] = V
  <2>1. CASE key = "waiting"
    <3>1. V = W
      BY <2>1 DEF Column
    <3> HIDE DEF V, W, F, S
    <3> QED BY <2>1, <3>1
  <2>2. CASE key = "fee"
    <3>1. V = F
      BY <2>2 DEF Column
    <3> HIDE DEF V, W, F, S
    <3> QED BY <2>2, <3>1
  <2>3. CASE key = "size"
    <3>1. V = S
      BY <2>3 DEF Column
    <3> HIDE DEF V, W, F, S
    <3> QED BY <2>3, <3>1
  <2> QED BY <2>1, <2>2, <2>3
<1> HIDE DEF a, columns, V
<1> QED BY <1>2, <1>3, <1>4 DEF V

\* A table shows its rows, all of them, in the order of its sort, and rows that
\* are equal in it as they came.
LEMMA TablesOrdered ==
  ASSUME NEW s, s.rows \in Seq([waiting_secs : Nat, fee_atomic : Nat, size : Nat, place : Nat]),
         \A i \in DOMAIN s.rows : s.rows[i].place = i
  PROVE  Ordered(s)
<1> DEFINE active == active_sort(s.sort, s.dir)
           given  == s.rows
           rows   == sort_pool_rows(given, active)
           n      == Len(s.rows)
           Worth(row, key) == IF key = "fee" THEN row.fee_atomic
                              ELSE IF key = "size" THEN row.size ELSE row.waiting_secs
<1>1. n \in Nat /\ DOMAIN given = 1..n /\ given = [i \in 1..n |-> given[i]]
  <2> DEFINE R == [waiting_secs : Nat, fee_atomic : Nat, size : Nat, place : Nat]
  <2>1. given \in Seq(R)
    OBVIOUS
  <2> HIDE DEF R
  <2>2. n \in Nat /\ given \in [1..n -> R]
    BY <2>1
  <2> QED BY <2>2
<1>2. \A i \in 1..n : \A key : Worth(given[i], key) \in Int
  <2> DEFINE R == [waiting_secs : Nat, fee_atomic : Nat, size : Nat, place : Nat]
  <2>1. given \in Seq(R)
    OBVIOUS
  <2> HIDE DEF R
  <2>2. \A i \in 1..n : given[i] \in R
    BY <1>1, <2>1
  <2>3. \A row \in R : row.fee_atomic \in Int /\ row.size \in Int /\ row.waiting_secs \in Int
    BY DEF R
  <2> QED BY <2>2, <2>3
<1>3. CASE active = {}
  <2>1. rows = given
    BY <1>3 DEF sort_pool_rows, Sorted
  <2>2. Ordered(s) <=>
          /\ active = {} => rows = given
          /\ Range(rows) = Range(given) /\ Len(rows) = Len(given)
          /\ \A a \in active, i, j \in DOMAIN rows : i < j =>
               LET l == Worth(rows[i], a.key)
                   m == Worth(rows[j], a.key)
               IN  /\ IF a.dir = "asc" THEN l <= m ELSE l >= m
                   /\ l = m => rows[i].place < rows[j].place
    BY DEF Ordered
  <2> HIDE DEF rows, active, given, Worth
  <2> QED BY <1>3, <2>1, <2>2
<1>4. CASE active # {}
  <2>1. PICK d \in {"asc", "desc"} :
          /\ active = {[key |-> s.sort, dir |-> d]} /\ s.sort \in {"waiting", "fee", "size"}
    BY <1>4, ActiveIs
  <2> DEFINE key == s.sort
             values == [i \in 1..n |-> Worth(given[i], key)]
  <2>2. rows = sort_rows(given, values, d)
    <3>1. Column(given, key) = values
      BY <1>1 DEF Column
    <3>2. key \in {"waiting", "fee", "size"} /\ active = {[key |-> key, dir |-> d]}
      BY <2>1
    <3> HIDE DEF values, active, given, key
    <3>3. rows = sort_rows(given, Column(given, key), d)
      BY <3>2, RowsSortedBy
    <3> HIDE DEF rows
    <3> QED BY <3>1, <3>3
  <2>3. values \in [1..n -> Int] /\ \A i \in 1..n : values[i] = Worth(given[i], key)
    BY <1>2
  <2>4. Ordered(s) <=>
          /\ active = {} => rows = given
          /\ Range(rows) = Range(given) /\ Len(rows) = Len(given)
          /\ \A a \in active, i, j \in DOMAIN rows : i < j =>
               LET l == Worth(rows[i], a.key)
                   m == Worth(rows[j], a.key)
               IN  /\ IF a.dir = "asc" THEN l <= m ELSE l >= m
                   /\ l = m => rows[i].place < rows[j].place
    BY DEF Ordered
  <2>5. \A i \in 1..n : given[i].place = i
    BY <1>1
  <2>6. Len(given) = n
    OBVIOUS
  <2> HIDE DEF rows, values, active, n, given, key, Worth
  <2>7. PICK p : p \in Orders(n, given, values, d)
    <3>1. DOMAIN given = 1..n /\ n \in Nat
      BY <1>1
    <3>2. d \in {"asc", "desc"} /\ values \in [1..n -> Int]
      BY <2>3
    <3>3. Orders(n, given, values, d) # {}
      BY <3>1, <3>2, SortIs
    <3> QED BY <3>3
  <2>8. /\ rows = [k \in 1..n |-> given[p[k]]] /\ DOMAIN rows = 1..n
        /\ \A k \in 1..n : p[k] \in 1..n /\ rows[k] = given[p[k]]
    BY <2>2, <2>7 DEF Orders
  <2>9. Range(rows) = Range(given)
    <3>1. Range(rows) = {rows[k] : k \in 1..n} /\ Range(given) = {given[k] : k \in 1..n}
      BY <1>1, <2>8 DEF Range
    <3>2. ASSUME NEW k \in 1..n PROVE rows[k] \in Range(given)
      BY <2>8, <3>1
    <3>3. ASSUME NEW i \in 1..n PROVE given[i] \in Range(rows)
      <4>1. PICK k \in 1..n : p[k] = i
        BY <2>7 DEF Orders
      <4> QED BY <2>8, <3>1, <4>1
    <3>4. \A r \in Range(rows) : r \in Range(given)
      <4> HIDE DEF rows
      <4> QED BY <3>1, <3>2
    <3>5. \A r \in Range(given) : r \in Range(rows)
      BY <3>1, <3>3
    <3> QED BY <3>4, <3>5
  <2>10. Len(rows) = n
    BY <1>1, <2>8
  <2>11. ASSUME NEW a \in active, NEW i \in DOMAIN rows, NEW j \in DOMAIN rows, i < j
         PROVE  /\ IF a.dir = "asc" THEN Worth(rows[i], a.key) <= Worth(rows[j], a.key)
                   ELSE Worth(rows[i], a.key) >= Worth(rows[j], a.key)
                /\ Worth(rows[i], a.key) = Worth(rows[j], a.key) => rows[i].place < rows[j].place
    <3>1. a.key = key /\ a.dir = d
      BY <2>1 DEF key
    <3>2. i \in 1..n /\ j \in 1..n
      BY <2>8, <2>11
    <3>3. /\ goes_before(values, d, p[i], p[j]) /\ p[i] \in 1..n /\ p[j] \in 1..n
          /\ rows[i] = given[p[i]] /\ rows[j] = given[p[j]]
      BY <2>7, <2>8, <2>11, <3>2 DEF Orders
    <3>4. values[p[i]] = Worth(rows[i], a.key) /\ values[p[j]] = Worth(rows[j], a.key)
      BY <2>3, <3>1, <3>3
    <3>5. rows[i].place = p[i] /\ rows[j].place = p[j]
      BY <2>5, <3>3
    <3>6. values[p[i]] \in Int /\ values[p[j]] \in Int /\ p[i] \in Int /\ p[j] \in Int
      BY <2>3, <3>3
    <3> DEFINE l == Worth(rows[i], a.key)
               m == Worth(rows[j], a.key)
    <3>7. (l = m /\ p[i] < p[j]) \/ (d = "asc" /\ l < m) \/ (d = "desc" /\ l > m)
      BY <3>3, <3>4 DEF goes_before
    <3>8. l \in Int /\ m \in Int
      BY <3>4, <3>6
    <3> HIDE DEF l, m
    <3>9. (IF d = "asc" THEN l <= m ELSE l >= m) /\ (l = m => p[i] < p[j])
      BY <3>6, <3>7, <3>8
    <3> QED BY <3>1, <3>5, <3>9 DEF l, m
  <2>12. n = Len(given)
    BY <2>6
  <2> QED BY <1>4, <2>4, <2>9, <2>10, <2>11, <2>12
<1> QED BY <1>3, <1>4

\* A header leads to the page sorted by it, the other way round from this one.
LEMMA HeadersLink == \A s : Linked(s)
<1> SUFFICES ASSUME NEW s, NEW key \in {"waiting", "fee", "size"}
    PROVE  LET active == active_sort(s.sort, s.dir)
               header == column_sort(key, active)
               then   == active_sort(header.href.sort, header.href.dir)
           IN  /\ \E a \in then : a.key = key
               /\ column_sort(key, then).state = header.href.dir
               /\ then # active
               /\ header.state # "none" <=> \E a \in active : a.key = key
  BY DEF Linked
<1> DEFINE active == active_sort(s.sort, s.dir)
           header == column_sort(key, active)
           then   == active_sort(header.href.sort, header.href.dir)
<1>1. \/ active = {}
      \/ \E d \in {"asc", "desc"} : active = {[key |-> s.sort, dir |-> d]}
  BY ActiveIs
<1> HIDE DEF active
<1>2. /\ header.href.sort = key /\ header.href.dir \in {"asc", "desc"}
      /\ header.state # "none" <=> \E a \in active : a.key = key
      /\ \A a \in active : a.key = key => header.href.dir # a.dir
  <2>1. CASE \E a \in active : a.key = key
    <3>1. PICK d \in {"asc", "desc"} : active = {[key |-> s.sort, dir |-> d]}
      BY <1>1, <2>1
    <3>2. (CHOOSE a \in active : TRUE) = [key |-> s.sort, dir |-> d]
      BY <3>1
    <3>3. header = [href |-> [sort |-> key, dir |-> flipped(d)], state |-> d]
      <4> DEFINE a == CHOOSE a \in active : TRUE
      <4>1. header = [href |-> [sort |-> key, dir |-> flipped(a.dir)], state |-> a.dir]
        BY <2>1 DEF column_sort
      <4>2. a = [key |-> s.sort, dir |-> d]
        BY <3>2
      <4>3. a.dir = d
        <5> HIDE DEF a
        <5> QED BY <4>2
      <4> HIDE DEF a, header
      <4> QED BY <4>1, <4>3
    <3>4. flipped(d) \in {"asc", "desc"} /\ flipped(d) # d
      BY DEF flipped
    <3> HIDE DEF header
    <3> QED BY <2>1, <3>1, <3>3, <3>4
  <2>2. CASE ~\E a \in active : a.key = key
    <3>1. header = [href |-> [sort |-> key, dir |-> "desc"], state |-> "none"]
      BY <2>2 DEF column_sort
    <3> HIDE DEF header
    <3> QED BY <2>2, <3>1
  <2> QED BY <2>1, <2>2
<1> HIDE DEF header
<1>3. then = {[key |-> key, dir |-> header.href.dir]}
  BY <1>2 DEF active_sort
<1> HIDE DEF then
<1> DEFINE b == CHOOSE b \in then : TRUE
<1>4. column_sort(key, then).state = header.href.dir
  <2>1. b = [key |-> key, dir |-> header.href.dir]
    BY <1>3
  <2>2. \E a \in then : a.key = key
    BY <1>3
  <2>3. column_sort(key, then) = [href |-> [sort |-> key, dir |-> flipped(b.dir)], state |-> b.dir]
    BY <2>2 DEF column_sort
  <2>4. b.dir = header.href.dir
    <3> HIDE DEF b
    <3> QED BY <2>1
  <2> HIDE DEF b
  <2> QED BY <2>3, <2>4
<1>5. then # active
  <2> SUFFICES ASSUME then = active PROVE FALSE
    OBVIOUS
  <2> DEFINE e == [key |-> key, dir |-> header.href.dir]
  <2>1. e \in active /\ e.key = key /\ e.dir = header.href.dir
    BY <1>3
  <2> HIDE DEF e
  <2> QED BY <1>2, <2>1
<1>6. \E a \in then : a.key = key
  BY <1>3
<1> QED BY <1>2, <1>4, <1>5, <1>6 DEF active, header, then

\* Whole division, as far as rounding needs it.
LEMMA WholePart ==
  ASSUME NEW x \in Nat, NEW y \in Nat \ {0}
  PROVE  x \div y \in Nat /\ y * (x \div y) <= x /\ x < y * (x \div y) + y
<1>1. x \div y \in Int /\ y * (x \div y) + (x % y) = x /\ x % y \in 0..(y - 1)
  BY Z3
<1>2. x \div y \in Nat
  BY Z3
<1>3. y * (x \div y) \in Int
  BY <1>1
<1> QED BY <1>1, <1>2, <1>3

\* More divides to no less.
LEMMA DivisionGrows ==
  ASSUME NEW x \in Nat, NEW z \in Nat, x <= z, NEW y \in Nat \ {0}
  PROVE  x \div y <= z \div y
<1> DEFINE p == x \div y
           q == z \div y
<1>1. p \in Nat /\ y * p <= x /\ q \in Nat /\ z < y * q + y
  BY WholePart
<1> HIDE DEF p, q
<1>2. SUFFICES ASSUME q + 1 <= p PROVE FALSE
  BY <1>1 DEF p, q
<1>3. y * (q + 1) <= y * p
  BY <1>1, <1>2, Z3
<1>4. y * (q + 1) = y * q + y
  BY <1>1
<1> QED BY <1>1, <1>3, <1>4

\* A share g of s, out of w, rounded to the nearest: all of w for all of s, none
\* of it for none, and more for more.
LEMMA RoundedShare ==
  ASSUME NEW w \in Nat, NEW s \in Nat \ {0}, NEW g \in 0..s
  PROVE  LET q(h) == (2 * w * h + s) \div (2 * s)
         IN  /\ q(g) \in 0..w /\ q(0) = 0 /\ q(s) = w
             /\ \A h \in g..s : q(g) <= q(h)
<1> DEFINE q(h) == (2 * w * h + s) \div (2 * s)
<1>1. 2 * s \in Nat \ {0}
  OBVIOUS
<1>2. \A h \in 0..s : 2 * w * h \in Nat /\ 2 * w * h + s \in Nat
  BY Z3
<1>3. \A h \in 0..s : q(h) \in Nat
  BY <1>1, <1>2, WholePart
<1>4. \A h \in 0..s : \A k \in h..s : q(h) <= q(k)
  <2> SUFFICES ASSUME NEW h \in 0..s, NEW k \in h..s PROVE q(h) <= q(k)
    OBVIOUS
  <2>1. 2 * w * h <= 2 * w * k
    BY Z3
  <2>2. 2 * w * h + s <= 2 * w * k + s
    BY <1>2, <2>1
  <2>3. 2 * w * h + s \in Nat /\ 2 * w * k + s \in Nat
    BY <1>2
  <2> QED BY <1>1, <2>2, <2>3, DivisionGrows
<1>5. q(0) = 0
  <2>1. 2 * w * 0 + s = s
    OBVIOUS
  <2> DEFINE d == s \div (2 * s)
  <2>2. d \in Nat /\ (2 * s) * d <= s
    BY <1>1, WholePart
  <2> HIDE DEF d
  <2>3. d >= 1 => (2 * s) * d >= 2 * s
    BY <2>2, Z3
  <2>4. d = 0
    BY <2>2, <2>3
  <2> QED BY <2>1, <2>4 DEF d
<1>6. q(s) = w
  <2> DEFINE x == 2 * w * s + s
             d == x \div (2 * s)
  <2>1. x \in Nat /\ d \in Nat /\ (2 * s) * d <= x /\ x < (2 * s) * d + 2 * s
    <3>1. x \in Nat
      BY <1>2
    <3> HIDE DEF x
    <3> QED BY <1>1, <3>1, WholePart
  <2>2. x = (2 * s) * w + s
    BY Z3
  <2> HIDE DEF x, d
  <2>3. d >= w + 1 => (2 * s) * d >= (2 * s) * w + 2 * s
    BY <2>1, Z3
  <2>4. d + 1 <= w => (2 * s) * d + 2 * s <= (2 * s) * w
    BY <2>1, Z3
  <2>5. (2 * s) * w \in Int /\ (2 * s) * d \in Int
    BY <2>1
  <2>6. ~(d >= w + 1)
    BY <2>1, <2>2, <2>3, <2>5
  <2>7. ~(d + 1 <= w)
    BY <2>1, <2>2, <2>4, <2>5
  <2>8. d = w
    BY <2>1, <2>6, <2>7
  <2> QED BY <2>8 DEF d, x
<1> HIDE DEF q
<1>7. q(g) \in 0..w /\ \A h \in g..s : q(g) <= q(h)
  BY <1>3, <1>4, <1>6
<1> QED BY <1>5, <1>6, <1>7 DEF q

\* The logarithms grow from 0.
LEMMA LogIs ==
  ASSUME NEW a \in Nat, NEW b \in Nat, a <= b, b < Len(Log)
  PROVE  /\ Log[a + 1] \in Nat /\ Log[b + 1] \in Nat /\ Log[a + 1] <= Log[b + 1]
         /\ a < b => Log[a + 1] < Log[b + 1]
         /\ a = 0 => Log[a + 1] = 0
<1>1. DOMAIN Log = 1..Len(Log) /\ Len(Log) \in Nat /\ Log \in Seq(Nat)
  BY LogAssumption
<1>2. a + 1 \in DOMAIN Log /\ b + 1 \in DOMAIN Log
  BY <1>1
<1>3. Log[a + 1] \in Nat /\ Log[b + 1] \in Nat
  BY <1>1, <1>2
<1>4. a < b => Log[a + 1] < Log[b + 1]
  BY <1>2, LogAssumption
<1>5. a = 0 => Log[a + 1] = 0
  BY LogAssumption
<1> QED BY <1>3, <1>4, <1>5

\* Where an age is drawn: on the strip, its ends for the oldest and the newest,
\* and never right of a younger one.
LEMMA StripIs ==
  ASSUME NEW oldest \in Nat, oldest < Len(Log), NEW old \in 0..oldest
  PROVE  /\ strip_x(old, oldest) \in 0..StripWidth
         /\ old = oldest /\ oldest > 0 => strip_x(old, oldest) = 0
         /\ old = 0 => strip_x(old, oldest) = StripWidth
         /\ \A b \in old..oldest : strip_x(b, oldest) <= strip_x(old, oldest)
<1> DEFINE span == Log[oldest + 1]
           left(a) == span - Log[a + 1]
           q(h) == (2 * StripWidth * h + span) \div (2 * span)
<1>1. /\ span \in Nat /\ (oldest > 0 => span > 0)
      /\ \A a \in 0..oldest : left(a) \in 0..span /\ (a = 0 => left(a) = span)
      /\ left(oldest) = 0
  <2>1. Log[1] = 0 /\ span \in Nat /\ (oldest > 0 => span > 0)
    BY LogIs, LogAssumption
  <2>2. \A a \in 0..oldest : Log[a + 1] \in 0..span /\ (a = 0 => Log[a + 1] = 0)
    BY LogIs, <2>1
  <2> HIDE DEF span
  <2>3. \A a \in 0..oldest : left(a) \in 0..span /\ (a = 0 => left(a) = span)
    BY <2>1, <2>2
  <2>4. left(oldest) = 0
    BY <2>1 DEF span
  <2> QED BY <2>1, <2>3, <2>4
<1>2. \A a \in old..oldest : left(a) <= left(old)
  <2> SUFFICES ASSUME NEW a \in old..oldest PROVE left(a) <= left(old)
    OBVIOUS
  <2>1. Log[old + 1] <= Log[a + 1] /\ Log[old + 1] \in Nat /\ Log[a + 1] \in Nat
    <3>1. old \in Nat /\ a \in Nat /\ old <= a /\ a < Len(Log)
      <4>1. Len(Log) \in Nat
        BY LogAssumption
      <4> QED BY <4>1
    <3> QED BY <3>1, LogIs
  <2> HIDE DEF span
  <2> QED BY <1>1, <2>1
<1>3. \A a \in 0..oldest : strip_x(a, oldest) = IF span = 0 THEN StripWidth ELSE q(left(a))
  <2> SUFFICES ASSUME NEW a \in 0..oldest
               PROVE  strip_x(a, oldest) = IF span = 0 THEN StripWidth ELSE q(left(a))
    OBVIOUS
  <2>1. Log[a + 1] \in Nat /\ Log[a + 1] <= span /\ span \in Nat
    BY LogIs
  <2>2. (IF Log[a + 1] < span THEN span - Log[a + 1] ELSE 0) = left(a)
    <3> HIDE DEF span
    <3> QED BY <2>1
  <2>3. strip_x(a, oldest) =
          IF span = 0 THEN StripWidth
          ELSE (2 * StripWidth * (IF Log[a + 1] < span THEN span - Log[a + 1] ELSE 0) + span) \div (2 * span)
    BY DEF strip_x
  <2> QED BY <2>2, <2>3
<1> HIDE DEF left, span
<1>4. CASE span = 0
  BY <1>1, <1>3, <1>4, StripAssumption
<1>5. CASE span # 0
  <2>1. StripWidth \in Nat /\ span \in Nat \ {0}
    BY <1>1, <1>5, StripAssumption
  <2>2. \A g \in 0..span : q(g) \in 0..StripWidth /\ q(0) = 0 /\ q(span) = StripWidth
                           /\ \A h \in g..span : q(g) <= q(h)
    BY <2>1, RoundedShare
  <2> HIDE DEF q
  <2>3. \A b \in old..oldest : q(left(b)) <= q(left(old))
    BY <1>1, <1>2, <2>1, <2>2
  <2>4. \A a \in old..oldest : strip_x(a, oldest) = q(left(a))
    BY <1>3, <1>5
  <2>5. strip_x(old, oldest) = q(left(old)) /\ left(old) \in 0..span
    BY <1>1, <1>3, <1>5
  <2>6. q(left(old)) \in 0..StripWidth /\ q(0) = 0 /\ q(span) = StripWidth
    BY <2>2, <2>5
  <2> QED BY <1>1, <2>3, <2>4, <2>5, <2>6
<1> QED BY <1>4, <1>5

\* The left edge of a mark: inside the strip, in the order of the marks' middles.
LEMMA CentredIs ==
  ASSUME NEW x \in 0..StripWidth, NEW y \in 0..x
  PROVE  /\ centred(x, HaloWidth) \in 0..(StripWidth - HaloWidth)
         /\ centred(y, HaloWidth) <= centred(x, HaloWidth)
         /\ x = 0 => centred(x, HaloWidth) = 0
         /\ x = StripWidth => centred(x, HaloWidth) = StripWidth - HaloWidth
<1> DEFINE half == HaloWidth \div 2
<1>1. HaloWidth \in Nat /\ StripWidth \in Nat /\ HaloWidth < StripWidth /\ half \in 0..HaloWidth
  BY StripAssumption
<1>2. \A z : centred(z, HaloWidth) =
        LET edge == IF z > half THEN z - half ELSE 0
        IN  IF edge < StripWidth - HaloWidth THEN edge ELSE StripWidth - HaloWidth
  BY DEF centred
<1> HIDE DEF half
<1> QED BY <1>1, <1>2

\* The age written under a mark is the age, cut to its unit.
LEMMA LabelIs ==
  ASSUME NEW blocks \in Nat
  PROVE  LET l == age_label(blocks)
         IN  l.count * l.unit <= 2 * blocks /\ 2 * blocks < (l.count + 1) * l.unit
<1> DEFINE m == 2 * blocks
           Label(unit) == [unit |-> unit, count |-> m \div unit]
<1>1. m \in Nat
  OBVIOUS
<1>2. \E unit \in {1, 60, 1440, 43200} : age_label(blocks) = Label(unit)
  <2> DEFINE hours == m \in 60..1439
             days == m \in 1440..43199
  <2>1. age_label(blocks) =
          CASE m < 60 -> [unit |-> 1, count |-> m]
            [] hours -> [unit |-> 60, count |-> m \div 60]
            [] days -> [unit |-> 1440, count |-> m \div 1440]
            [] OTHER -> [unit |-> 43200, count |-> m \div 43200]
    BY DEF age_label
  <2>2. /\ hours <=> m >= 60 /\ m <= 1439
        /\ days <=> m >= 1440 /\ m <= 43199
    BY <1>1
  <2> HIDE DEF m, hours, days
  <2>3. CASE m < 60
    <3>1. m \div 1 = m /\ ~hours /\ ~days
      BY <1>1, <2>2, <2>3
    <3>2. age_label(blocks) = Label(1)
      BY <2>1, <2>3, <3>1
    <3> QED BY <3>2
  <2>4. CASE hours
    <3>1. ~(m < 60) /\ ~days
      BY <1>1, <2>2, <2>4
    <3>2. age_label(blocks) = Label(60)
      BY <2>1, <2>4, <3>1
    <3> QED BY <3>2
  <2>5. CASE days
    <3>1. ~(m < 60) /\ ~hours
      BY <1>1, <2>2, <2>5
    <3>2. age_label(blocks) = Label(1440)
      BY <2>1, <2>5, <3>1
    <3> QED BY <3>2
  <2>6. CASE ~(m < 60) /\ ~hours /\ ~days
    <3>1. age_label(blocks) = Label(43200)
      BY <2>1, <2>6
    <3> QED BY <3>1
  <2> QED BY <2>3, <2>4, <2>5, <2>6
<1>3. PICK unit \in {1, 60, 1440, 43200} : age_label(blocks) = Label(unit)
  BY <1>2
<1>4. age_label(blocks).unit = unit /\ age_label(blocks).count = m \div unit
  BY <1>3
<1> HIDE DEF m
<1>5. (m \div unit) * unit <= m /\ m < ((m \div unit) + 1) * unit
  BY <1>1
<1> QED BY <1>4, <1>5 DEF m

\* The axis reaches as far back as the oldest member, and no further.
LEMMA AxisIs ==
  ASSUME NEW spent_at \in Nat, NEW heights, heights \subseteq Nat
  PROVE  LET oldest == axis_span(heights, spent_at)
         IN  /\ \A h \in heights : Since(h, spent_at) \in 0..oldest
             /\ oldest = 0 \/ \E h \in heights : oldest = Since(h, spent_at)
             /\ oldest \in Nat
<1> DEFINE ages == {Since(h, spent_at) : h \in heights} \cup {0}
           below == {spent_at - a : a \in ages}
<1>1. \A a \in ages : a \in 0..spent_at
  BY DEF Since
<1>2. below \subseteq Nat /\ below # {}
  <2>1. 0 \in ages
    OBVIOUS
  <2> HIDE DEF ages
  <2> QED BY <1>1, <2>1
<1>3. PICK m \in below : \A n \in below : m <= n
  BY <1>2, NatMin
<1>4. PICK a \in ages : m = spent_at - a
  BY <1>3
<1> HIDE DEF ages
<1>5. \A b \in ages : b <= a
  BY <1>1, <1>3, <1>4
<1> DEFINE oldest == axis_span(heights, spent_at)
<1>6. oldest = CHOOSE o \in ages : \A b \in ages : b <= o
  BY DEF axis_span, ages
<1> HIDE DEF below, oldest
<1>7. oldest \in ages /\ \A b \in ages : b <= oldest
  BY <1>4, <1>5, <1>6
<1>8. \A h \in heights : Since(h, spent_at) \in ages
  BY DEF ages
<1>9. \A h \in heights : Since(h, spent_at) \in 0..oldest
  BY <1>1, <1>7, <1>8
<1>10. oldest \in Nat
  BY <1>1, <1>7
<1>11. oldest = 0 \/ \E h \in heights : oldest = Since(h, spent_at)
  BY <1>7 DEF ages
<1> QED BY <1>9, <1>10, <1>11 DEF oldest

\* A strip drawn is drawn to scale.
LEMMA StripsDrawn ==
  ASSUME NEW s, s.heights \in Seq(Nat), s.spent_at \in Nat,
         \A i \in DOMAIN s.heights : Since(s.heights[i], s.spent_at) < Len(Log)
  PROVE  Drawn(s)
<1> DEFINE heights == s.heights
           spent_at == s.spent_at
           oldest == axis_span(Range(heights), spent_at)
           strip == age_strip(heights, spent_at, oldest)
           Age(i) == Since(heights[i], spent_at)
           Place(i) == strip_x(Age(i), oldest)
<1>1. \A i \in DOMAIN heights : heights[i] \in Nat /\ heights[i] \in Range(heights)
  BY DEF Range
<1>2. Range(heights) \subseteq Nat /\ \A h \in Range(heights) : \E i \in DOMAIN heights : h = heights[i]
  BY <1>1 DEF Range
<1>3. /\ \A i \in DOMAIN heights : Age(i) \in 0..oldest
      /\ oldest \in Nat
      /\ oldest = 0 \/ \E i \in DOMAIN heights : oldest = Age(i)
  <2> HIDE DEF heights, spent_at
  <2>1. spent_at \in Nat
    BY DEF spent_at
  <2>2. /\ \A h \in Range(heights) : Since(h, spent_at) \in 0..oldest
        /\ oldest = 0 \/ \E h \in Range(heights) : oldest = Since(h, spent_at)
        /\ oldest \in Nat
    BY <1>2, <2>1, AxisIs
  <2> HIDE DEF oldest
  <2> QED BY <1>1, <1>2, <2>2
<1>4. oldest < Len(Log)
  <2>1. \A i \in DOMAIN heights : Age(i) < Len(Log)
    OBVIOUS
  <2>2. Len(Log) \in Nat \ {0}
    BY LogAssumption
  <2> HIDE DEF Age, oldest, heights
  <2> QED BY <1>3, <2>1, <2>2
<1>5. /\ \A i \in DOMAIN heights : strip.marks[i] = centred(Place(i), HaloWidth)
      /\ DOMAIN strip.ticks = {old \in AgeTicks : old <= oldest}
      /\ \A old \in DOMAIN strip.ticks : strip.ticks[old] = strip_x(old, oldest)
  <2> DEFINE marks == [i \in DOMAIN heights |-> centred(strip_x(Since(heights[i], spent_at), oldest), HaloWidth)]
             ticks == [old \in {old \in AgeTicks : old <= oldest} |-> strip_x(old, oldest)]
  <2>1. strip = [marks |-> marks, ticks |-> ticks]
    BY DEF age_strip
  <2>2. strip.marks = marks /\ strip.ticks = ticks
    <3> HIDE DEF marks, ticks, strip
    <3> QED BY <2>1
  <2> HIDE DEF strip, oldest, heights, spent_at
  <2> QED BY <2>2
<1>6. Drawn(s) <=>
        /\ \A i \in DOMAIN heights :
             /\ Age(i) <= oldest
             /\ strip.marks[i] >= 0 /\ strip.marks[i] + HaloWidth <= StripWidth
             /\ Age(i) = oldest /\ oldest > 0 => strip.marks[i] = 0
             /\ Age(i) = 0 => strip.marks[i] = StripWidth - HaloWidth
        /\ \A i, j \in DOMAIN heights : Age(i) <= Age(j) => strip.marks[i] >= strip.marks[j]
        /\ \A old \in DOMAIN strip.ticks : strip.ticks[old] \in 0..StripWidth
        /\ \A i \in DOMAIN heights :
             LET l == age_label(Age(i)) IN l.count * l.unit <= 2 * Age(i) /\ 2 * Age(i) < (l.count + 1) * l.unit
  BY DEF Drawn
<1> HIDE DEF heights, spent_at, oldest, strip, Age
<1>7. HaloWidth \in Nat /\ StripWidth \in Nat
  BY StripAssumption
<1>8. \A a \in 0..oldest :
        /\ strip_x(a, oldest) \in 0..StripWidth
        /\ a = oldest /\ oldest > 0 => strip_x(a, oldest) = 0
        /\ a = 0 => strip_x(a, oldest) = StripWidth
        /\ \A b \in a..oldest : strip_x(b, oldest) <= strip_x(a, oldest)
  BY <1>3, <1>4, StripIs
<1>9. \A x \in 0..StripWidth : \A y \in 0..x :
        /\ centred(x, HaloWidth) \in 0..(StripWidth - HaloWidth)
        /\ centred(y, HaloWidth) <= centred(x, HaloWidth)
        /\ x = 0 => centred(x, HaloWidth) = 0
        /\ x = StripWidth => centred(x, HaloWidth) = StripWidth - HaloWidth
  BY CentredIs
<1>10. ASSUME NEW i \in DOMAIN heights
       PROVE  /\ Age(i) <= oldest
              /\ strip.marks[i] >= 0 /\ strip.marks[i] + HaloWidth <= StripWidth
              /\ Age(i) = oldest /\ oldest > 0 => strip.marks[i] = 0
              /\ Age(i) = 0 => strip.marks[i] = StripWidth - HaloWidth
  <2>1. Age(i) \in 0..oldest /\ strip.marks[i] = centred(Place(i), HaloWidth)
    BY <1>3, <1>5
  <2>2. /\ Place(i) \in 0..StripWidth
        /\ Age(i) = oldest /\ oldest > 0 => Place(i) = 0
        /\ Age(i) = 0 => Place(i) = StripWidth
    BY <1>8, <2>1
  <2> HIDE DEF Place
  <2>3. Place(i) \in 0..Place(i)
    BY <1>7, <2>2
  <2>4. /\ centred(Place(i), HaloWidth) \in 0..(StripWidth - HaloWidth)
        /\ Place(i) = 0 => centred(Place(i), HaloWidth) = 0
        /\ Place(i) = StripWidth => centred(Place(i), HaloWidth) = StripWidth - HaloWidth
    BY <1>9, <2>2, <2>3
  <2> QED BY <1>3, <1>7, <2>1, <2>2, <2>4
<1>11. ASSUME NEW i \in DOMAIN heights, NEW j \in DOMAIN heights, Age(i) <= Age(j)
       PROVE  strip.marks[i] >= strip.marks[j]
  <2>1. /\ Age(i) \in 0..oldest /\ strip.marks[i] = centred(Place(i), HaloWidth)
        /\ Age(j) \in 0..oldest /\ strip.marks[j] = centred(Place(j), HaloWidth)
    BY <1>3, <1>5
  <2>2. Age(j) \in Age(i)..oldest
    BY <1>3, <1>11, <2>1
  <2>3. Place(i) \in 0..StripWidth /\ Place(j) \in 0..StripWidth /\ Place(j) <= Place(i)
    BY <1>8, <2>1, <2>2
  <2> HIDE DEF Place
  <2>4. Place(j) \in 0..Place(i) /\ Place(j) \in 0..Place(j)
    BY <1>7, <2>3
  <2>5. /\ centred(Place(j), HaloWidth) <= centred(Place(i), HaloWidth)
        /\ centred(Place(i), HaloWidth) \in 0..(StripWidth - HaloWidth)
        /\ centred(Place(j), HaloWidth) \in 0..(StripWidth - HaloWidth)
    BY <1>9, <2>3, <2>4
  <2> QED BY <1>7, <2>1, <2>5
<1>12. \A old \in DOMAIN strip.ticks : strip.ticks[old] \in 0..StripWidth
  <2> SUFFICES ASSUME NEW old \in DOMAIN strip.ticks PROVE strip.ticks[old] \in 0..StripWidth
    OBVIOUS
  <2>1. old \in AgeTicks /\ old <= oldest /\ strip.ticks[old] = strip_x(old, oldest)
    BY <1>5
  <2>2. old \in 0..oldest
    BY <1>3, <2>1, TicksAssumption
  <2> QED BY <1>8, <2>1, <2>2
<1>13. \A i \in DOMAIN heights :
         LET l == age_label(Age(i)) IN l.count * l.unit <= 2 * Age(i) /\ 2 * Age(i) < (l.count + 1) * l.unit
  <2>1. \A i \in DOMAIN heights : Age(i) \in Nat
    BY <1>3
  <2> QED BY <2>1, LabelIs
<1> QED BY <1>6, <1>10, <1>11, <1>12, <1>13

-----------------------------------------------------------------------------
\* As the daemon writes them: no struct counts on a field it may leave out.
LEMMA RepliesComplete == \A struct \in Structs : \A lack \in Lacking(struct) : Decodes(struct, lack)
<1>1. \A struct \in Structs : "in_pool" \in struct.required => struct = TxEntry
  BY DEF Structs, Struct, GetInfo, BlockHeader, GetBlockHeader, GetBlockHeadersRange, GetBlockCount, GetBlock,
  FeeEstimate, ChainInfo, GetAlternateChains, GetTxidsLooseResponse, GetHeight,
  GetTransactionsResponse, TxEntry, GetTransactionPool, PoolTxInfo, SpentKeyImageInfo,
  GetTransactionPoolStats, PoolStats, GetOutsResponse, OutKey, IsKeyImageSpentResponse
<1>2. \A struct \in Structs : struct.required \cap (Arrays \cup Optional \cup Retired) = {}
  BY DEF Structs, Struct, GetInfo, BlockHeader, GetBlockHeader, GetBlockHeadersRange, GetBlockCount, GetBlock,
  FeeEstimate, ChainInfo, GetAlternateChains, GetTxidsLooseResponse, GetHeight,
  GetTransactionsResponse, TxEntry, GetTransactionPool, PoolTxInfo, SpentKeyImageInfo,
  GetTransactionPoolStats, PoolStats, GetOutsResponse, OutKey, IsKeyImageSpentResponse, Arrays, Optional, Retired
<1>3. TxEntry.required \cap (MinedOnly \cup PoolOnly) = {}
  BY DEF TxEntry, Struct, MinedOnly, PoolOnly
<1>4. \A f : Default(f) = Vanished(f)
  BY DEF Default, Vanished, default_quantization_mask
<1>5. ASSUME NEW struct \in Structs, NEW lack \in Lacking(struct)
      PROVE  struct.required \cap lack = {}
  <2> DEFINE bare == Fields(struct) \cap (Arrays \cup Optional \cup Retired)
  <2>1. \/ lack \in SUBSET bare
        \/ /\ "in_pool" \in struct.required
           /\ \E l \in SUBSET bare, some \in {MinedOnly, PoolOnly} : lack = l \cup some
    BY <1>5 DEF Lacking
  <2>2. struct.required \cap bare = {}
    BY <1>2
  <2> HIDE DEF bare
  <2> QED BY <1>1, <1>3, <2>1, <2>2
<1> QED BY <1>4, <1>5 DEF Decodes

\* A sample is converted, never changed.
LEMMA SampleKept == DecodingSpec => [](sample = NoSample \/ sample \in Samples)
<1>1. Start => sample = NoSample \/ sample \in Samples
  BY DEF Start
<1>2. (sample = NoSample \/ sample \in Samples) /\ [ParseNext /\ UNCHANGED sample]_<<parse_vars, sample>>
        => (sample = NoSample \/ sample \in Samples)'
  OBVIOUS
<1> QED BY <1>1, <1>2, PTL DEF DecodingSpec

\* Whatever the transaction, its era, scheme and the form it was sent in, the
\* facts the explorer derives from it are those it was made of (TxFacts, TxJson).
THEOREM FactsTrue == DecodingSpec => []FactsAreTrue
<1>1. (sample = NoSample \/ sample \in Samples) => FactsAreTrue
  <2> SUFFICES ASSUME sample = NoSample \/ sample \in Samples, sample.kind = "tx"
               PROVE  Factual(sample)
    BY DEF FactsAreTrue, Sampled
  <2>1. sample \in Samples
    BY DEF NoSample
  <2>2. IsTransaction(sample.tx) /\ sample.split \in BOOLEAN
    BY <2>1, SamplesAssumption
  <2> QED BY <2>2, Facts
<1> QED BY <1>1, SampleKept, PTL

\* Whatever the transaction, it is called pruned exactly when this node has
\* dropped its prunable part (prunable_missing, looks_pruned).
THEOREM PruningSeen == DecodingSpec => []PruningIsSeen
<1>1. (sample = NoSample \/ sample \in Samples) => PruningIsSeen
  <2> SUFFICES ASSUME sample = NoSample \/ sample \in Samples, sample.kind = "tx"
               PROVE  LET tx == JsonOf(sample.tx, sample.split)
                      IN  /\ prunable_missing(EntryOf(sample.tx, sample.split), tx)
                               <=> Prunable(sample.tx) /\ sample.tx.lost
                          /\ looks_pruned(tx) <=> Prunable(sample.tx) /\ sample.tx.lost
    BY DEF PruningIsSeen, Sampled
  <2>1. sample \in Samples
    BY DEF NoSample
  <2>2. IsTransaction(sample.tx) /\ sample.split \in BOOLEAN
    BY <2>1, SamplesAssumption
  <2> QED BY <2>2, PrunedSeen
<1> QED BY <1>1, SampleKept, PTL

\* Whatever a reply lacks of what the daemon may leave out, it decodes to what
\* the daemon meant (types.rs).
THEOREM RepliesDecoded == DecodingSpec => []RepliesDecode
<1>1. (sample = NoSample \/ sample \in Samples) => RepliesDecode
  <2> SUFFICES ASSUME sample = NoSample \/ sample \in Samples, sample.kind = "reply"
               PROVE  \A lack \in Lacking(sample.struct) : Decodes(sample.struct, lack)
    BY DEF RepliesDecode, Sampled
  <2>1. sample \in Samples
    BY DEF NoSample
  <2>2. sample.struct \in Structs
    BY <2>1, SamplesAssumption
  <2> QED BY <2>2, RepliesComplete
<1> QED BY <1>1, SampleKept, PTL

\* Whatever the rows and the sort asked for, a table loses none and orders them
\* as it says; whatever the ages, a strip is to scale (html.rs).
THEOREM ListingsTrue == DecodingSpec => []ListingsHold
<1>1. (sample = NoSample \/ sample \in Samples) => ListingsHold
  <2> SUFFICES ASSUME sample = NoSample \/ sample \in Samples PROVE ListingsHold
    OBVIOUS
  <2>1. CASE sample = NoSample
    BY <2>1 DEF NoSample, ListingsHold, Sampled
  <2>2. CASE sample \in Samples
    <3>1. sample.kind = "table" => Ordered(sample) /\ Linked(sample)
      BY <2>2, SamplesAssumption, TablesOrdered, HeadersLink
    <3>2. sample.kind = "strip" => Drawn(sample)
      BY <2>2, SamplesAssumption, StripsDrawn
    <3> QED BY <3>1, <3>2 DEF ListingsHold, Sampled
  <2> QED BY <2>1, <2>2
<1> QED BY <1>1, SampleKept, PTL
=============================================================================
