------------------------------ MODULE RpcGate -------------------------------
(***************************************************************************)
(* What stands between a client and the daemon (main.rs, rpc_source.rs):   *)
(* the concurrency limit in front of each route, the request deadline, and *)
(* the semaphore of RPC permits every call must hold.                      *)
(*                                                                         *)
(* A handler is a list of stages; a stage is a number of calls made at once*)
(* and awaited together (join_all), and the next begins when all are back. *)
(* An error or a cache hit may end the handler between any two stages.  A  *)
(* deadline, a panic or a client that leaves drops the handler anywhere,   *)
(* and with it its place in the queue and the permits it holds.            *)
(*                                                                         *)
(* Both limits are tokio semaphores, which serve waiters in order.         *)
(***************************************************************************)
EXTENDS Integers, Sequences, FiniteSets, Sift

CONSTANTS
  Requests,       \* request slots; a slot is reused when its request ends
  Routes,
  RouteOf,        \* the route each slot asks for
  MaxStage,       \* most calls a handler makes at once
  Plans,          \* the handlers: sequences of stage sizes
  MaxConcurrent,  \* --max-concurrent
  Given           \* values --max-inflight-rpc may be given

ASSUME RouteAssumption == RouteOf \in [Requests -> Routes]
ASSUME PlanAssumption == MaxStage \in Nat /\ Plans # {} /\ Plans \subseteq Seq(1..MaxStage)
ASSUME ConcurrentAssumption == MaxConcurrent \in Nat \ {0}
ASSUME InflightAssumption == Given \subseteq Nat

VARIABLES
  serving,   \* FALSE once a shutdown signal has been received
  phase,     \* request -> "idle", "queued", "running"
  lobby,     \* route -> the requests queued for it, in order
  stages,    \* request -> the stages its handler has still to start
  waiting,   \* calls queued for a permit, in order
  inflight,  \* calls that hold a permit
  permits,   \* permits free
  ceiling    \* permits the semaphore was made with

vars == <<serving, phase, lobby, stages, waiting, inflight, permits, ceiling>>

\* The n-th call of a stage of request r.
Call == Requests \X (1..MaxStage)

\* Fault: the gate takes the number as given.
as_given(n) == n

\* `permits.max(1)`: a gate of zero would admit nothing.
max_inflight(n) == IF n > 1 THEN n ELSE 1

Init ==
  /\ serving = TRUE
  /\ phase = [r \in Requests |-> "idle"]
  /\ lobby = [p \in Routes |-> <<>>]
  /\ stages = [r \in Requests |-> <<>>]
  /\ waiting = <<>>
  /\ inflight = {}
  /\ \E n \in Given : ceiling = max_inflight(n)
  /\ permits = ceiling

Running(p) == {r \in Requests : phase[r] = "running" /\ RouteOf[r] = p}

CallsOf(r) == {c \in inflight : c[1] = r}

Queued(r) == \E i \in DOMAIN waiting : waiting[i][1] = r

-----------------------------------------------------------------------------
Arrive(r) ==
  /\ serving
  /\ phase[r] = "idle"
  /\ phase' = [phase EXCEPT ![r] = "queued"]
  /\ lobby' = [lobby EXCEPT ![RouteOf[r]] = Append(@, r)]
  /\ UNCHANGED <<serving, stages, waiting, inflight, permits, ceiling>>

HasRoom(p) == Cardinality(Running(p)) < MaxConcurrent

\* The route's own limit lets its first request in; the deadline starts now.
Admit(p) ==
  /\ lobby[p] # <<>>
  /\ HasRoom(p)
  /\ phase' = [phase EXCEPT ![Head(lobby[p])] = "running"]
  /\ lobby' = [lobby EXCEPT ![p] = Tail(@)]
  /\ \E plan \in Plans : stages' = [stages EXCEPT ![Head(lobby[p])] = plan]
  /\ UNCHANGED <<serving, waiting, inflight, permits, ceiling>>

\* Every call of the last stage is back.
Awaited(r) == phase[r] = "running" /\ CallsOf(r) = {} /\ ~Queued(r)

StartStage(r) ==
  /\ Awaited(r)
  /\ stages[r] # <<>>
  /\ waiting' = waiting \o [i \in 1..Head(stages[r]) |-> <<r, i>>]
  /\ stages' = [stages EXCEPT ![r] = Tail(@)]
  /\ UNCHANGED <<serving, phase, lobby, inflight, permits, ceiling>>

Grant ==
  /\ waiting # <<>>
  /\ permits > 0
  /\ waiting' = Tail(waiting)
  /\ inflight' = inflight \cup {Head(waiting)}
  /\ permits' = permits - 1
  /\ UNCHANGED <<serving, phase, lobby, stages, ceiling>>

\* The daemon answers, the call fails, or the RPC deadline ends it.
CallEnds(c) ==
  /\ c \in inflight
  /\ inflight' = inflight \ {c}
  /\ permits' = permits + 1
  /\ UNCHANGED <<serving, phase, lobby, stages, waiting, ceiling>>

Answer(r) ==
  /\ Awaited(r)
  /\ phase' = [phase EXCEPT ![r] = "idle"]
  /\ stages' = [stages EXCEPT ![r] = <<>>]
  /\ UNCHANGED <<serving, lobby, waiting, inflight, permits, ceiling>>

\* Fault: the permits of a dropped handler are never returned.
ReleaseNone(r) == inflight' = inflight \ CallsOf(r) /\ UNCHANGED permits

\* Fault: the dropped handler's calls keep their permits until they end.
ReleaseLater(r) == UNCHANGED <<inflight, permits>>

\* Dropping a handler drops its OwnedSemaphorePermits.
Release(r) ==
  /\ inflight' = inflight \ CallsOf(r)
  /\ permits' = permits + Cardinality(CallsOf(r))

\* The request deadline passes (504), the handler panics (500), or the client
\* goes away: the handler's future is dropped where it stands.
Drop(r) ==
  /\ phase[r] = "running"
  /\ phase' = [phase EXCEPT ![r] = "idle"]
  /\ stages' = [stages EXCEPT ![r] = <<>>]
  /\ waiting' = Within(waiting, {c \in Call : c[1] # r})
  /\ Release(r)
  /\ UNCHANGED <<serving, lobby, ceiling>>

\* A client leaves while its request is queued for the route.
LeaveQueue(r) ==
  /\ phase[r] = "queued"
  /\ phase' = [phase EXCEPT ![r] = "idle"]
  /\ lobby' = [lobby EXCEPT ![RouteOf[r]] = SelectSeq(@, LAMBDA q : q # r)]
  /\ UNCHANGED <<serving, stages, waiting, inflight, permits, ceiling>>

\* SIGTERM or ctrl-c: no new request, but those in hand go on.
Shutdown ==
  /\ serving
  /\ serving' = FALSE
  /\ UNCHANGED <<phase, lobby, stages, waiting, inflight, permits, ceiling>>

\* Once drained, the process ends and nothing more happens.
Stopped ==
  /\ ~serving /\ \A r \in Requests : phase[r] = "idle"
  /\ UNCHANGED vars

Next ==
  \/ \E r \in Requests : Arrive(r) \/ StartStage(r) \/ Answer(r) \/ Drop(r) \/ LeaveQueue(r)
  \/ \E p \in Routes : Admit(p)
  \/ Grant
  \/ \E c \in inflight : CallEnds(c)
  \/ Shutdown
  \/ Stopped

\* The runtime polls what is ready, a semaphore hands a free permit to its
\* first waiter, and the RPC deadline ends every call.  Nothing is assumed of
\* the request deadline or of the daemon.
Fairness ==
  /\ \A r \in Requests : WF_vars(StartStage(r) \/ Answer(r))
  /\ \A p \in Routes : WF_vars(Admit(p))
  /\ WF_vars(Grant)
  /\ \A c \in Call : WF_vars(CallEnds(c))

Spec == Init /\ [][Next]_vars /\ Fairness

-----------------------------------------------------------------------------

\* No permit is lost or minted: those free and those held by calls are always
\* the configured number, through answers, deadlines, panics and disconnects
\* (RpcChainSource::permit, held for the duration of rpc and bare).
PermitsConserved == permits + Cardinality(inflight) = ceiling

\* A call is queued or in flight only for a request that is being handled: a
\* request that has outlived its deadline keeps no RPC call alive (config.rs).
NoOrphanCalls ==
  /\ \A c \in inflight : phase[c[1]] = "running"
  /\ \A i \in DOMAIN waiting : phase[waiting[i][1]] = "running"

\* Every request that arrives is let in and ends, although only the RPC
\* deadline is assumed to fire: nobody waits on a permit forever.
EveryRequestEnds == \A r \in Requests : phase[r] = "queued" ~> phase[r] = "idle"

\* After a shutdown signal the requests in hand finish and the process stops.
ShutdownDrains == ~serving ~> \A r \in Requests : phase[r] = "idle"
=============================================================================
