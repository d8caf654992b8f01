------------------------------ MODULE RpcClient ------------------------------
(***************************************************************************)
(* One call to the daemon (client.rs): a request is sent, the head of the  *)
(* response comes back, its body arrives frame by frame, and what it says  *)
(* is sorted into a result or an RpcError.  One deadline covers all of it, *)
(* and the body is never allowed to outgrow a ceiling.                     *)
(*                                                                         *)
(* The daemon's side is chosen step by step: it may refuse the connection, *)
(* break off, stall at any point, announce one length and send another,    *)
(* and answer anything.  At the deadline an answer that is there already   *)
(* may still win (timeout_at polls the exchange before the clock).         *)
(***************************************************************************)
EXTENDS ChainError

CONSTANTS
  Calls,       \* methods and endpoints called
  JsonRpc,     \* those of them sent to /json_rpc; the others are bare
  Timeout,     \* the client's deadline, in ticks
  MaxBytes,    \* max_response_bytes
  Lengths,     \* bound: the lengths responses declare
  Frames,      \* bound: the sizes of frames
  Undeclared   \* a response without a length (chunked)

ASSUME CallAssumption == JsonRpc \subseteq Calls
ASSUME TimeoutAssumption == Timeout \in Nat \ {0}
ASSUME SizeAssumption ==
  MaxBytes \in Nat /\ Lengths \subseteq Nat /\ Frames \subseteq Nat \ {0}
ASSUME UndeclaredAssumption == Undeclared \notin Nat

VARIABLES
  now,       \* ticks since the call began
  deadline,
  at,        \* "idle", "sent", "reading" or "done"
  call,
  head,      \* the response's HTTP status and declared length
  buf,       \* bytes of the body held
  answer,    \* what the whole body says
  out        \* the result: Ok, or the RpcError

clientVars == <<now, deadline, at, call, head, buf, answer, out>>

NoHead == [status |-> 0, declared |-> Undeclared]
NoAnswer == [json |-> FALSE]
Nothing == [kind |-> "none", detail |-> "none"]
Ok == [kind |-> "Ok", detail |-> "Ok"]

Statuses == {"absent", "OK", "BUSY", "Failed"}
Heads == [status : {200, 404, 500}, declared : Lengths \cup {Undeclared}]

\* A body: not JSON, or an object with an `error` member or without, a
\* `result` or none, a `status` of its own and one in its result, and members
\* that do or do not fit the type asked for.
Answers ==
  {NoAnswer} \cup
  [json : {TRUE}, error : (Codes \ {NO_CODE}) \cup {"absent"}, result : BOOLEAN,
   status : Statuses, inner : Statuses, fits : BOOLEAN]

-----------------------------------------------------------------------------
\* check_status: a status that is there must be OK.
check_status(status) == status \in {"absent", "OK"}

Decoded(body) == IF body.fits THEN Ok ELSE RpcErr("Decode", "type")

\* Fault: a result's own status is not looked at.
json_rpc_unchecked(body) ==
  CASE body.error # "absent" -> RpcErr("JsonRpc", body.error)
    [] body.error = "absent" /\ ~body.result -> RpcErr("Missing", "result")
    [] OTHER -> Decoded(body)

\* The `error` member first, then `result`, then the status inside it.
json_rpc(body) ==
  CASE body.error # "absent" -> RpcErr("JsonRpc", body.error)
    [] body.error = "absent" /\ ~body.result -> RpcErr("Missing", "result")
    [] body.error = "absent" /\ body.result /\ ~check_status(body.inner) ->
         RpcErr("Status", body.inner)
    [] OTHER -> Decoded(body)

endpoint(body) ==
  IF check_status(body.status) THEN Decoded(body) ELSE RpcErr("Status", body.status)

\* The end of post, and what its caller makes of the JSON.
Interpreted(body) ==
  CASE head.status # 200 -> RpcErr("Http", head.status)
    [] head.status = 200 /\ ~body.json -> RpcErr("Decode", "json")
    [] OTHER -> IF call \in JsonRpc THEN json_rpc(body) ELSE endpoint(body)

-----------------------------------------------------------------------------
ClientInit ==
  /\ now = 0 /\ deadline = Timeout /\ at = "idle" /\ call \in Calls
  /\ head = NoHead /\ buf = 0 /\ answer = NoAnswer /\ out = Nothing

Ended(result) == at' = "done" /\ out' = result

Called(c) ==
  /\ at \in {"idle", "done"}
  /\ at' = "sent" /\ call' = c
  /\ now' = 0 /\ deadline' = Timeout
  /\ head' = NoHead /\ buf' = 0 /\ answer' = NoAnswer /\ out' = Nothing

\* The connection is refused, or breaks before the head.
RequestFailed ==
  /\ at = "sent"
  /\ \E kind \in {"Connect", "Other"} : Ended(RpcErr("Transport", kind))
  /\ UNCHANGED <<now, deadline, call, head, buf, answer>>

TooLong(h) == h.declared # Undeclared /\ h.declared > MaxBytes

\* Fault: reading the body is given a deadline of its own.
HeadReceived_anew(h) ==
  /\ at = "sent"
  /\ head' = h
  /\ deadline' = now + Timeout
  /\ IF TooLong(h) THEN Ended(RpcErr("ResponseTooLarge", "length"))
     ELSE at' = "reading" /\ UNCHANGED out
  /\ UNCHANGED <<now, call, buf, answer>>

\* A declared length over the ceiling is refused before anything is read.
HeadReceived(h) ==
  /\ at = "sent"
  /\ head' = h
  /\ IF TooLong(h) THEN Ended(RpcErr("ResponseTooLarge", "length"))
     ELSE at' = "reading" /\ UNCHANGED out
  /\ UNCHANGED <<now, deadline, call, buf, answer>>

\* Fault: what is held is measured, not what it would become.
FitsSoFar(n) == buf <= MaxBytes

Fits(n) == buf + n <= MaxBytes

FrameReceived(n) ==
  /\ at = "reading"
  /\ head.declared # Undeclared => buf + n <= head.declared
  /\ IF Fits(n) THEN buf' = buf + n /\ UNCHANGED <<at, out>>
     ELSE Ended(RpcErr("ResponseTooLarge", "body")) /\ UNCHANGED buf
  /\ UNCHANGED <<now, deadline, call, head, answer>>

\* The connection breaks off, or ends short of the length it declared.
BodyFailed ==
  /\ at = "reading"
  /\ Ended(RpcErr("Transport", "Other"))
  /\ UNCHANGED <<now, deadline, call, head, buf, answer>>

BodyEnded(body) ==
  /\ at = "reading"
  /\ head.declared \in {Undeclared, buf}
  /\ buf = 0 => ~body.json
  /\ answer' = body
  /\ Ended(Interpreted(body))
  /\ UNCHANGED <<now, deadline, call, head, buf>>

\* Fault: nothing ends a body that stalls.
ExpiringHead == at = "sent"

Expiring == at \in {"sent", "reading"}

Expired ==
  /\ Expiring
  /\ now >= deadline
  /\ Ended(RpcErr("Transport", "Timeout"))
  /\ UNCHANGED <<now, deadline, call, head, buf, answer>>

\* The request that made the call is dropped.
Dropped ==
  /\ at \in {"sent", "reading"}
  /\ at' = "idle"
  /\ UNCHANGED <<now, deadline, call, head, buf, answer, out>>

\* The runtime fires a timer that is due before time goes on.
Tick ==
  /\ at \in {"sent", "reading"}
  /\ now < deadline
  /\ now' = now + 1
  /\ UNCHANGED <<deadline, at, call, head, buf, answer, out>>

ClientNext ==
  \/ \E c \in Calls : Called(c)
  \/ RequestFailed \/ BodyFailed \/ Expired \/ Dropped \/ Tick
  \/ \E h \in Heads : HeadReceived(h)
  \/ \E n \in Frames : FrameReceived(n)
  \/ \E body \in Answers : BodyEnded(body)

\* Time passes and a due timer is polled; nothing is assumed of the daemon.
ClientFairness == WF_clientVars(Tick) /\ WF_clientVars(Expired)

ClientSpec == ClientInit /\ [][ClientNext]_clientVars /\ ClientFairness

-----------------------------------------------------------------------------
Kinds == {"none", "Ok", "Transport", "ResponseTooLarge", "Http", "Decode", "JsonRpc",
          "Missing", "Status"}

Failed == at = "done" /\ out # Ok

\* "One deadline across the whole exchange": however the daemon stalls in each
\* stage, a call is over when Timeout has passed since it began (post).
WithinDeadline == now <= Timeout

\* The body held never outgrows the ceiling, whether the response declared a
\* length, declared a small one, or none (collect_body).
BufferBounded == buf <= MaxBytes

\* A call succeeds only on a whole body, under a success status, that reports
\* no failure in the convention the call was made in: neither an `error`
\* member nor a status other than OK (json_rpc, endpoint).
OkIsTheDaemonsOk ==
  at = "done" /\ out = Ok =>
    /\ head.status = 200 /\ head.declared \in {Undeclared, buf}
    /\ answer.json
    /\ IF call \in JsonRpc
       THEN answer.error = "absent" /\ answer.inner \in {"absent", "OK"}
       ELSE answer.status \in {"absent", "OK"}

\* 404 is said only when the daemon itself, in a whole answer of success
\* status, said that it has no such block: never for an outage, a proxy's own
\* 404 or a method that is gated off (classify_block_error, on_chain_error).
NotFoundIsTheDaemonsWord ==
  Failed /\ 404 \in {PageStatus(call, out), ApiStatus(call, out)} =>
    /\ call = "block" /\ head.status = 200
    /\ answer.json /\ answer.error \in {WRONG_PARAM, TOO_BIG_HEIGHT, INTERNAL}

\* Whether what happened may pass by itself: nothing came, or not in time, the
\* daemon said that it is busy, or gave get_block a code that says nothing else.
Passing ==
  \/ head = NoHead
  \/ now >= Timeout
  \/ answer.json /\ "BUSY" \in {answer.inner, answer.status}
  \/ call = "block" /\ answer.json /\ answer.error \in {CORE_BUSY, OTHER_CODE}

\* A page asks its reader to try again (503) only after something that may
\* pass by itself: an answer that broke off, was too large, made no sense or
\* said that the method is not offered is not one (is_transient).
RetryLaterIsEarned == Failed /\ PageStatus(call, out) = 503 => Passing

\* Every call ends, whatever the daemon does.
EveryCallEnds == at \in {"sent", "reading"} ~> at \in {"idle", "done"}
=============================================================================
