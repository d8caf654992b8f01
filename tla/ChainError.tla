----------------------------- MODULE ChainError -----------------------------
(***************************************************************************)
(* What becomes of a call to the daemon that fails: the RpcError of the    *)
(* client (error.rs), the ChainError of the chain source (chain.rs,        *)
(* rpc_source.rs), and the HTTP status a page (html.rs) or an API answer   *)
(* (handlers.rs, envelope.rs) gives it.                                    *)
(***************************************************************************)
EXTENDS Integers

\* monerod's error codes, and the errors that carry no code.
WRONG_PARAM == "wrong_param"
TOO_BIG_HEIGHT == "too_big_height"
INTERNAL == "internal"
CORE_BUSY == "core_busy"
METHOD_NOT_FOUND == "method_not_found"
RESTRICTED == "restricted"
OTHER_CODE == "other_code"
NO_CODE == "no_code"

Codes == {WRONG_PARAM, TOO_BIG_HEIGHT, INTERNAL, CORE_BUSY, METHOD_NOT_FOUND,
          RESTRICTED, OTHER_CODE, NO_CODE}

\* Fault: every error that carries a code is "no such block".
classify_all_not_found(code) == IF code = NO_CODE THEN "Rpc" ELSE "BlockNotFound"

\* Fault: the code is passed on unclassified.
classify_nothing(code) == code

\* What `block` returns for an error: get_block's codes sorted by meaning,
\* and an error without one as ChainError::Rpc.
classify_block_error(code) ==
  CASE code \in {WRONG_PARAM, TOO_BIG_HEIGHT, INTERNAL} -> "BlockNotFound"
    [] code \in {METHOD_NOT_FOUND, RESTRICTED} -> "NeedsUnrestricted"
    [] code = NO_CODE -> "Rpc"
    [] OTHER -> "Unavailable"

-----------------------------------------------------------------------------
\* A call's failure: its RpcError variant, and the kind, code, status or HTTP
\* status it carries.
RpcErr(kind, detail) == [kind |-> kind, detail |-> detail]

CodeOf(err) == IF err.kind = "JsonRpc" THEN err.detail ELSE NO_CODE

\* The kind of ChainError each method of the chain source makes of it.
\* get_txids_loose missing from the daemon is no error there: Ok(None).
chain_error(call, err) ==
  CASE call = "block" -> classify_block_error(CodeOf(err))
    [] call = "alt_chains" /\ CodeOf(err) = METHOD_NOT_FOUND -> "NeedsUnrestricted"
    [] call = "txids_loose" /\ CodeOf(err) = METHOD_NOT_FOUND -> "NotProvided"
    [] call \in {"mempool", "pool_stats"} /\ err = RpcErr("Http", 404) -> "NeedsUnrestricted"
    [] OTHER -> "Rpc"

\* Fault: any failure of the transport is taken for a passing one.
rpc_is_transient_always(err) ==
  \/ err = RpcErr("Status", "BUSY")
  \/ err.kind = "Transport"

\* RpcError::is_transient: worth trying again.
rpc_is_transient(err) ==
  \/ err = RpcErr("Status", "BUSY")
  \/ err.kind = "Transport" /\ err.detail \in {"Timeout", "Connect"}

\* ChainError::is_transient.
is_transient(call, err) ==
  \/ chain_error(call, err) = "Unavailable"
  \/ chain_error(call, err) = "Rpc" /\ rpc_is_transient(err)

chain_error_page(call, err) ==
  CASE chain_error(call, err) = "BlockNotFound" -> 404
    [] is_transient(call, err) -> 503
    [] OTHER -> 502

\* The status of the page that shows the failure; the index has its own.
PageStatus(call, err) ==
  CASE call = "headers_range" -> 502
    [] call \in {"alt_chains", "mempool"} /\ chain_error(call, err) = "NeedsUnrestricted" -> 501
    [] OTHER -> chain_error_page(call, err)

\* Fault: whatever ends the lookup of a block, it was not found.
on_chain_error_of_block(call, err) == IF call = "block" THEN 404 ELSE 502

on_chain_error(call, err) == IF chain_error(call, err) = "BlockNotFound" THEN 404 ELSE 502

\* The status of the API answer: 503 for what this daemon does not offer.
ApiStatus(call, err) ==
  IF \/ call = "mempool" /\ chain_error(call, err) = "NeedsUnrestricted"
     \/ chain_error(call, err) = "NotProvided"
  THEN 503
  ELSE on_chain_error(call, err)
=============================================================================
