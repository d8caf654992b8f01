----------------------------- MODULE MCRpcGate ------------------------------
(***************************************************************************)
(* Instances of RpcGate for TLC.                                           *)
(***************************************************************************)
EXTENDS RpcGate, TLC

CONSTANTS r1, r2, r3, r4, api, html

MCRouteOf == r1 :> api @@ r2 :> api @@ r3 :> api @@ r4 :> html
MCPlans == {<<1, 2>>, <<3>>}
=============================================================================
