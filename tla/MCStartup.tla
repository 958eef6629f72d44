----------------------------- MODULE MCStartup ------------------------------
(* Two nodes that start together, with payloads that differ.               *)
EXTENDS Startup, TLC

CONSTANTS n1, n2, v1, v2

MCTypes == <<"fixtures">>
MCPayload == n1 :> v1 @@ n2 :> v2
=============================================================================
