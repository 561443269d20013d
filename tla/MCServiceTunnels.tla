-------------------------- MODULE MCServiceTunnels --------------------------
(* Instances of ServiceTunnels for TLC. *)
EXTENDS ServiceTunnels, TLC

CONSTANTS mcp1, act1, mcp2, ws1, ws2

\* The MCP services of two workspaces.
Apart == mcp1 :> ws1 @@ mcp2 :> ws2

\* One workspace with an MCP and an Actions service, and another.
Three == mcp1 :> ws1 @@ act1 :> ws1 @@ mcp2 :> ws2
=============================================================================
