----------------------------- MODULE MCSessions -----------------------------
EXTENDS Sessions

CONSTANTS p1, p2, k1

(* The MCP server of a session and the hooks of its harness. *)
SameKey == [p \in Proc |-> k1]
=============================================================================
