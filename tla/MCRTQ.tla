------------------------------- MODULE MCRTQ --------------------------------
(* RTQ on small instances: one capability, at most one MCP server.         *)
EXTENDS RTQ

CONSTANTS read, srvA, x1, x2
=============================================================================
