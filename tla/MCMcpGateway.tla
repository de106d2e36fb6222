---------------------------- MODULE MCMcpGateway ----------------------------
(* McpGateway with one server, which may come back with another profile    *)
(* and whose tool may come back with another schema.                       *)
EXTENDS McpGateway

CONSTANTS files, p1, p2, readFile, h1, h2
=============================================================================
