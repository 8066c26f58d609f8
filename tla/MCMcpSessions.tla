--------------------------- MODULE MCMcpSessions ---------------------------
(* Two server names, so that a call can find the other server's process.     *)
EXTENDS McpSessions
CONSTANTS git, web
=============================================================================
