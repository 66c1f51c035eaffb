-------------------------- MODULE MCMcpDelivery --------------------------
(* Small instances of McpDelivery for TLC: see the .cfg files.            *)
EXTENDS McpDelivery
=============================================================================
