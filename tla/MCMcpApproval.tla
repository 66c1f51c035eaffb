-------------------------- MODULE MCMcpApproval ---------------------------
(* Small instances of McpApproval for TLC: see the .cfg files.             *)
EXTENDS McpApproval
===========================================================================
