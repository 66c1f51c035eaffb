-------------------------- MODULE MCMcpConnection --------------------------
(* Small instances of McpConnection for TLC: see the .cfg files.          *)
EXTENDS McpConnection, TLC

Symmetry == Permutations(Binding) \union Permutations(Subject)
=============================================================================
