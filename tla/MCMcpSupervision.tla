-------------------------- MODULE MCMcpSupervision --------------------------
(* Three attempts, so that the supervisor of the first may outlive it.         *)
EXTENDS McpSupervision
=============================================================================
