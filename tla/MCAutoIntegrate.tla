--------------------------- MODULE MCAutoIntegrate ---------------------------
(* Two worktrees with one commit each, two faults anywhere. *)
EXTENDS AutoIntegrate
=============================================================================
