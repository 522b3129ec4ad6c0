---------------------------- MODULE RecoveryClaims ----------------------------
(* What the comments and the manual say of the agent chain and the code does  *)
(* not do.  Each is refuted by a run of its own.                              *)
EXTENDS RecoveryController

\* docs/sphinx/recovery.md: the cycle cap keeps a persistently failing workflow
\* from retrying forever.  Agents that return but never deliver a valid artifact
\* hand the phase to each other without end: each return clears the spent set,
\* so the chain is never exhausted and no cycle is counted.  (Runs that an
\* unresolved integration stops or holds up are left aside.)
InvalidArtifactsGiveUp == <>[]~blocked => (phase = "active" ~> phase = "failed")
=============================================================================
