------------------------- MODULE MCRecoveryController -------------------------
(* The agent chain of a phase on small allowances and cooldowns. *)
EXTENDS RecoveryClaims

=============================================================================
