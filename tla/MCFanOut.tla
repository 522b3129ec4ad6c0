------------------------------ MODULE MCFanOut ------------------------------
(* Five units: 3 and 5 wait for 1, 4 waits for 3, 2 is independent.  Finishing *)
(* 1 makes more units ready than there are free workers.                       *)
EXTENDS FanOutClaims

MCUnits == 1 .. 5
MCDependencies ==
    [u \in MCUnits |-> CASE u \in {3, 5} -> {1} [] u = 4 -> {3} [] OTHER -> {}]
=============================================================================
