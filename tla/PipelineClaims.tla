--------------------------- MODULE PipelineClaims ---------------------------
(***************************************************************************)
(* What the docs say of the run loop and the code does not do, refuted by  *)
(* a run of its own.                                                       *)
(***************************************************************************)
EXTENDS PipelineRun, PipelineGraph

\* docs/sphinx/recovery.md and cycle_cap.py: the run stops when the recovery cycle
\* counter reaches its cap.  runner.py discards the exit effect on the ordinary
\* failure path, so the run goes on.
CycleCapStopsTheRun == pc # "exited" => state.cycles < cycle_cap

\* reducer.py and test_cycle_survives_recovery_hops.py: a failure inside the cycle
\* must not disarm the timer, since the failed route re-enters the cycle.  The
\* missing-plan recovery concludes the cycle on its way there once the epoch has
\* reached the cap, and the phase is re-entered without a deadline.
ReentryIsTimed ==
    [][ state.phase = failed_route /\ state'.phase \in InsideCycle => state'.active ]_vars
=============================================================================
