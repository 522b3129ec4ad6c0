-------------------------- MODULE PipelineHistory ---------------------------
(***************************************************************************)
(* The run loop with two history variables: the seconds that really went   *)
(* by since the cycle timer was started, and the verdict of the last cycle *)
(* a final commit closed.                                                  *)
(***************************************************************************)
EXTENDS PipelineRun

VARIABLES
    spent,     \* wall-clock seconds of the running cycle, saturated at duration
    closed     \* the verdict of the last closed cycle, None before the first

hvars == <<vars, spent, closed>>

HInit == Init /\ spent = 0 /\ closed = None

RecordTime(dt) ==
    spent' = IF state.active /\ state'.active THEN Saturate(spent + dt, duration) ELSE 0

RecordVerdict ==
    closed' = IF state.pending # None /\ state'.pending = None THEN state.pending ELSE closed

HNext ==
    \/ \E dt \in StepSeconds : Step(dt) /\ RecordTime(dt) /\ RecordVerdict
    \/ (ExitSuccess \/ KillAndResume \/ Exited) /\ RecordTime(0) /\ RecordVerdict

HSpec == HInit /\ [][HNext]_hvars

HFairSpec == HSpec /\ Fairness

\* The deadline never comes early: the seconds the routing guard sees, folded or
\* still in the sample box, are never more than went by since the cycle started,
\* however steps, sleeps, crashes and resumes alternate.
ClockNeverRunsFast == state.active => routing_time(0) <= spent

\* handoffs.py and pipeline.toml: a cycle that failed with no budget left ends the
\* run as a failure.  The recovery hop re-runs the closing commit without the
\* verdict it has consumed, and routes it as completed.
FailedRunIsReported == exit = 0 => closed # "failed"
=============================================================================
