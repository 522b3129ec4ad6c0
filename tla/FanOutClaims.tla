---------------------------- MODULE FanOutClaims ----------------------------
(* What the manual and a docstring say of a fan-out wave and the code does not *)
(* do.  Each is refuted by a run of its own.                                   *)
EXTENDS FanOut

\* docs/sphinx/recovery.md: the first Ctrl+C cancels in-flight work and pauses.
\* _run_fan_out_async takes the cancellation for a crash of the wave, and the run
\* loop starts the next one.
InterruptPauses == interrupted => pc # "wave"

\* _cleared_after_successful_wave: the next development entry resumes only the
\* unfinished units.  A success that was still in the completion queue, or was
\* reduced only in memory, when the wave ended is forgotten and done over.
ResumesOnlyUnfinished ==
    running \cap delivered \subseteq {queue[i] : i \in DOMAIN queue}
=============================================================================
