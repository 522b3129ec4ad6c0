--------------------------- MODULE MCDefaultPolicy --------------------------
(***************************************************************************)
(* The default policy of policy/defaults/pipeline.toml for TLC, phase for  *)
(* phase and edge for edge, with small caps, a deadline of two time units  *)
(* and an invocation gate of two.                                          *)
(***************************************************************************)
EXTENDS PipelineRun, PipelineGraph

CONSTANTS DevelopmentCap, BudgetCap

MCPhases ==
    {"planning", "planning_analysis", "development", "development_commit_cleanup",
     "development_commit", "development_analysis", "development_final_commit_cleanup",
     "development_final_commit", "complete", "failed_terminal"}

MCrole ==
    [p \in MCPhases |->
        CASE p \in {"planning", "development"} -> "execution"
          [] p \in {"planning_analysis", "development_analysis"} -> "analysis"
          [] p \in {"development_commit", "development_final_commit"} -> "commit"
          [] p \in {"complete", "failed_terminal"} -> "terminal"
          [] OTHER -> "commit_cleanup"]

MCon_success ==
    [planning |-> "planning_analysis",
     planning_analysis |-> "development",
     development |-> "development_commit_cleanup",
     development_commit_cleanup |-> "development_commit",
     development_commit |-> "development_analysis",
     development_analysis |-> "development_final_commit_cleanup",
     development_final_commit_cleanup |-> "development_final_commit",
     development_final_commit |-> "complete",
     complete |-> "complete",
     failed_terminal |-> "failed_terminal"]

MCon_loopback ==
    [p \in MCPhases |->
        CASE p \in {"planning_analysis"} -> "planning"
          [] p \in {"development_analysis"} -> "development"
          [] p \in {"planning", "development_commit", "development_final_commit"} -> None
          [] OTHER -> p]

MCon_failure ==
    [p \in MCPhases |->
        CASE p = "development_commit_cleanup" -> "development_commit"
          [] p = "development_final_commit_cleanup" -> "development_final_commit"
          [] p \in {"development_commit", "development_final_commit"} -> "failed_terminal"
          [] OTHER -> None]

MCworkflow_fallback == [p \in MCPhases |-> None]

MCOutcomes == {"completed", "failed"}

MCDecision == {"completed", "request_changes", "failed"}

RouteTo(target, reset, outcome) ==
    [target |-> target, reset_loop |-> reset, outcome |-> outcome, increments |-> None]

MCdecisions ==
    [p \in MCPhases |->
        CASE p = "planning_analysis" ->
                [completed |-> RouteTo("development", TRUE, None),
                 request_changes |-> RouteTo("planning", FALSE, None),
                 failed |-> RouteTo("planning", FALSE, None)]
          [] p = "development_analysis" ->
                [completed |-> RouteTo("development_final_commit_cleanup", TRUE, "completed"),
                 request_changes |-> RouteTo("development", FALSE, None),
                 failed |-> RouteTo("development_final_commit_cleanup", TRUE, "failed")]
          [] OTHER -> [d \in MCDecision |-> None]]

MCLoopCounters ==
    {"planning_analysis_iteration", "development_analysis_iteration", "commit_cleanup_iteration"}

MCloop_policy ==
    [p \in MCPhases |->
        CASE p = "planning_analysis" -> "planning_analysis_iteration"
          [] p = "development_analysis" -> "development_analysis_iteration"
          [] MCrole[p] = "commit_cleanup" -> "commit_cleanup_iteration"
          [] OTHER -> None]

MCloop_cap ==
    [c \in MCLoopCounters |->
        IF c = "development_analysis_iteration" THEN DevelopmentCap ELSE 1]

MCStatus == {"completed", "partial", "failed"}

MCresult_status_post_commit == [p \in MCPhases |-> [r \in MCStatus |-> None]]

MCgate_upstream ==
    [p \in MCPhases |-> IF p = "development_analysis" THEN "development" ELSE None]

MCgate_always == {"partial", "failed"}

MClifecycle == {"development_final_commit"}

MCloop_resets ==
    [p \in MCPhases |->
        CASE p = "development_commit" -> {"commit_cleanup_iteration"}
          [] p = "development_final_commit" ->
                {"development_analysis_iteration", "commit_cleanup_iteration"}
          [] OTHER -> {}]

MCBudgetCounters == {"iteration"}

MCincrements_counter ==
    [p \in MCPhases |-> IF p = "development_final_commit" THEN "iteration" ELSE None]

MCskipped_advances == [p \in MCPhases |-> p = "development_final_commit"]

MCbudget_cap == [c \in MCBudgetCounters |-> BudgetCap]

MCpost_commit_routes ==
    {[phase |-> "development_final_commit", budget_state |-> b, outcome |-> o,
      target |-> IF b = "remaining" THEN "planning"
                 ELSE IF o = "completed" THEN "complete" ELSE "failed_terminal"] :
        b \in {"remaining", "exhausted", "no_review"}, o \in MCOutcomes}

MCreports_status == {"development"}

\* The default policy meets the hypotheses of the theorems.
ASSUME DefaultPolicyIsCovered ==
    CycleHasOneEntry /\ FailedRouteMeansFailure /\ SuccessIsRouted /\ start_source # failed_route
=============================================================================
