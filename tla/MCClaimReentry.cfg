CONSTANTS
    None = None
    Phases <- MCPhases
    entry_phase = "planning"
    terminal_phase = "complete"
    failed_route = "failed_terminal"
    role <- MCrole
    on_success <- MCon_success
    on_loopback <- MCon_loopback
    on_failure <- MCon_failure
    workflow_fallback <- MCworkflow_fallback
    Outcomes <- MCOutcomes
    Decision <- MCDecision
    decisions <- MCdecisions
    LoopCounters <- MCLoopCounters
    loop_policy <- MCloop_policy
    loop_cap <- MCloop_cap
    Status <- MCStatus
    result_status_post_commit <- MCresult_status_post_commit
    gate_upstream <- MCgate_upstream
    gate_minimum = 2
    gate_always <- MCgate_always
    lifecycle <- MClifecycle
    loop_resets <- MCloop_resets
    BudgetCounters <- MCBudgetCounters
    increments_counter <- MCincrements_counter
    skipped_advances <- MCskipped_advances
    budget_cap <- MCbudget_cap
    post_commit_routes <- MCpost_commit_routes
    start_source = "planning_analysis"
    start_entry = "development"
    guarded_entry = "development"
    end_entry = "development_final_commit_cleanup"
    finalization_target = "development_final_commit_cleanup"
    finalization_outcome = "completed"
    duration = 2
    cycle_cap = 1
    reports_status <- MCreports_status
    StepSeconds = {0, 1}
    MaxFaults = 2
    DevelopmentCap = 1
    BudgetCap = 1
SPECIFICATION Spec
PROPERTY ReentryIsTimed
