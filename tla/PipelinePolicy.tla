--------------------------- MODULE PipelinePolicy ---------------------------
(***************************************************************************)
(* The declarative phase graph (policy/models, policy/defaults/            *)
(* pipeline.toml) that every routing decision of the pipeline reads.  The  *)
(* constants keep the names of the policy fields; the assumptions are the  *)
(* checks PipelinePolicy's validators run before a run may start.          *)
(***************************************************************************)
EXTENDS Naturals, FiniteSets

CONSTANTS
    None,                  \* an absent optional field
    Phases,                \* the keys of policy.phases
    entry_phase,
    terminal_phase,        \* the only phase at which the run loop stops
    failed_route,          \* recovery.failed_route
    role,                  \* [Phases -> Roles]
    on_success,            \* [Phases -> Phases]
    on_loopback,           \* [Phases -> Phases \cup {None}]
    on_failure,            \* [Phases -> Phases \cup {None}]
    workflow_fallback,     \* [Phases -> Phases \cup {None}]
    Outcomes,              \* the cycle outcomes a route may record
    Decision,              \* the analysis decision vocabulary
    decisions,             \* [Phases -> [Decision -> Route \cup {None}]]
    LoopCounters,
    loop_policy,           \* [Phases -> LoopCounters \cup {None}]
    loop_cap,              \* [LoopCounters -> Nat]
    Status,                \* completed / partial / failed
    result_status_post_commit, \* [Phases -> [Status -> Phases \cup {None}]]
    gate_upstream,         \* [Phases -> Phases \cup {None}]: invocation_gate
    gate_minimum,          \* minimum_elapsed_seconds
    gate_always,           \* always_invoke_statuses
    lifecycle,             \* lifecycle_phases: phases that own a completion
    loop_resets,           \* [Phases -> SUBSET LoopCounters]
    BudgetCounters,        \* the counters with tracks_budget
    increments_counter,    \* [Phases -> BudgetCounters \cup {None}]
    skipped_advances,      \* [Phases -> BOOLEAN]
    budget_cap,            \* [BudgetCounters -> Nat]
    post_commit_routes,    \* set of [phase, budget_state, outcome, target]
    start_source, start_entry, guarded_entry, end_entry,
    finalization_target, finalization_outcome,
    duration,              \* cycle_timebox.duration_seconds
    cycle_cap              \* recovery.cycle_cap

Roles == {"execution", "analysis", "commit", "commit_cleanup", "terminal"}

BudgetStates == {"remaining", "exhausted", "no_review"}

Route ==
    [target : Phases, reset_loop : BOOLEAN, outcome : Outcomes \cup {None},
     increments : BudgetCounters \cup {None}]

PostCommitRoute ==
    [phase : Phases, budget_state : BudgetStates,
     outcome : Outcomes \cup {None}, target : Phases]

terminal_states ==
    {terminal_phase, failed_route} \cup {p \in Phases : role[p] = "terminal"}

decision_targets(p) ==
    {decisions[p][d].target : d \in {e \in Decision : decisions[p][e] # None}}

declared_targets(p) ==
    ({on_success[p], on_loopback[p], on_failure[p]} \cup decision_targets(p)) \ {None}

-----------------------------------------------------------------------------
(* The validators *)

\* Every reference of the graph names a declared phase.
references_known_phases ==
    /\ {entry_phase, terminal_phase, failed_route} \subseteq Phases
    /\ role \in [Phases -> Roles]
    /\ on_success \in [Phases -> Phases]
    /\ on_loopback \in [Phases -> Phases \cup {None}]
    /\ on_failure \in [Phases -> Phases \cup {None}]
    /\ workflow_fallback \in [Phases -> Phases \cup {None}]
    /\ decisions \in [Phases -> [Decision -> Route \cup {None}]]
    /\ result_status_post_commit \in [Phases -> [Status -> Phases \cup {None}]]
    /\ post_commit_routes \subseteq PostCommitRoute
    /\ \A p \in Phases \ terminal_states : on_success[p] = p => on_loopback[p] # None

counter_references_valid ==
    /\ loop_policy \in [Phases -> LoopCounters \cup {None}]
    /\ increments_counter \in [Phases -> BudgetCounters \cup {None}]

cycle_timebox_references_known_phases ==
    {start_source, start_entry, guarded_entry, end_entry, finalization_target}
        \subseteq Phases

\* _reachable_avoiding: the phases reached by success and decision edges.
reachable_avoiding(starts, avoid) ==
    LET Closed(S) ==
            /\ starts \ avoid \subseteq S
            /\ \A p \in S : ({on_success[p]} \cup decision_targets(p)) \ avoid \subseteq S
    IN  {p \in Phases : \A S \in SUBSET Phases : Closed(S) => p \in S}

\* Reached from the cycle's entries and leading back to the guarded one.
phases_inside_cycle ==
    LET pre_cycle == {entry_phase, start_source}
    IN  {p \in reachable_avoiding({start_entry, guarded_entry}, pre_cycle) :
            guarded_entry \in reachable_avoiding({on_success[p]} \cup decision_targets(p),
                                                 pre_cycle)}

cycle_timebox_ends_outside_the_cycle ==
    {end_entry, finalization_target} \cap phases_inside_cycle = {}

cycle_timebox_start_edge_declared ==
    \/ start_entry \in declared_targets(start_source)
    \/ \E s \in Status : start_entry = result_status_post_commit[start_source][s]
    \/ \E r \in post_commit_routes : r.phase = start_source /\ r.target = start_entry

ASSUME PhaseGraphAssumption ==
    /\ None \notin Phases \cup Outcomes \cup LoopCounters \cup BudgetCounters \cup Status
    /\ "completed" \in Decision
    /\ None \notin Route
    /\ references_known_phases
    /\ counter_references_valid

ASSUME CounterAssumption ==
    /\ loop_cap \in [LoopCounters -> Nat]
    /\ loop_resets \in [Phases -> SUBSET LoopCounters]
    /\ lifecycle \subseteq Phases
    /\ skipped_advances \in [Phases -> BOOLEAN]
    /\ budget_cap \in [BudgetCounters -> Nat]
    /\ gate_upstream \in [Phases -> Phases \cup {None}]
    /\ gate_minimum \in Nat
    /\ gate_always \subseteq Status
    /\ cycle_cap \in Nat \ {0}

ASSUME TimeboxAssumption ==
    /\ cycle_timebox_references_known_phases
    /\ cycle_timebox_ends_outside_the_cycle
    /\ cycle_timebox_start_edge_declared
    /\ finalization_outcome \in Outcomes \cup {None}
    /\ duration \in Nat \ {0}

\* No commit matches two routes, so the order of the table is immaterial.  The
\* validator only rejects equal conditions; a catch-all beside a route for one
\* outcome is a policy these modules do not cover.
ASSUME RoutesUnambiguousAssumption ==
    \A r, q \in post_commit_routes :
        /\ r.phase = q.phase /\ r.budget_state = q.budget_state
        /\ r.outcome = q.outcome \/ r.outcome = None \/ q.outcome = None
        => r = q

\* The while loop of resolve_exhausted_analysis_bypass skips at most two phases
\* in a row: no success chain of three loop-policy phases.
ASSUME BypassChainAssumption ==
    \A p \in Phases :
        loop_policy[p] # None /\ loop_policy[on_success[p]] # None
            => loop_policy[on_success[on_success[p]]] = None

(***************************************************************************)
(* The worklist of _outside_cycle_phases computes the least set that       *)
(* contains the three roots and is closed under declared edges, the cycle  *)
(* entries being the boundary of the walk.                                 *)
(***************************************************************************)
ClosedWalk(S) ==
    /\ {entry_phase, start_source, end_entry} \ {start_entry, guarded_entry} \subseteq S
    /\ \A p \in S : declared_targets(p) \ {start_entry, guarded_entry} \subseteq S

outside_cycle_phases ==
    {p \in Phases : \A S \in SUBSET Phases : ClosedWalk(S) => p \in S}

(***************************************************************************)
(* resolve_execution_cycle_loop_counter: follow success edges from the     *)
(* execution phase to the first analysis phase that loops back to it.      *)
(***************************************************************************)
cycle_loop_counter(phase) ==
    LET Last == Cardinality(Phases)
        path[n \in 0..Last] == IF n = 0 THEN phase ELSE on_success[path[n - 1]]
        Closes(n) == /\ path[n] \in Phases
                     /\ role[path[n]] = "analysis"
                     /\ loop_policy[path[n]] # None
                     /\ on_loopback[path[n]] = phase
        First(n) == Closes(n) /\ \A m \in 0..(n - 1) : ~Closes(m)
    IN  IF \E n \in 0..Last : First(n)
        THEN loop_policy[path[CHOOSE n \in 0..Last : First(n)]]
        ELSE None

execution_cycle_counter == [p \in Phases |-> cycle_loop_counter(p)]

declared_forward_cycle_outcome(p) ==
    IF decisions[p]["completed"] = None THEN None
    ELSE decisions[p]["completed"].outcome
=============================================================================
