---------------------------- MODULE PipelineGraph ----------------------------
(***************************************************************************)
(* What a phase graph has to satisfy, beyond the validators' checks, for   *)
(* the cycle timer and the exit code to mean what they say.  The theorems  *)
(* about them take these as hypotheses; the default policy satisfies them. *)
(***************************************************************************)
EXTENDS PipelinePolicy

\* A route to one of these phases stops the cycle timer.
OutsideCycle == outside_cycle_phases \cup terminal_states

\* The phases at which the code takes a running timer for granted: no route to
\* them stops it, and a resume there starts it.
InsideCycle == Phases \ OutsideCycle

overrides ==
    {result_status_post_commit[p][r] : p \in Phases, r \in Status} \ {None}

commit_targets(p) ==
    overrides \cup {on_success[p]} \cup {r.target : r \in {q \in post_commit_routes : q.phase = p}}

\* Where an event of phase p may lead before timer and bypass have their say.  A
\* gate that denies a commit's target passes on to the success of that target.
routed(p) ==
    ({p, on_success[p], on_loopback[p], workflow_fallback[p]} \ {None})
        \cup decision_targets(p)
        \cup commit_targets(p)
        \cup {on_success[q] : q \in {n \in commit_targets(p) : gate_upstream[n] # None}}

CycleEntriesRun == {start_entry, guarded_entry} \cap terminal_states = {}

\* The start edge is the only way into the cycle, and leaving it leaves it.
CycleHasOneEntry ==
    /\ CycleEntriesRun
    /\ entry_phase \notin {start_entry, guarded_entry}
    /\ loop_policy[start_entry] = None
    /\ \A p \in Phases : \A q \in routed(p) \cap InsideCycle :
          p \in InsideCycle \/ (p = start_source /\ q = start_entry)
    /\ \A p \in {end_entry, finalization_target} :
          p \notin InsideCycle /\ start_source \notin {p, on_success[p]}

\* Phases of the cycle reach the failed route by failing, never by an edge.
FailedRouteMeansFailure ==
    /\ failed_route \notin {entry_phase, finalization_target}
    /\ \A p \in Phases \ {failed_route} : on_success[p] # failed_route
    /\ \A p \in InsideCycle : failed_route \notin routed(p)
    /\ \A p \in Phases : failed_route \notin decision_targets(p)
    /\ \A p \in Phases : role[p] = "commit_cleanup" => on_loopback[p] # None

\* Every commit of p finds a route in the table.
post_commit_routes_cover(p) ==
    \A b \in BudgetStates, o \in Outcomes :
        \E r \in post_commit_routes :
            r.phase = p /\ r.budget_state = b /\ r.outcome \in {None, o}

\* The terminal phase is reached by a closing commit's route for a spent budget.
SuccessIsRouted ==
    /\ terminal_phase \notin {entry_phase, failed_route, finalization_target} \cup overrides
    /\ "completed" \in Outcomes
    /\ \A p \in Phases \ {terminal_phase} :
          /\ terminal_phase \notin {on_loopback[p], workflow_fallback[p]} \cup decision_targets(p)
          /\ on_success[p] = terminal_phase =>
                /\ role[p] = "commit" /\ increments_counter[p] # None
                /\ loop_policy[p] = None /\ gate_upstream[p] = None
                /\ post_commit_routes_cover(p)
    /\ \A r \in post_commit_routes : r.target = terminal_phase =>
          \/ r.budget_state = "no_review"
          \/ r.budget_state = "exhausted" /\ BudgetCounters = {increments_counter[r.phase]}
=============================================================================
