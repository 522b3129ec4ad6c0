-------------------------- MODULE PipelineReducer ---------------------------
(***************************************************************************)
(* The pure routing core: pipeline/progress.py, cycle_timing.py,           *)
(* handoffs.py, loopback.py and the handlers of reducer.py, as operators   *)
(* from a PipelineState (and the elapsed seconds t of the running cycle)   *)
(* to the next PipelineState.                                              *)
(*                                                                         *)
(* A PipelineState keeps the fields routing reads.  Counters that are only *)
(* ever compared with a bound are kept saturated at it: recovery_epoch at  *)
(* cycle_cap, outer_progress and recovery_cycle_count one above their cap, *)
(* seconds at the deadline and at the gate's minimum.                      *)
(***************************************************************************)
EXTENDS PipelinePolicy

Saturate(n, bound) == IF n < bound THEN n ELSE bound

PipelineState ==
    [phase : Phases,
     previous_phase : Phases \cup {None},
     loop : [LoopCounters -> Nat],
     progress : [BudgetCounters -> Nat],
     pending : Outcomes \cup {None},      \* pending_cycle_outcome
     override : Phases \cup {None},       \* post_commit_phase_override
     status : Status \cup {None},         \* last_execution_result_status
     agent_invoked : BOOLEAN,             \* commit.agent_invoked
     charged : BOOLEAN,                   \* execution_cycle_charged
     active : BOOLEAN,                    \* cycle_timebox_active
     consumed : Nat,                      \* cycle_timebox_consumed_seconds
     worked : Nat,                        \* cumulative_execution_seconds
     epoch : Nat,                         \* recovery_epoch
     cycles : Nat]                        \* recovery_cycle_count

-----------------------------------------------------------------------------
(* progress.py *)

exhausted(s, p) == loop_policy[p] # None /\ s.loop[loop_policy[p]] >= loop_cap[loop_policy[p]]

\* Mutant: the loop counter is not clamped to its cap.
next_completed_unclamped(s, c) == s.loop[c] + 1

next_completed(s, c) == Saturate(s.loop[c] + 1, loop_cap[c])

advance_phase(s, target) ==
    [s EXCEPT !.phase = target,
              !.previous_phase = s.phase,
              !.epoch = 0,
              !.charged = IF role[target] = "execution" THEN FALSE ELSE @,
              !.agent_invoked = IF role[target] = "commit" THEN FALSE ELSE @]

\* next: the advanced state; the charge is computed from the state before it.
apply_execution_cycle_outcome(s, phase, next) ==
    LET c == execution_cycle_counter[phase]
    IN  IF c = None THEN next
        ELSE [next EXCEPT !.loop[c] = next_completed(s, c), !.charged = TRUE]

analysis_loopback_is_already_charged(s, p) ==
    loop_policy[p] # None /\ role[p] = "analysis" /\ s.charged

\* Mutant: a loopback is not billed.
apply_analysis_loopback_unbilled(s, p) == s

apply_analysis_loopback(s, p) ==
    IF analysis_loopback_is_already_charged(s, p) THEN s
    ELSE [s EXCEPT !.loop[loop_policy[p]] = next_completed(s, loop_policy[p])]

apply_budget_counter_increment(s, counter) ==
    IF counter = None THEN s
    ELSE [s EXCEPT !.progress[counter] = Saturate(@ + 1, budget_cap[counter] + 1)]

reset_loops(s, fields) ==
    [s EXCEPT !.loop = [c \in LoopCounters |-> IF c \in fields THEN 0 ELSE s.loop[c]]]

apply_commit_outcome(s, skipped) ==
    LET reset == reset_loops(s, loop_resets[s.phase])
        counter == increments_counter[s.phase]
    IN  IF s.phase \in lifecycle
        THEN IF counter = None THEN reset
             ELSE [apply_budget_counter_increment(reset, counter) EXCEPT !.worked = 0]
        ELSE IF skipped /\ ~skipped_advances[s.phase] THEN reset
             ELSE apply_budget_counter_increment(reset, counter)

-----------------------------------------------------------------------------
(* cycle_timing.py *)

concluded(s) == [s EXCEPT !.active = FALSE]

\* Mutant: a new cycle inherits the clock of the previous one.
started_keeping_clock(s) == [s EXCEPT !.active = TRUE]

started(s) == [s EXCEPT !.active = TRUE, !.consumed = 0]

\* Mutant: the stamp overwrites a recorded verdict.
stamp_outcome_always(s, outcome) == [s EXCEPT !.pending = outcome]

\* A recorded verdict is never outranked by a stamped one.
stamp_outcome(s, outcome) ==
    IF s.pending = None THEN [s EXCEPT !.pending = outcome] ELSE s

\* Mutant: a cycle exactly at its deadline is let through.
expired_strictly(s, target, t) == target = guarded_entry /\ s.active /\ t > duration

expired(s, target, t) == target = guarded_entry /\ s.active /\ t >= duration

apply_cycle_timebox(s, target, t) ==
    IF target \in {end_entry, finalization_target} /\ s.active
    THEN [state |-> concluded(s), target |-> target, started |-> FALSE]
    ELSE IF ~s.active /\ s.phase = start_source /\ target = start_entry
    THEN [state |-> started(s), target |-> target, started |-> TRUE]
    ELSE IF expired(s, target, t)
    THEN [state |-> stamp_outcome(concluded(s), finalization_outcome),
          target |-> finalization_target, started |-> FALSE]
    ELSE [state |-> s, target |-> target, started |-> FALSE]

\* Mutant: a route out of the cycle leaves the timer running.
conclude_cycle_nowhere(s, next) == s

conclude_cycle_on_route_out_of_cycle(s, next) ==
    IF s.active /\ next \in outside_cycle_phases \cup terminal_states
    THEN concluded(s) ELSE s

\* Mutant: a cycle entered past an exhausted analysis is not timed.
start_cycle_on_edge_only(s, target, skipped) == s

start_cycle_for_bypassed_start_source(s, target, skipped) ==
    IF ~s.active /\ target = start_entry /\ start_source \in skipped
    THEN started(s) ELSE s

initialize_legacy_cycle_on_resume(s) ==
    IF \/ s.active
       \/ s.consumed > 0
       \/ /\ s.phase \notin {start_entry, guarded_entry}
          /\ s.phase \in terminal_states \cup outside_cycle_phases
    THEN s ELSE started(s)

-----------------------------------------------------------------------------
(* handoffs.py *)

\* One turn of the while loop of resolve_exhausted_analysis_bypass.
skip_exhausted(b) ==
    IF b.target \in b.skipped \/ ~exhausted(b.state, b.target) THEN b
    ELSE [state   |-> stamp_outcome(reset_loops(b.state, {loop_policy[b.target]}),
                                    declared_forward_cycle_outcome(b.target)),
          target  |-> on_success[b.target],
          skipped |-> b.skipped \cup {b.target}]

resolve_exhausted_analysis_bypass(s, p) ==
    skip_exhausted(skip_exhausted([state |-> s, target |-> p, skipped |-> {}]))

\* increments_counter is also the route counter of the phases modelled here.
commit_closes_a_cycle(p) == increments_counter[p] # None

\* Mutant: the budget reads as spent one iteration early.
budget_remaining_off_by_one(s, counter) == s.progress[counter] + 1 < budget_cap[counter]

budget_remaining(s, counter) == s.progress[counter] < budget_cap[counter]

compute_budget_state(s) ==
    IF budget_remaining(s, increments_counter[s.phase]) THEN "remaining"
    ELSE IF \E other \in BudgetCounters \ {increments_counter[s.phase]} :
                budget_remaining(s, other)
    THEN "exhausted" ELSE "no_review"

\* A recorded outcome is the only candidate; an unrecorded one is first
\* matched as absent and then as the forward outcome "completed".
matching_routes(s) ==
    {r \in post_commit_routes :
        /\ r.phase = s.phase
        /\ r.budget_state = compute_budget_state(s)
        /\ r.outcome \in {None, IF s.pending = None THEN "completed" ELSE s.pending}}

resolve_post_commit_phase(s) ==
    IF s.override # None THEN s.override
    ELSE IF commit_closes_a_cycle(s.phase) /\ matching_routes(s) # {}
    THEN (CHOOSE r \in matching_routes(s) : TRUE).target
    ELSE on_success[s.phase]

-----------------------------------------------------------------------------
(* reducer.py: the shared resolution seam *)

with_bypassed_cycle_timing(b, t, timer_just_started) ==
    IF b.skipped = {} \/ timer_just_started
    THEN [state |-> b.state, target |-> b.target]
    ELSE LET d == apply_cycle_timebox(b.state, b.target, t)
         IN  [state  |-> start_cycle_for_bypassed_start_source(d.state, d.target, b.skipped),
              target |-> d.target]

prepare_phase_advance(s, target, t) ==
    LET d    == apply_cycle_timebox(s, target, t)
        here == resolve_exhausted_analysis_bypass(d.state, s.phase)
        leavesForward == role[s.phase] = "analysis" /\ on_success[s.phase] = d.target
        b    == IF leavesForward /\ here.skipped # {} THEN here
                ELSE resolve_exhausted_analysis_bypass(d.state, d.target)
        r    == with_bypassed_cycle_timing(b, t, d.started)
    IN  [state  |-> conclude_cycle_on_route_out_of_cycle(r.state, r.target),
         target |-> r.target]

route(s, target, t) ==
    LET r == prepare_phase_advance(s, target, t) IN advance_phase(r.state, r.target)

enter_failed_recovery(s) ==
    apply_execution_cycle_outcome(s, s.phase,
        [advance_phase(s, failed_route) EXCEPT !.epoch = Saturate(s.epoch + 1, cycle_cap)])

\* redirect_expired_cycle_in_place, when expired(s, s.phase, t).
redirect_expired_cycle_in_place(s, t) ==
    LET d == apply_cycle_timebox(s, s.phase, t) IN route(d.state, d.target, t)

-----------------------------------------------------------------------------
(* reducer.py: the event handlers *)

handle_agent_success(s, t) ==
    IF role[s.phase] = "commit" /\ ~s.agent_invoked
    THEN [s EXCEPT !.agent_invoked = TRUE]
    ELSE route(s, on_success[s.phase], t)

handle_execution_result(s, result, t) ==
    route([s EXCEPT !.override = result_status_post_commit[s.phase][result],
                    !.status = result],
          on_success[s.phase], t)

handle_phase_loopback(s, t) ==
    LET charged == IF loop_policy[s.phase] = None THEN s ELSE apply_analysis_loopback(s, s.phase)
    IN  IF on_loopback[s.phase] = None THEN enter_failed_recovery(charged)
        ELSE route(charged, on_loopback[s.phase], t)

handle_analysis_decision(s, decision, t) ==
    LET r == decisions[s.phase][decision]
        looped == IF loop_policy[s.phase] = None THEN s
                  ELSE IF r.reset_loop THEN reset_loops(s, {loop_policy[s.phase]})
                  ELSE apply_analysis_loopback(s, s.phase)
        counted == apply_budget_counter_increment(looped, r.increments)
        judged == IF r.outcome = None THEN counted ELSE [counted EXCEPT !.pending = r.outcome]
    IN  IF r = None THEN enter_failed_recovery(s)
        ELSE IF r.target = failed_route THEN enter_failed_recovery(judged)
        ELSE route(judged, r.target, t)

gate_admits(s, next) ==
    s.status \in gate_always \/ s.worked >= gate_minimum

advance_through_invocation_gate(s, next, t) ==
    LET gated    == gate_upstream[next] # None
        admitted == gated /\ gate_admits(s, next)
        denied   == gated /\ ~admitted
        target   == IF denied THEN on_success[next] ELSE next
        stamped  == IF denied THEN stamp_outcome(s, declared_forward_cycle_outcome(next)) ELSE s
        landed   == route([stamped EXCEPT !.status = None], target, t)
    IN  IF admitted /\ landed.phase = target
        THEN apply_execution_cycle_outcome(landed, gate_upstream[next], landed)
        ELSE landed

\* COMMIT_SUCCESS and COMMIT_SKIPPED.
handle_commit(s, skipped, t) ==
    LET progressed == apply_commit_outcome(s, skipped)
        next       == resolve_post_commit_phase(progressed)
        consumed   == [progressed EXCEPT !.override = None]
        closed     == IF commit_closes_a_cycle(s.phase)
                      THEN [consumed EXCEPT !.pending = None] ELSE consumed
    IN  advance_through_invocation_gate(closed, next, t)

handle_commit_residual(s, t) == route(s, s.phase, t)

handle_phase_advance(s, t) == route(s, on_success[s.phase], t)

\* The per-phase workflow_fallback of an exhausted chain.
handle_chain_exhausted(s, t) ==
    IF workflow_fallback[s.phase] = None THEN enter_failed_recovery(s)
    ELSE apply_execution_cycle_outcome(s, s.phase, route(s, workflow_fallback[s.phase], t))

-----------------------------------------------------------------------------
(* recovery/controller.py, _runner_state_helpers.py *)

\* RecoveryController._enter_phase_failed; counted: it gave up the whole chain.
enter_phase_failed(s, counted) ==
    [advance_phase(s, failed_route) EXCEPT
        !.epoch  = Saturate(s.epoch + 1, cycle_cap),
        !.cycles = IF counted THEN Saturate(s.cycles + 1, cycle_cap + 1) ELSE @]

recover_missing_plan_handoff(s) ==
    LET target == IF s.epoch >= cycle_cap THEN failed_route ELSE entry_phase
    IN  [conclude_cycle_on_route_out_of_cycle(advance_phase(s, target), target)
            EXCEPT !.epoch = Saturate(s.epoch + 1, cycle_cap)]

\* _handle_inline_effect: the hop out of failed_route writes the phase directly.
reenter_from_failed_route(s, t) ==
    LET phase == IF s.previous_phase \in {None, failed_route}
                 THEN entry_phase ELSE s.previous_phase
        d == apply_cycle_timebox(s, phase, t)
    IN  [d.state EXCEPT !.phase = d.target,
                        !.agent_invoked = IF role[d.target] = "commit" THEN FALSE ELSE @]
=============================================================================
