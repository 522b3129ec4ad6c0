----------------------------- MODULE PipelineRun ----------------------------
(***************************************************************************)
(* The run loop (pipeline/run_loop.py), one pipeline step of runner.py and *)
(* the effect router: which effect a state calls for, the event its        *)
(* execution can produce, and everything the step does with the reduced    *)
(* state (cycle-clock fold, phase timing, checkpoint).  The process may be *)
(* killed between two steps and resumed from its checkpoint.               *)
(*                                                                         *)
(* What an agent or a phase handler does is the environment's choice, and  *)
(* so is the controller's verdict on a failure (RecoveryController models  *)
(* that choice in detail).                                                 *)
(***************************************************************************)
EXTENDS PipelineReducer

CONSTANTS
    reports_status,   \* execution phases whose artifact is development_result
    StepSeconds,      \* how long a step or a sleep may take
    MaxFaults         \* bound on failures, crashes and residual commits

ASSUME RunAssumption ==
    /\ reports_status \subseteq {p \in Phases : role[p] = "execution"}
    /\ StepSeconds \subseteq Nat
    /\ MaxFaults \in Nat
    /\ None \notin {0, 1}   \* a running process has no exit code
    /\ \A p, q \in Phases : gate_upstream[p] # None /\ gate_upstream[q] # None
                               => gate_upstream[p] = gate_upstream[q]

VARIABLES
    state,    \* the PipelineState held by the loop
    ckpt,     \* the PipelineState of the last saved checkpoint
    pc,       \* "step": top of the loop; "sleep": retry delay; "exited"
    exit,     \* the exit code, None while running
    idle,     \* seconds since the last sample in the cycle_sample_box
    boxed,    \* the cycle_sample_box holds a sample
    dirty,    \* the work tree has uncommitted changes
    faults    \* faults the environment may still inject

vars == <<state, ckpt, pc, exit, idle, boxed, dirty, faults>>

InitialState ==
    [phase |-> entry_phase, previous_phase |-> None,
     loop |-> [c \in LoopCounters |-> 0], progress |-> [c \in BudgetCounters |-> 0],
     pending |-> None, override |-> None, status |-> None,
     agent_invoked |-> FALSE, charged |-> FALSE, active |-> FALSE,
     consumed |-> 0, worked |-> 0, epoch |-> 0, cycles |-> 0]

Init ==
    /\ state = InitialState
    /\ ckpt = InitialState
    /\ pc = "step"
    /\ exit = None
    /\ idle = 0
    /\ boxed = FALSE
    /\ dirty \in BOOLEAN
    /\ faults = MaxFaults

-----------------------------------------------------------------------------
(* effect_router.py: determine_effect_from_policy *)

determine_effect(s, changes) ==
    CASE s.phase = failed_route -> "PreparePrompt"
      [] role[s.phase] = "analysis"
            /\ resolve_exhausted_analysis_bypass(s, s.phase).skipped # {}
         -> "ExhaustedAnalysisPhaseAdvance"
      [] role[s.phase] = "commit" /\ s.agent_invoked -> "Commit"
      [] role[s.phase] = "commit" /\ ~s.agent_invoked /\ ~changes -> "EarlySkipCommit"
      [] OTHER -> "InvokeAgent"

Running == pc = "step" /\ state.phase # terminal_phase

Effect(e) == Running /\ determine_effect(state, dirty) = e

Invoking(r) == Effect("InvokeAgent") /\ role[state.phase] = r

-----------------------------------------------------------------------------
(* runner.py: the clock, the fold and the end of a step *)

\* _sample_cycle_timing, dt seconds after the top of the step.
sampled_delta(dt) == IF state.active /\ boxed THEN Saturate(idle + dt, duration) ELSE 0

routing_time(dt) == Saturate(state.consumed + sampled_delta(dt), duration)

fold_cycle_elapsed(next, dt) ==
    IF state.active
    THEN [next EXCEPT !.consumed = Saturate(@ + sampled_delta(dt), duration)]
    ELSE next

\* with_phase_timing: the step's duration is recorded on the phase it began in.
with_phase_timing(next, dt) ==
    IF \E p \in Phases : gate_upstream[p] = state.phase
    THEN [next EXCEPT !.worked = Saturate(@ + dt, gate_minimum)]
    ELSE next

\* Mutant: the checkpoint is saved before the elapsed seconds are folded in.
FinishStepSavingUnfolded(next, dt) ==
    /\ state' = with_phase_timing(fold_cycle_elapsed(next, dt), dt)
    /\ ckpt' = next
    /\ idle' = 0
    /\ boxed' = TRUE
    /\ UNCHANGED exit

\* The ordinary end of a step: reduce, fold, restart the sample, save, record
\* the timing on the state the loop goes on with.
FinishStep(next, dt) ==
    LET folded == fold_cycle_elapsed(next, dt)
    IN  /\ state' = with_phase_timing(folded, dt)
        /\ ckpt' = folded
        /\ idle' = 0
        /\ boxed' = TRUE
        /\ UNCHANGED exit

\* Inline effects, missing-plan recovery and the crash path return without a
\* fold and without a new sample.
FinishUnfolded(next, dt) ==
    /\ state' = with_phase_timing(next, dt)
    /\ ckpt' = next
    /\ idle' = IF boxed THEN Saturate(idle + dt, duration) ELSE 0
    /\ UNCHANGED <<boxed, exit>>

Fault == faults > 0 /\ faults' = faults - 1

\* What a step that ended or was cut short may have made of the work tree.
touched ==
    CASE role[state.phase] = "execution" -> BOOLEAN
      [] role[state.phase] = "commit_cleanup" \/ Effect("Commit") -> {dirty, FALSE}
      [] OTHER -> {dirty}

-----------------------------------------------------------------------------
(* Steps whose agent or commit produced an ordinary event *)

ExecutionSucceeds(dt) ==
    /\ Invoking("execution")
    /\ \/ FinishStep(handle_agent_success(state, routing_time(dt)), dt)
       \/ /\ state.phase \in reports_status
          /\ \E result \in Status :
                FinishStep(handle_execution_result(state, result, routing_time(dt)), dt)
    /\ dirty' \in touched
    /\ UNCHANGED <<pc, faults>>

\* parse_analysis_decision_status only lets routable decisions through.
AnalysisDecides(dt) ==
    /\ Invoking("analysis")
    /\ \E d \in Decision :
          /\ decisions[state.phase][d] # None
          /\ FinishStep(handle_analysis_decision(state, d, routing_time(dt)), dt)
    /\ UNCHANGED <<pc, dirty, faults>>

AnalysisIsExhausted(dt) ==
    /\ Effect("ExhaustedAnalysisPhaseAdvance")
    /\ FinishStep(handle_phase_advance(state, routing_time(dt)), dt)
    /\ UNCHANGED <<pc, dirty, faults>>

CleanupFinishes(dt) ==
    /\ Invoking("commit_cleanup")
    /\ \/ FinishStep(handle_agent_success(state, routing_time(dt)), dt)
       \/ FinishStep(handle_phase_loopback(state, routing_time(dt)), dt)
    /\ dirty' \in touched
    /\ UNCHANGED <<pc, faults>>

\* The commit agent wrote a message, or asked to skip.
CommitAgentFinishes(dt) ==
    /\ Invoking("commit")
    /\ \/ FinishStep(handle_agent_success(state, routing_time(dt)), dt)
       \/ FinishStep(handle_commit(state, TRUE, routing_time(dt)), dt)
    /\ UNCHANGED <<pc, dirty, faults>>

EarlySkipCommit(dt) ==
    /\ Effect("EarlySkipCommit")
    /\ FinishStep(handle_commit(state, TRUE, routing_time(dt)), dt)
    /\ UNCHANGED <<pc, dirty, faults>>

ExecuteCommit(dt) ==
    /\ Effect("Commit")
    /\ \/ /\ dirty
          /\ FinishStep(handle_commit(state, FALSE, routing_time(dt)), dt)
          /\ dirty' = FALSE
          /\ UNCHANGED faults
       \/ /\ ~dirty
          /\ FinishStep(handle_commit(state, TRUE, routing_time(dt)), dt)
          /\ UNCHANGED <<dirty, faults>>
       \/ /\ dirty
          /\ Fault
          /\ FinishStep(handle_commit_residual(state, routing_time(dt)), dt)
          /\ UNCHANGED dirty
       \/ /\ Fault
          /\ FinishStep(enter_failed_recovery(state), dt)
          /\ dirty' \in touched
    /\ UNCHANGED pc

-----------------------------------------------------------------------------
(* Steps that failed *)

\* AGENT_FAILURE and PhaseFailureEvent.  Unless the deadline redirects it, the
\* run stays (a retry, a fallover or a cooldown wait; it sleeps when a delay
\* was set) or gives the phase up.  The exit effect of an exceeded cycle cap is
\* among the effects this path discards.
given_up(t) ==
    {handle_chain_exhausted(state, t), enter_failed_recovery(state)}
        \cup {apply_execution_cycle_outcome(state, state.phase,
                  enter_phase_failed(state, counted)) : counted \in BOOLEAN}

AgentFails(dt) ==
    LET t == routing_time(dt)
    IN  /\ Effect("InvokeAgent")
        /\ Fault
        /\ dirty' \in touched
        /\ \/ /\ expired(state, state.phase, t)
              /\ FinishStep(redirect_expired_cycle_in_place(state, t), dt)
              /\ UNCHANGED pc
           \/ /\ ~expired(state, state.phase, t)
              /\ FinishStep(state, dt)
              /\ pc' \in {"step", "sleep"}
           \/ /\ ~expired(state, state.phase, t)
              /\ \E next \in given_up(t) : FinishStep(next, dt)
              /\ UNCHANGED pc

\* An exception escaped the step: _reduce_runtime_recovery judges it by the
\* sample taken before the step ran, and the exit effect is honoured.
StepCrashes(dt) ==
    LET t == routing_time(0)
        late == expired(state, state.phase, t)
    IN  /\ Running
        /\ Fault
        /\ dirty' \in touched
        /\ \/ /\ late
              /\ FinishUnfolded(redirect_expired_cycle_in_place(state, t), dt)
              /\ UNCHANGED pc
           \/ /\ ~late
              /\ FinishUnfolded(state, dt)
              /\ pc' \in {"step", "sleep"}
           \/ /\ ~late
              /\ FinishUnfolded(enter_phase_failed(state, FALSE), dt)
              /\ UNCHANGED pc
           \/ /\ ~late
              /\ role[state.phase] # "terminal"
              /\ state.cycles + 1 < cycle_cap
              /\ FinishUnfolded(enter_phase_failed(state, TRUE), dt)
              /\ UNCHANGED pc
           \/ /\ ~late
              /\ \/ state.cycles >= cycle_cap
                 \/ role[state.phase] # "terminal" /\ state.cycles + 1 >= cycle_cap
              /\ exit' = 1
              /\ pc' = "exited"
              /\ UNCHANGED <<state, ckpt, idle, boxed>>

\* The prompt of the phase needs a plan and none is on disk.
requires_plan(p) ==
    /\ role[p] \in {"execution", "analysis"}
    /\ p = entry_phase => state.previous_phase # None /\ role[state.previous_phase] = "analysis"

MissingPlanHandoff(dt) ==
    /\ \/ Effect("InvokeAgent") /\ requires_plan(state.phase)
       \/ /\ Effect("PreparePrompt")
          /\ state.previous_phase \notin {None, failed_route}
          /\ requires_plan(state.previous_phase)
    /\ Fault
    /\ FinishUnfolded(recover_missing_plan_handoff(state), dt)
    /\ UNCHANGED <<pc, dirty>>

ReenterFromFailedRoute(dt) ==
    /\ Effect("PreparePrompt")
    /\ FinishUnfolded(reenter_from_failed_route(state, routing_time(0)), dt)
    /\ UNCHANGED <<pc, dirty, faults>>

-----------------------------------------------------------------------------
(* run_loop.py *)

Sleep(dt) ==
    /\ pc = "sleep"
    /\ pc' = "step"
    /\ idle' = IF boxed THEN Saturate(idle + dt, duration) ELSE 0
    /\ UNCHANGED <<state, ckpt, exit, boxed, dirty, faults>>

ExitSuccess ==
    /\ pc = "step"
    /\ state.phase = terminal_phase
    /\ pc' = "exited"
    /\ exit' = 0
    /\ UNCHANGED <<state, ckpt, idle, boxed, dirty, faults>>

\* The process is killed, in the middle of a step perhaps, and a new one resumes
\* from the checkpoint.
KillAndResume ==
    /\ pc # "exited"
    /\ Fault
    /\ state' = initialize_legacy_cycle_on_resume(ckpt)
    /\ pc' = "step"
    /\ idle' = 0
    /\ boxed' = FALSE
    /\ dirty' \in touched
    /\ UNCHANGED <<ckpt, exit>>

\* The finished process; only here so that any other dead end is a deadlock.
Exited == pc = "exited" /\ UNCHANGED vars

Step(dt) ==
    \/ ExecutionSucceeds(dt)
    \/ AnalysisDecides(dt)
    \/ AnalysisIsExhausted(dt)
    \/ CleanupFinishes(dt)
    \/ CommitAgentFinishes(dt)
    \/ EarlySkipCommit(dt)
    \/ ExecuteCommit(dt)
    \/ AgentFails(dt)
    \/ StepCrashes(dt)
    \/ MissingPlanHandoff(dt)
    \/ ReenterFromFailedRoute(dt)
    \/ Sleep(dt)

Next ==
    \/ \E dt \in StepSeconds : Step(dt)
    \/ ExitSuccess
    \/ KillAndResume
    \/ Exited

Spec == Init /\ [][Next]_vars
-----------------------------------------------------------------------------
(* What the run loop promises *)

\* Every loop counter stays within the cap its policy declares, every cycle
\* clock and counter within the bound it is compared with (progress.py clamps,
\* runner.py folds).
TypeOK ==
    /\ {state, ckpt} \subseteq PipelineState
    /\ \A s \in {state, ckpt} :
          /\ \A c \in LoopCounters : s.loop[c] <= loop_cap[c]
          /\ s.consumed <= duration
          /\ s.worked <= gate_minimum
    /\ pc \in {"step", "sleep", "exited"}
    /\ exit \in {None, 0, 1}
    /\ idle \in 0..duration
    /\ boxed \in BOOLEAN /\ dirty \in BOOLEAN
    /\ faults \in 0..MaxFaults

\* The cycle timer runs only inside the cycle: every route that leaves the cycle
\* stops it (the seam _prepare_phase_advance), except the recovery detour, which
\* keeps it on purpose while the run waits at failed_route and, after a failure
\* there, during the entry phase it falls back to, however often that fails.
TimerInsideCycle ==
    state.active /\ state.phase \in outside_cycle_phases \cup terminal_states
        => \/ state.phase = failed_route
           \/ state.phase = entry_phase /\ state.previous_phase \in {failed_route, entry_phase}

\* No invocation of the guarded phase escapes the clock: whichever route led to
\* it (decision, exhausted-analysis bypass, recovery hop, resume), the cycle is
\* being timed there, as long as the run meets no more faults than cycle_cap.
GuardedPhaseIsTimed ==
    state.phase = guarded_entry => state.active

\* A step that routes the run into the guarded phase leaves it time to run: at or
\* past the deadline the run is sent to the finalization target instead.
NoEntryPastDeadline ==
    [][ /\ state'.phase = guarded_entry
        /\ state.phase # guarded_entry
        /\ idle' = 0
        => state'.consumed < duration ]_vars

\* A recorded cycle verdict is replaced only by a further analysis and consumed
\* only by the commit that closes the cycle; no stamp (gate denial, exhausted
\* analysis, deadline redirect), recovery hop or resume outranks it.
VerdictKept ==
    [][ state.pending # None /\ state'.pending # state.pending
        => Invoking("analysis") \/ commit_closes_a_cycle(state.phase) ]_vars

\* A process that resumes now goes on with the state the killed one had: each
\* path that changes the state saves it (after the fold), and the legacy
\* migration never touches a checkpoint this code wrote.  Only the gate seconds,
\* recorded after the save, may be older.
ResumeRestoresTheRun ==
    pc # "exited" =>
        [initialize_legacy_cycle_on_resume(ckpt) EXCEPT !.worked = state.worked] = state

\* Exit code 0 means that every declared iteration was closed by a final commit:
\* no bypass, redirect, recovery hop or resume leads to the terminal phase early.
SuccessMeansBudgetSpent ==
    exit = 0 => \A c \in BudgetCounters : state.progress[c] >= budget_cap[c]

\* The run loop goes on to its next step until it has exited, and every agent
\* invocation returns (the watchdogs bound it).  This is WF_vars(Next): a step
\* is enabled exactly when the run has not exited.
Fairness == <>[](pc # "exited") => []<><<Next>>_vars

FairSpec == Spec /\ Fairness

\* Once failures stop, the run ends: loop caps, iteration budget and deadline
\* leave no path around the phase graph that can be taken forever.
RunTerminates == <>(pc = "exited")
=============================================================================
