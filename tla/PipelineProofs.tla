---------------------------- MODULE PipelineProofs ---------------------------
(* Theorems about the run loop, for every phase graph the validators accept.  *)
EXTENDS PipelineReducerProofs, PipelineHistory

-----------------------------------------------------------------------------
(* runner.py: the end of a step *)

LEMMA SaturateType ==
    ASSUME NEW n \in Nat, NEW m \in Nat
    PROVE  Saturate(n, m) \in 0..m /\ Saturate(n, m) <= n
BY DEF Saturate

\* What the phase timing writes: the gate seconds, and nothing else.
Clocked(s, u) ==
    Bounded(u) /\ Same(s, u) /\ u.pending = s.pending /\ u = [s EXCEPT !.worked = u.worked]

LEMMA PhaseTiming ==
    ASSUME NEW s, Bounded(s), NEW dt \in Nat, NEW u, u = with_phase_timing(s, dt)
    PROVE  Clocked(s, u)
<1> DEFINE w == Saturate(s.worked + dt, gate_minimum)
           v == [s EXCEPT !.worked = w]
<1>1. s \in PipelineState /\ s.worked \in Nat /\ s.worked + dt \in Nat /\ gate_minimum \in Nat
  BY CounterAssumption DEF Bounded, PipelineState
<1>2. w \in 0..gate_minimum
  BY <1>1, SaturateType, Zenon
<1>3. u = s \/ u = v
  BY DEF with_phase_timing
<1> HIDE DEF w
<1>4. v \in PipelineState
  BY <1>1, <1>2 DEF PipelineState
<1>5. Same(s, v) /\ v.pending = s.pending /\ v.loop = s.loop /\ v.worked = w
  BY <1>1 DEF Same, SamePlace, SameAccount
<1>6. Clocked(s, v)
  BY <1>1, <1>2, <1>4, <1>5 DEF Clocked, Bounded, Same, SamePlace
<1>7. Clocked(s, s)
  BY <1>1, KeepsItself DEF Clocked, Keeps, PipelineState
<1> QED BY <1>3, <1>6, <1>7

LEMMA SampleType ==
    ASSUME NEW dt \in Nat, idle \in 0..duration
    PROVE  sampled_delta(dt) \in 0..duration
BY TimeboxAssumption, SaturateType DEF sampled_delta

\* What the fold writes: the seconds of a running cycle.
Folded(s, dt, u) ==
    /\ Bounded(u) /\ Retimed(s, u) /\ u.active = s.active /\ u.pending = s.pending
    /\ u.consumed = IF state.active THEN Saturate(s.consumed + sampled_delta(dt), duration)
                    ELSE s.consumed

LEMMA Fold ==
    ASSUME NEW s, Bounded(s), NEW dt \in Nat, idle \in 0..duration,
           NEW u, u = fold_cycle_elapsed(s, dt)
    PROVE  Folded(s, dt, u)
<1> DEFINE w == Saturate(s.consumed + sampled_delta(dt), duration)
           v == [s EXCEPT !.consumed = w]
<1>1. s \in PipelineState /\ s.consumed \in Nat /\ duration \in Nat
  BY TimeboxAssumption DEF Bounded, PipelineState
<1>2. s.consumed + sampled_delta(dt) \in Nat
  BY <1>1, SampleType
<1>3. w \in 0..duration
  BY <1>1, <1>2, SaturateType, Zenon
<1>4. u = IF state.active THEN v ELSE s
  BY <1>1 DEF fold_cycle_elapsed
<1>5. CASE state.active
  <2>1. u = v
    BY <1>4, <1>5
  <2>2. v.consumed = w
    BY <1>1
  <2> HIDE DEF w
  <2>3. v \in PipelineState
    BY <1>1, <1>3 DEF PipelineState
  <2>4. /\ Retimed(s, v) /\ v.active = s.active /\ v.pending = s.pending
        /\ v.loop = s.loop /\ v.worked = s.worked
    BY <1>1 DEF Retimed, SameAccount
  <2> HIDE DEF v
  <2>5. Bounded(v)
    BY <1>3, <2>2, <2>3, <2>4 DEF Bounded
  <2> QED BY <1>5, <2>1, <2>2, <2>4, <2>5 DEF w, Folded
<1>6. CASE ~state.active
  <2>1. u = s
    BY <1>4, <1>6
  <2> QED BY <1>6, <2>1, Zenon DEF Folded, Retimed, SameAccount
<1> QED BY <1>5, <1>6

-----------------------------------------------------------------------------
(* runner.py: how a step may move the run *)

Charged == Fault \/ faults' = faults

\* Where the ordinary end of a step leads, by the time t it was routed at.
Leads(t, next) ==
    \/ MovesOn(state, t, next)
    \/ Fails(state, next) /\ (FailedRouteMeansFailure => Fault)
    \/ Redirects(state, t, next)

\* Where the paths that skip the fold lead.
Detours(next) ==
    /\ \/ Same(state, next)
       \/ Fails(state, next) /\ Fault
       \/ Redirects(state, routing_time(0), next)
       \/ Recovers(state, next) /\ Fault
       \/ state.phase = failed_route /\ Reenters(state, routing_time(0), next)
    /\ start_source # failed_route => NoCycleStarted(state, next)

\* A verdict is kept unless an analysis or a closing commit ran.
KeepsVerdict(next) ==
    VerdictStays(state, next) \/ Invoking("analysis") \/ commit_closes_a_cycle(state.phase)

\* A step that reaches its end.
Moves(next, dt) ==
    /\ Running /\ Charged /\ Reduces(state, next) /\ KeepsVerdict(next)
    /\ \/ FinishStep(next, dt) /\ Leads(routing_time(dt), next)
       \/ FinishUnfolded(next, dt) /\ Detours(next)

\* A step that changes no state: the retry delay, or the end of the run.
Stays(dt) ==
    /\ pc # "exited" /\ Charged /\ UNCHANGED <<state, ckpt, boxed>> /\ exit' \in {exit, 1}
    /\ idle' \in {idle, IF boxed THEN Saturate(idle + dt, duration) ELSE 0}

\* Whichever post-commit override is pending, some execution phase declared it.
OverrideDeclared(s) == s.override \in overrides \cup {None}

LEMMA FoldedMove ==
    ASSUME Running, Charged, NEW next, NEW dt, FinishStep(next, dt), Routes(state, next),
           \/ MovesOn(state, routing_time(dt), next)
           \/ Fails(state, next) /\ (FailedRouteMeansFailure => Fault)
           \/ Redirects(state, routing_time(dt), next)
    PROVE  \E n : Moves(n, dt)
BY DEF Moves, Leads, Routes, KeepsVerdict

LEMMA OrdinaryStep ==
    ASSUME Bounded(state), OverrideDeclared(state), NEW dt,
           \/ ExecutionSucceeds(dt) \/ AnalysisDecides(dt) \/ AnalysisIsExhausted(dt)
           \/ CleanupFinishes(dt) \/ CommitAgentFinishes(dt) \/ EarlySkipCommit(dt)
           \/ ExecuteCommit(dt)
    PROVE  \E n : Moves(n, dt)
<1> DEFINE t == routing_time(dt)
<1>1. state.phase \in Phases /\ on_success[state.phase] \in Phases /\ SamePlace(state, state)
  BY PhaseTypes DEF Bounded, PipelineState, SamePlace
<1>2. Running /\ state.phase # terminal_phase
  BY Zenon
     DEF ExecutionSucceeds, AnalysisDecides, AnalysisIsExhausted, CleanupFinishes,
         CommitAgentFinishes, EarlySkipCommit, ExecuteCommit, Invoking, Effect, Running
<1>3. Charged
  BY Zenon
     DEF ExecutionSucceeds, AnalysisDecides, AnalysisIsExhausted, CleanupFinishes,
         CommitAgentFinishes, EarlySkipCommit, ExecuteCommit, Charged
<1>4. ASSUME NEW next, FinishStep(next, dt), Routes(state, next), MovesOn(state, t, next)
      PROVE  \E n : Moves(n, dt)
  BY <1>2, <1>3, <1>4, FoldedMove, Zenon
<1>5. ASSUME NEW skipped \in BOOLEAN, FinishStep(handle_commit(state, skipped, t), dt)
      PROVE  \E n : Moves(n, dt)
  <2> DEFINE next == handle_commit(state, skipped, t)
  <2>1. /\ Reduces(state, next) /\ MovesOn(state, t, next)
        /\ ~commit_closes_a_cycle(state.phase) => VerdictStays(state, next)
    BY <1>2, Commits, Zenon DEF OverrideDeclared
  <2>2. FinishStep(next, dt)
    BY <1>5
  <2> HIDE DEF next
  <2>3. Moves(next, dt)
    BY <1>2, <1>3, <2>1, <2>2, Zenon DEF Moves, Leads, KeepsVerdict
  <2> QED BY <2>3
<1>6. ASSUME role[state.phase] = "commit" => ~state.agent_invoked,
             FinishStep(handle_agent_success(state, t), dt)
      PROVE  \E n : Moves(n, dt)
  <2>1. Routes(state, handle_agent_success(state, t)) /\ MovesOn(state, t, handle_agent_success(state, t))
    BY <1>2, <1>6, AgentSuccess, Zenon
  <2> QED BY <1>4, <1>6, <2>1, Zenon
<1> HIDE DEF t
<1>7. CASE ExecutionSucceeds(dt)
  <2>1. ASSUME NEW result \in Status, FinishStep(handle_execution_result(state, result, t), dt)
        PROVE  \E n : Moves(n, dt)
    <3>1. role[state.phase] # "commit"
      BY <1>7 DEF ExecutionSucceeds, Invoking
    <3>2. /\ Routes(state, handle_execution_result(state, result, t))
          /\ MovesOn(state, t, handle_execution_result(state, result, t))
      BY <1>2, <3>1, ExecutionResult, Zenon
    <3> QED BY <1>4, <2>1, <3>2, Zenon
  <2> QED BY <1>6, <1>7, <2>1 DEF t, ExecutionSucceeds, Invoking
<1>8. CASE AnalysisDecides(dt)
  <2>1. PICK d \in Decision : /\ decisions[state.phase][d] # None
                              /\ FinishStep(handle_analysis_decision(state, d, t), dt)
    BY <1>8 DEF t, AnalysisDecides
  <2> DEFINE next == handle_analysis_decision(state, d, t)
  <2>2. /\ Reduces(state, next)
        /\ MovesOn(state, t, next) \/ (Fails(state, next) /\ ~FailedRouteMeansFailure)
    BY <1>2, <2>1, AnalysisDecision
  <2>3. FinishStep(next, dt) /\ Invoking("analysis")
    BY <1>8, <2>1 DEF AnalysisDecides
  <2> HIDE DEF next
  <2>4. Moves(next, dt)
    BY <1>2, <1>3, <2>2, <2>3, Zenon DEF t, Moves, Leads, KeepsVerdict
  <2> QED BY <2>4
<1>9. CASE AnalysisIsExhausted(dt)
  <2> DEFINE next == route(state, on_success[state.phase], t)
  <2>1. SuccessIsRouted => on_success[state.phase] # terminal_phase
    BY <1>1, <1>2, <1>9 DEF SuccessIsRouted, AnalysisIsExhausted, Effect, determine_effect
  <2>2. on_success[state.phase] \in routed(state.phase)
    BY <1>1, PhaseTypes DEF routed
  <2>3. Routes(state, next) /\ MovesOn(state, t, next)
    BY <1>1, <2>1, <2>2, RouteMoves
  <2>4. FinishStep(next, dt)
    BY <1>9 DEF t, AnalysisIsExhausted, handle_phase_advance
  <2> HIDE DEF next
  <2> QED BY <1>4, <2>3, <2>4, Zenon
<1>10. CASE CleanupFinishes(dt)
  <2> DEFINE next == handle_phase_loopback(state, t)
  <2>1. FinishStep(handle_agent_success(state, t), dt) \/ FinishStep(next, dt)
    BY <1>10 DEF t, CleanupFinishes
  <2>2. role[state.phase] = "commit_cleanup"
    BY <1>10 DEF CleanupFinishes, Invoking
  <2>3. /\ Routes(state, next)
        /\ MovesOn(state, t, next) \/ (Fails(state, next) /\ ~FailedRouteMeansFailure)
    BY <1>2, <2>2, PhaseLoopback
  <2> HIDE DEF next
  <2>4. FinishStep(next, dt) => \E n : Moves(n, dt)
    BY <1>2, <1>3, <2>3, FoldedMove, Zenon DEF t
  <2> QED BY <1>6, <2>1, <2>2, <2>4
<1>11. CASE CommitAgentFinishes(dt)
  BY <1>5, <1>6, <1>11, Zenon
     DEF t, CommitAgentFinishes, Invoking, Effect, determine_effect
<1>12. CASE EarlySkipCommit(dt)
  BY <1>5, <1>12, Zenon DEF t, EarlySkipCommit
<1>13. CASE ExecuteCommit(dt)
  <2> DEFINE next == enter_failed_recovery(state)
             again == route(state, state.phase, t)
  <2>1. \/ FinishStep(handle_commit(state, FALSE, t), dt)
        \/ FinishStep(handle_commit(state, TRUE, t), dt)
        \/ FinishStep(again, dt)
        \/ Fault /\ FinishStep(next, dt)
    BY <1>13, Zenon DEF t, ExecuteCommit, handle_commit_residual
  <2>2. state.phase \in routed(state.phase)
    BY <1>1, PhaseTypes DEF routed
  <2>3. Routes(state, again) /\ MovesOn(state, t, again)
    BY <1>1, <1>2, <2>2, RouteMoves
  <2>4. Routes(state, next) /\ Fails(state, next)
    BY FailedRecovery
  <2> HIDE DEF next, again
  <2>5. Fault /\ FinishStep(next, dt) => \E n : Moves(n, dt)
    BY <1>2, <1>3, <2>4, FoldedMove, Zenon
  <2> QED BY <1>4, <1>5, <2>1, <2>3, <2>5, Zenon
<1> QED BY <1>7, <1>8, <1>9, <1>10, <1>11, <1>12, <1>13, Zenon

LEMMA FailedStep ==
    ASSUME Bounded(state), NEW dt,
           \/ AgentFails(dt) \/ StepCrashes(dt) \/ MissingPlanHandoff(dt)
           \/ ReenterFromFailedRoute(dt)
    PROVE  (\E n : Moves(n, dt)) \/ Stays(dt)
<1>1. Running /\ state.phase # terminal_phase /\ pc # "exited"
  BY Zenon
     DEF AgentFails, StepCrashes, MissingPlanHandoff, ReenterFromFailedRoute, Effect, Running
<1>2. Charged
  BY Zenon DEF AgentFails, StepCrashes, MissingPlanHandoff, ReenterFromFailedRoute, Charged
<1>3. Routes(state, state) /\ Same(state, state) /\ NoCycleStarted(state, state)
  BY KeepsItself DEF Keeps, NoCycleStarted
<1>4. ASSUME NEW next, FinishUnfolded(next, dt), Routes(state, next), Detours(next)
      PROVE  \E n : Moves(n, dt)
  BY <1>1, <1>2, <1>4, Zenon DEF Moves, Routes, KeepsVerdict
<1>5. CASE AgentFails(dt)
  <2> DEFINE t == routing_time(dt)
             r == redirect_expired_cycle_in_place(state, t)
  <2>1. /\ Fault
        /\ \/ expired(state, state.phase, t) /\ FinishStep(r, dt)
           \/ FinishStep(state, dt)
           \/ \E next \in given_up(t) : FinishStep(next, dt)
    BY <1>5, Zenon DEF AgentFails
  <2>2. expired(state, state.phase, t) => Routes(state, r) /\ Redirects(state, t, r)
    BY Redirect
  <2>3. MovesOn(state, t, state)
    BY <1>3, Zenon DEF MovesOn
  <2>4. ASSUME NEW next \in given_up(t)
        PROVE  Routes(state, next) /\ (MovesOn(state, t, next) \/ Fails(state, next))
    <3>1. ASSUME NEW counted \in BOOLEAN,
                 next = apply_execution_cycle_outcome(state, state.phase,
                            enter_phase_failed(state, counted))
          PROVE  Routes(state, next) /\ Fails(state, next)
      <4> DEFINE f == enter_phase_failed(state, counted)
      <4>1. Routes(state, f) /\ Bounded(f) /\ Fails(state, f)
        BY PhaseFailed DEF Routes, Reduces
      <4> HIDE DEF f
      <4>2. Keeps(f, next)
        BY <3>1, <4>1, ChargeKeeps DEF f, Bounded, PipelineState
      <4>3. Routes(state, next)
        BY <4>1, <4>2, Transitive DEF Keeps, Routes
      <4>4. SamePlace(state, state) /\ state.override = state.override /\ Same(f, next)
        BY <1>3, <4>2, Zenon DEF Keeps, Same
      <4> QED BY <4>1, <4>3, <4>4, FailsFromSame, Zenon
    <3>2. \/ next = handle_chain_exhausted(state, t)
          \/ next = enter_failed_recovery(state)
          \/ \E counted \in BOOLEAN :
                next = apply_execution_cycle_outcome(state, state.phase,
                           enter_phase_failed(state, counted))
      BY <2>4, Zenon DEF given_up
    <3> QED BY <1>1, <3>1, <3>2, ChainExhausted, FailedRecovery, Zenon
  <2> HIDE DEF r
  <2>5. CASE expired(state, state.phase, t) /\ FinishStep(r, dt)
    BY <1>1, <1>2, <2>2, <2>5, FoldedMove, Zenon
  <2>6. CASE FinishStep(state, dt)
    BY <1>1, <1>2, <1>3, <2>3, <2>6, FoldedMove, Zenon
  <2>7. ASSUME NEW next \in given_up(t), FinishStep(next, dt) PROVE \E n : Moves(n, dt)
    BY <1>1, <1>2, <2>1, <2>4, <2>7, FoldedMove, Zenon
  <2> HIDE DEF t
  <2> QED BY <2>1, <2>5, <2>6, <2>7, Zenon
<1>6. CASE StepCrashes(dt)
  <2> DEFINE t == routing_time(0)
             r == redirect_expired_cycle_in_place(state, t)
  <2>1. Fault
    BY <1>6 DEF StepCrashes
  <2>2. \/ expired(state, state.phase, t) /\ FinishUnfolded(r, dt)
        \/ FinishUnfolded(state, dt)
        \/ FinishUnfolded(enter_phase_failed(state, FALSE), dt)
        \/ FinishUnfolded(enter_phase_failed(state, TRUE), dt)
        \/ UNCHANGED <<state, ckpt, idle, boxed>> /\ exit' = 1
    BY <1>6, Zenon DEF StepCrashes
  <2>3. expired(state, state.phase, t)
          => Routes(state, r) /\ Redirects(state, t, r) /\ NoCycleStarted(state, r)
    BY Redirect DEF expired, NoCycleStarted
  <2> HIDE DEF r
  <2>4. CASE expired(state, state.phase, t) /\ FinishUnfolded(r, dt)
    BY <1>4, <2>3, <2>4, Zenon DEF Detours
  <2>5. CASE FinishUnfolded(state, dt)
    BY <1>3, <1>4, <2>5, Zenon DEF Detours
  <2>6. ASSUME NEW counted \in BOOLEAN, FinishUnfolded(enter_phase_failed(state, counted), dt)
        PROVE  \E n : Moves(n, dt)
    <3> DEFINE next == enter_phase_failed(state, counted)
    <3>1. Routes(state, next) /\ NoCycleStarted(state, next) /\ Fails(state, next)
      BY PhaseFailed, Zenon
    <3>2. Detours(next) /\ FinishUnfolded(next, dt)
      BY <2>1, <2>6, <3>1, Zenon DEF Detours
    <3> HIDE DEF next
    <3> QED BY <1>4, <3>1, <3>2, Zenon
  <2>7. CASE UNCHANGED <<state, ckpt, idle, boxed>> /\ exit' = 1
    BY <1>1, <1>2, <2>7 DEF Stays
  <2> HIDE DEF t
  <2> QED BY <2>2, <2>4, <2>5, <2>6, <2>7, Zenon
<1>7. CASE MissingPlanHandoff(dt)
  <2> DEFINE next == recover_missing_plan_handoff(state)
  <2>1. FinishUnfolded(next, dt) /\ Fault
    BY <1>7 DEF MissingPlanHandoff
  <2>2. Routes(state, next) /\ NoCycleStarted(state, next) /\ Recovers(state, next)
    BY MissingPlan
  <2> HIDE DEF next
  <2> QED BY <1>4, <2>1, <2>2, Zenon DEF Detours
<1>8. CASE ReenterFromFailedRoute(dt)
  <2> DEFINE next == reenter_from_failed_route(state, routing_time(0))
  <2>1. FinishUnfolded(next, dt)
    BY <1>8 DEF ReenterFromFailedRoute
  <2>2. state.phase = failed_route
    BY <1>8 DEF ReenterFromFailedRoute, Effect, determine_effect
  <2>3. /\ Routes(state, next) /\ Reenters(state, routing_time(0), next)
        /\ state.phase # start_source => NoCycleStarted(state, next)
    BY Reentry
  <2> HIDE DEF next
  <2> QED BY <1>4, <2>1, <2>2, <2>3, Zenon DEF Detours
<1> QED BY <1>5, <1>6, <1>7, <1>8

LEMMA StepMoves ==
    ASSUME Bounded(state), OverrideDeclared(state), NEW dt, Step(dt)
    PROVE  (\E n : Moves(n, dt)) \/ Stays(dt)
<1>1. Sleep(dt) => Stays(dt)
  BY DEF Sleep, Stays, Charged
<1> QED BY <1>1, OrdinaryStep, FailedStep, Zenon DEF Step

-----------------------------------------------------------------------------
(* The inductive invariant *)

LEMMA TypeMeans ==
    TypeOK <=> /\ Bounded(state) /\ Bounded(ckpt)
               /\ pc \in {"step", "sleep", "exited"}
               /\ exit \in {None, 0, 1}
               /\ idle \in 0..duration
               /\ boxed \in BOOLEAN /\ dirty \in BOOLEAN
               /\ faults \in 0..MaxFaults
BY DEF TypeOK, Bounded

\* The checkpoint holds the verdict of the running state, and a cycle the
\* checkpoint times is timed by the running process too, as far at least.
SavedAgrees ==
    /\ ckpt.pending = state.pending
    /\ ckpt.active => state.active /\ ckpt.consumed <= state.consumed

RunInv ==
    /\ TypeOK
    /\ SavedAgrees
    /\ OverrideDeclared(state) /\ OverrideDeclared(ckpt)

\* What a step saves or goes on with, from the state it was reduced to.
Settles(next, s) ==
    Bounded(s) /\ Retimed(next, s) /\ s.active = next.active /\ s.pending = next.pending

LEMMA Moved ==
    ASSUME idle \in 0..duration, NEW dt \in Nat, NEW next, Moves(next, dt)
    PROVE  /\ Settles(next, ckpt') /\ Settles(next, state') /\ Clocked(ckpt', state')
           /\ exit' = exit
           /\ FinishStep(next, dt) => Folded(next, dt, ckpt')
           /\ FinishUnfolded(next, dt) => ckpt' = next
<1>1. Bounded(next)
  BY DEF Moves, Reduces
<1>2. FinishStep(next, dt) => /\ ckpt' = fold_cycle_elapsed(next, dt)
                              /\ state' = with_phase_timing(ckpt', dt) /\ exit' = exit
  BY DEF FinishStep
<1>3. FinishStep(next, dt) => Folded(next, dt, ckpt')
  BY <1>1, <1>2, Fold, Zenon
<1>4. FinishUnfolded(next, dt) => /\ ckpt' = next
                                  /\ state' = with_phase_timing(ckpt', dt) /\ exit' = exit
  BY DEF FinishUnfolded
<1>5. FinishStep(next, dt) \/ FinishUnfolded(next, dt)
  BY Zenon DEF Moves
<1>6. state' = with_phase_timing(ckpt', dt) /\ exit' = exit
  BY <1>2, <1>4, <1>5, Zenon
<1>7. Settles(next, ckpt')
  <2>1. Folded(next, dt, ckpt') => Settles(next, ckpt')
    BY Zenon DEF Folded, Settles
  <2>2. ckpt' = next => Settles(next, ckpt')
    BY <1>1, Zenon DEF Settles, Retimed, SameAccount
  <2> QED BY <1>3, <1>4, <1>5, <2>1, <2>2, Zenon
<1>8. Clocked(ckpt', state')
  BY <1>6, <1>7, PhaseTiming, Zenon DEF Settles
<1>9. Settles(next, state')
  BY <1>7, <1>8 DEF Clocked, Settles, Retimed, Same, SamePlace, SameAccount
<1> QED BY <1>3, <1>4, <1>6, <1>7, <1>8, <1>9, Zenon

\* A resumed process: the checkpoint, or the checkpoint with its timer started.
LEMMA Resumed ==
    ASSUME RunInv, KillAndResume
    PROVE  /\ Bounded(state') /\ Retimed(ckpt, state') /\ state'.pending = state.pending
           /\ ckpt' = ckpt /\ exit' = exit /\ Charged
           /\ state' = ckpt
                \/ /\ ~ckpt.active /\ state'.active /\ state'.consumed = 0
                   /\ ckpt.phase \in InsideCycle \cup {start_entry, guarded_entry}
<1>1. Bounded(ckpt) /\ ckpt.pending = state.pending
  BY TypeMeans DEF RunInv, SavedAgrees
<1>2. state' = initialize_legacy_cycle_on_resume(ckpt) /\ ckpt' = ckpt /\ exit' = exit /\ Charged
  BY DEF KillAndResume, Charged
<1> QED BY <1>1, <1>2, Legacy DEF Routes, Reduces

\* The rest of the process: where the loop is, how it ended, the work tree.
LEMMA ProcessTypes ==
    ASSUME TypeOK, NEW dt \in Nat, Step(dt)
    PROVE  /\ pc' \in {"step", "sleep", "exited"} /\ exit' \in {None, 0, 1}
           /\ idle' \in 0..duration /\ boxed' \in BOOLEAN
           /\ dirty' \in BOOLEAN /\ faults' \in 0..MaxFaults
<1> DEFINE lapse == IF boxed THEN Saturate(idle + dt, duration) ELSE 0
<1> USE DEF Step, ExecutionSucceeds, AnalysisDecides, AnalysisIsExhausted, CleanupFinishes,
            CommitAgentFinishes, EarlySkipCommit, ExecuteCommit, AgentFails, StepCrashes,
            MissingPlanHandoff, ReenterFromFailedRoute, Sleep
<1>1. \/ \E next : FinishStep(next, dt) \/ FinishUnfolded(next, dt)
      \/ UNCHANGED <<idle, boxed>> /\ exit' = 1
      \/ idle' = lapse /\ boxed' = boxed /\ exit' = exit
  BY Zenon
<1>2. pc' = pc \/ pc' \in {"step", "sleep", "exited"}
  BY Zenon
<1>3. faults' = faults \/ Fault
  BY Zenon
<1>4. dirty' = dirty \/ dirty' \in touched \/ dirty' = FALSE
  BY Zenon
<1> HIDE DEF Step, ExecutionSucceeds, AnalysisDecides, AnalysisIsExhausted, CleanupFinishes,
             CommitAgentFinishes, EarlySkipCommit, ExecuteCommit, AgentFails, StepCrashes,
             MissingPlanHandoff, ReenterFromFailedRoute, Sleep
<1>5. /\ exit' = exit \/ exit' = 1
      /\ idle' \in {idle, 0, lapse}
      /\ boxed' = boxed \/ boxed' = TRUE
  BY <1>1, Zenon DEF FinishStep, FinishUnfolded
<1>6. idle' \in 0..duration
  <2>1. idle \in 0..duration /\ duration \in Nat /\ idle + dt \in Nat
    BY TimeboxAssumption DEF TypeOK
  <2>2. Saturate(idle + dt, duration) \in 0..duration
    BY <2>1, SaturateType, Zenon
  <2> QED BY <1>5, <2>1, <2>2
<1>7. faults' \in 0..MaxFaults
  BY <1>3, RunAssumption DEF Fault, TypeOK
<1>8. dirty' \in BOOLEAN
  BY <1>4, Zenon DEF touched, TypeOK
<1>9. pc' \in {"step", "sleep", "exited"} /\ exit' \in {None, 0, 1} /\ boxed' \in BOOLEAN
  BY <1>2, <1>5, Zenon DEF TypeOK
<1> QED BY <1>6, <1>7, <1>8, <1>9

LEMMA InitialPlace ==
    ASSUME Init
    PROVE  /\ RunInv /\ state = InitialState /\ ckpt = InitialState /\ pc = "step"
           /\ exit = None /\ faults = MaxFaults
           /\ InitialState.phase = entry_phase /\ InitialState.previous_phase = None
           /\ InitialState.active = FALSE /\ InitialState.consumed = 0
           /\ InitialState.epoch = 0
<1>1. /\ state = InitialState /\ ckpt = InitialState /\ pc = "step" /\ exit = None
      /\ idle = 0 /\ boxed = FALSE /\ dirty \in BOOLEAN /\ faults = MaxFaults
  BY DEF Init
<1>2. /\ InitialState.phase = entry_phase /\ InitialState.previous_phase = None
      /\ InitialState.active = FALSE /\ InitialState.consumed = 0 /\ InitialState.epoch = 0
      /\ InitialState.pending = None /\ InitialState.override = None
  BY DEF InitialState
<1>3. Bounded(InitialState)
  BY PhaseGraphAssumption, CounterAssumption, TimeboxAssumption
     DEF Bounded, InitialState, PipelineState, references_known_phases
<1>4. /\ idle \in 0..duration /\ faults \in 0..MaxFaults
      /\ pc \in {"step", "sleep", "exited"} /\ exit \in {None, 0, 1}
  BY <1>1, TimeboxAssumption, RunAssumption
<1>5. boxed \in BOOLEAN
  BY <1>1, Zenon
<1>6. TypeOK
  BY <1>1, <1>3, <1>4, <1>5, TypeMeans, ZenonT(60)
<1>7. SavedAgrees /\ OverrideDeclared(state) /\ OverrideDeclared(ckpt)
  BY <1>1, <1>2 DEF SavedAgrees, OverrideDeclared
<1> QED BY <1>1, <1>2, <1>6, <1>7, Zenon DEF RunInv

LEMMA NextMoves ==
    ASSUME RunInv, [Next]_vars
    PROVE  \/ \E dt \in Nat : Step(dt) /\ \E n : Moves(n, dt)
           \/ \E dt \in Nat : Step(dt) /\ Stays(dt)
           \/ ExitSuccess \/ KillAndResume \/ UNCHANGED vars
<1>1. Bounded(state) /\ OverrideDeclared(state)
  BY TypeMeans, Zenon DEF RunInv
<1>2. ASSUME NEW dt \in StepSeconds, Step(dt)
      PROVE  dt \in Nat /\ ((\E n : Moves(n, dt)) \/ Stays(dt))
  <2>1. dt \in Nat
    BY RunAssumption
  <2> QED BY <1>1, <1>2, <2>1, StepMoves, Zenon
<1> QED BY <1>2, Zenon DEF Next, Exited

\* The override a step leaves pending is the old one, none, or a declared one.
LEMMA MoveKeepsOverride ==
    ASSUME OverrideDeclared(state), NEW dt, NEW next, Moves(next, dt)
    PROVE  OverrideDeclared(next)
<1>1. Same(state, next) => next.override = state.override
  BY DEF Same, SameAccount
<1>2. Fails(state, next) => next.override = state.override
  BY DEF Fails, SameAccount
<1>3. Recovers(state, next) => next.override = state.override
  BY DEF Recovers, SameAccount
<1>4. ASSUME NEW t, Redirects(state, t, next) PROVE OverrideDeclared(next)
  BY <1>4 DEF Redirects, OverrideDeclared, SameAccount
<1>5. ASSUME NEW t, Reenters(state, t, next) PROVE OverrideDeclared(next)
  BY <1>5 DEF Reenters, OverrideDeclared, SameAccount
<1>6. ASSUME NEW t, MovesOn(state, t, next) PROVE OverrideDeclared(next)
  BY <1>6 DEF MovesOn, OverrideDeclared, Same, SameAccount
<1>7. next.override = state.override => OverrideDeclared(next)
  BY DEF OverrideDeclared
<1> QED BY <1>1, <1>2, <1>3, <1>4, <1>5, <1>6, <1>7, Zenon DEF Moves, Leads, Detours

LEMMA RunInvNext == RunInv /\ [Next]_vars => RunInv'
<1> SUFFICES ASSUME RunInv, [Next]_vars PROVE RunInv'
  OBVIOUS
<1> DEFINE Agreed == SavedAgrees' /\ OverrideDeclared(state') /\ OverrideDeclared(ckpt')
<1>1. /\ Bounded(state) /\ Bounded(ckpt) /\ TypeOK /\ SavedAgrees
      /\ OverrideDeclared(state) /\ OverrideDeclared(ckpt)
      /\ idle \in 0..duration /\ boxed \in BOOLEAN /\ dirty \in BOOLEAN
      /\ faults \in 0..MaxFaults /\ exit \in {None, 0, 1}
  BY TypeMeans DEF RunInv
<1> DEFINE Typed == /\ pc' \in {"step", "sleep", "exited"} /\ exit' \in {None, 0, 1}
                     /\ idle' \in 0..duration /\ boxed' \in BOOLEAN
                     /\ dirty' \in BOOLEAN /\ faults' \in 0..MaxFaults
<1>2. Bounded(state') /\ Bounded(ckpt') /\ Typed => TypeOK'
  BY DEF TypeOK, Bounded
<1>3. Bounded(state') /\ Bounded(ckpt') /\ Typed /\ Agreed => RunInv'
  BY <1>2, Zenon DEF RunInv, OverrideDeclared
<1>4. ASSUME NEW dt \in Nat, Step(dt) PROVE Typed
  BY <1>1, <1>4, ProcessTypes, Zenon
<1>5. ASSUME NEW dt \in Nat, NEW next, Moves(next, dt)
      PROVE  Bounded(state') /\ Bounded(ckpt') /\ Agreed
  <2>1. Settles(next, ckpt') /\ Settles(next, state') /\ Clocked(ckpt', state')
    BY <1>1, <1>5, Moved, Zenon
  <2>2. OverrideDeclared(next)
    BY <1>1, <1>5, MoveKeepsOverride, Zenon
  <2>3. Bounded(state') /\ Bounded(ckpt') /\ OverrideDeclared(state') /\ OverrideDeclared(ckpt')
    BY <2>1, <2>2, Zenon DEF Settles, Retimed, SameAccount, OverrideDeclared
  <2>4. SavedAgrees'
    <3>1. /\ state'.pending = ckpt'.pending /\ state'.active = ckpt'.active
          /\ state'.consumed = ckpt'.consumed /\ ckpt'.consumed \in Nat
      BY <2>1, <2>3 DEF Clocked, Same, SamePlace, Bounded, PipelineState
    <3> QED BY <3>1 DEF SavedAgrees
  <2> QED BY <2>3, <2>4
<1>6. CASE \E dt \in Nat : Step(dt) /\ \E n : Moves(n, dt)
  BY <1>3, <1>4, <1>5, <1>6, Zenon
<1>7. CASE UNCHANGED <<state, ckpt>> /\ Typed
  <2>1. Bounded(state') /\ Bounded(ckpt') /\ Agreed
    BY <1>1, <1>7 DEF SavedAgrees
  <2> QED BY <1>3, <1>7, <2>1, Zenon
<1>8. CASE \E dt \in Nat : Step(dt) /\ Stays(dt)
  <2>1. UNCHANGED <<state, ckpt>>
    BY <1>8 DEF Stays
  <2> QED BY <1>4, <1>7, <1>8, <2>1, Zenon
<1>9. CASE ExitSuccess
  BY <1>1, <1>7, <1>9 DEF ExitSuccess
<1>10. CASE UNCHANGED vars
  BY <1>1, <1>7, <1>10, TypeMeans DEF vars, RunInv
<1>11. CASE KillAndResume
  <2>1. /\ Bounded(state') /\ Retimed(ckpt, state') /\ state'.pending = state.pending
        /\ ckpt' = ckpt /\ exit' = exit
        /\ state' = ckpt \/ ~ckpt.active
    BY <1>11, Resumed, Zenon
  <2>2. Bounded(ckpt') /\ OverrideDeclared(state') /\ OverrideDeclared(ckpt')
    BY <1>1, <2>1, ZenonT(60) DEF Retimed, SameAccount, OverrideDeclared
  <2>3. SavedAgrees'
    BY <1>1, <2>1 DEF SavedAgrees, Bounded, PipelineState
  <2>4. pc' = "step" /\ idle' = 0 /\ boxed' = FALSE /\ dirty' \in touched /\ Fault
    BY <1>11 DEF KillAndResume
  <2>5. dirty' \in BOOLEAN /\ boxed' \in BOOLEAN
    BY <1>1, <2>4, Zenon DEF touched
  <2>6. idle' \in 0..duration /\ faults' \in 0..MaxFaults
    BY <1>1, <2>4, TimeboxAssumption, RunAssumption DEF Fault
  <2> QED BY <1>1, <1>3, <2>1, <2>2, <2>3, <2>4, <2>5, <2>6, Zenon
<1> QED BY <1>6, <1>8, <1>9, <1>10, <1>11, NextMoves, Zenon

LEMMA RunInvariant == Spec => []RunInv
<1>1. Init => RunInv
  BY InitialPlace, Zenon
<1> QED BY <1>1, RunInvNext, PTL DEF Spec

\* Type correctness, and with it the bounds: whatever the policy, no loop counter
\* passes its cap, no cycle clock its duration, in the running state or on disk.
THEOREM RunTypeCorrect == Spec => []TypeOK
<1>1. RunInv => TypeOK
  BY Zenon DEF RunInv
<1> QED BY <1>1, RunInvariant, PTL

\* In every phase graph the validators accept, a recorded verdict is replaced only
\* by a further analysis and consumed only by a commit that closes the cycle.
THEOREM VerdictIsKept == Spec => VerdictKept
<1> DEFINE Kept == state.pending # None /\ state'.pending # state.pending
                     => Invoking("analysis") \/ commit_closes_a_cycle(state.phase)
<1>1. ASSUME RunInv, [Next]_vars PROVE Kept
  <2>1. ASSUME NEW dt \in Nat, NEW next, Moves(next, dt) PROVE Kept
    <3>1. state'.pending = next.pending
      BY <1>1, <2>1, Moved, TypeMeans, Zenon DEF RunInv, Settles
    <3>2. KeepsVerdict(next)
      BY <2>1, Zenon DEF Moves
    <3> QED BY <3>1, <3>2, Zenon DEF KeepsVerdict, VerdictStays
  <2>2. KillAndResume => Kept
    BY <1>1, Resumed, Zenon
  <2>3. state' = state => Kept
    OBVIOUS
  <2>4. (\E dt \in Nat : Stays(dt)) \/ ExitSuccess \/ UNCHANGED vars => state' = state
    BY DEF Stays, ExitSuccess, vars
  <2> QED BY <1>1, <2>1, <2>2, <2>3, <2>4, NextMoves, Zenon
<1>2. RunInv /\ [Next]_vars => [Kept]_vars
  BY <1>1, Zenon
<1> QED BY <1>2, RunInvariant, PTL DEF Spec, VerdictKept
=============================================================================
