------------------------ MODULE PipelineCycleProofs -------------------------
(***************************************************************************)
(* The cycle timer, the deadline and the exit code: what the phase graph   *)
(* has to satisfy for them to mean what they say, and that it is enough.   *)
(***************************************************************************)
EXTENDS PipelineProofs

\* Where a step that reaches its end may lead, whatever the clock showed.
Outcome(next) ==
    \/ Same(state, next)
    \/ Fails(state, next) /\ (FailedRouteMeansFailure => Fault)
    \/ \E t : \E target \in routed(state.phase) :
          /\ Routed(state, target, t, next)
          /\ SuccessIsRouted /\ target = terminal_phase => BudgetSpent(next)
    \/ \E t : Redirects(state, t, next)
    \/ Recovers(state, next) /\ Fault
    \/ state.phase = failed_route /\ \E t : Reenters(state, t, next)

LEMMA MoveOutcome ==
    ASSUME NEW dt, NEW next, Moves(next, dt)
    PROVE  Outcome(next)
<1>1. ASSUME NEW t, MovesOn(state, t, next) PROVE Outcome(next)
  BY <1>1, Zenon DEF MovesOn, Outcome
<1>2. ASSUME NEW t, Leads(t, next) PROVE Outcome(next)
  BY <1>1, <1>2, Zenon DEF Leads, Outcome
<1>3. Detours(next) => Outcome(next)
  BY Zenon DEF Detours, Outcome
<1> QED BY <1>2, <1>3, Zenon DEF Moves

-----------------------------------------------------------------------------
(* The timer runs inside the cycle *)

\* A timer that runs outside the cycle belongs to a failure inside it: the failed
\* route remembers a phase that is not outside, or the detour's own phases.
DetourOnly(s) ==
    /\ s.active /\ s.phase \in OutsideCycle
         => \/ s.phase = failed_route
            \/ s.phase = entry_phase /\ s.previous_phase \in {failed_route, entry_phase}
    /\ s.active /\ s.phase = failed_route
         => s.previous_phase # None /\ s.previous_phase \notin OutsideCycle \ {failed_route, entry_phase}

TimerInv == RunInv /\ DetourOnly(state) /\ DetourOnly(ckpt)

LEMMA MoveKeepsDetour ==
    ASSUME CycleEntriesRun, Bounded(state), DetourOnly(state), NEW dt, NEW next, Moves(next, dt)
    PROVE  DetourOnly(next)
<1>1. failed_route \in OutsideCycle /\ state.phase \in Phases /\ None \notin Phases
  BY PhaseTypes DEF OutsideCycle, Bounded, PipelineState
<1>2. start_entry \notin OutsideCycle /\ guarded_entry \notin OutsideCycle
  BY CycleEntries DEF InsideCycle
<1>3. CASE Same(state, next)
  BY <1>3, Zenon DEF Same, SamePlace, DetourOnly
<1>4. CASE Fails(state, next)
  BY <1>1, <1>4 DEF Fails, DetourOnly
<1>5. ASSUME next.active => next.phase \notin OutsideCycle PROVE DetourOnly(next)
  BY <1>1, <1>5, Zenon DEF DetourOnly
<1>6. ASSUME NEW s, NEW target, NEW t, Routed(s, target, t, next) PROVE DetourOnly(next)
  BY <1>5, <1>6, Zenon DEF Routed
<1>7. ASSUME NEW t, Redirects(state, t, next) PROVE DetourOnly(next)
  BY <1>6, <1>7, Zenon DEF Redirects
<1>8. CASE Recovers(state, next)
  BY <1>5, <1>8, Zenon DEF Recovers
<1>9. ASSUME state.phase = failed_route, NEW t, Reenters(state, t, next) PROVE DetourOnly(next)
  <2>1. PICK d : /\ next.phase = d.target /\ next.active = d.state.active
                 /\ TimerActs(state, reentered(state), t, d)
    BY <1>9, Zenon DEF Reenters
  <2>2. next.previous_phase = state.previous_phase
    BY <1>9, Zenon DEF Reenters
  <2>3. CASE TimerStops(state, reentered(state), d) \/ TimerRedirects(state, reentered(state), d)
    BY <1>5, <2>1, <2>3, Zenon DEF TimerStops, TimerRedirects
  <2>4. CASE TimerStarts(state, reentered(state), d)
    <3>1. next.phase = start_entry
      BY <2>1, <2>4, Zenon DEF TimerStarts, StartEdge
    <3> QED BY <1>2, <1>5, <3>1, Zenon
  <2>5. CASE TimerKeeps(state, reentered(state), t, d)
    <3>1. next.phase = reentered(state) /\ next.active = state.active
      BY <2>1, <2>5, Zenon DEF TimerKeeps, Same, SamePlace
    <3> QED BY <1>1, <1>9, <2>2, <3>1 DEF DetourOnly, reentered
  <2> QED BY <2>1, <2>3, <2>4, <2>5, Zenon DEF TimerActs
<1>10. Outcome(next)
  BY MoveOutcome, Zenon
<1> QED BY <1>3, <1>4, <1>6, <1>7, <1>8, <1>9, <1>10, Zenon DEF Outcome

LEMMA TimerInvNext ==
    ASSUME CycleEntriesRun
    PROVE  TimerInv /\ [Next]_vars => TimerInv'
<1> SUFFICES ASSUME TimerInv, [Next]_vars PROVE TimerInv'
  OBVIOUS
<1>1. RunInv' /\ RunInv /\ DetourOnly(state) /\ DetourOnly(ckpt)
  BY RunInvNext, Zenon DEF TimerInv
<1>2. Bounded(state) /\ Bounded(ckpt) /\ idle \in 0..duration
  BY <1>1, TypeMeans, Zenon DEF RunInv
<1>3. DetourOnly(state') /\ DetourOnly(ckpt') => TimerInv'
  BY <1>1, Zenon DEF TimerInv, DetourOnly
<1>4. ASSUME NEW dt \in Nat, NEW next, Moves(next, dt)
      PROVE  DetourOnly(state') /\ DetourOnly(ckpt')
  <2>1. DetourOnly(next)
    BY <1>1, <1>2, <1>4, MoveKeepsDetour, Zenon
  <2>2. Settles(next, ckpt') /\ Settles(next, state')
    BY <1>2, <1>4, Moved, Zenon
  <2> QED BY <2>1, <2>2, Zenon DEF Settles, Retimed, DetourOnly
<1>5. state' = state /\ ckpt' = ckpt => DetourOnly(state') /\ DetourOnly(ckpt')
  BY <1>1
<1>6. CASE KillAndResume
  <2>1. /\ Retimed(ckpt, state') /\ ckpt' = ckpt
        /\ state' = ckpt \/ ckpt.phase \in InsideCycle \cup {start_entry, guarded_entry}
    BY <1>1, <1>6, Resumed, Zenon
  <2>2. /\ {start_entry, guarded_entry} \subseteq InsideCycle /\ failed_route \notin InsideCycle
    BY CycleEntries, Zenon
  <2>3. CASE ckpt.phase \in InsideCycle
    <3>1. state'.phase \notin OutsideCycle /\ state'.phase # failed_route
      BY <2>1, <2>2, <2>3, Zenon DEF Retimed, InsideCycle
    <3> QED BY <1>1, <1>3, <2>1, <3>1, Zenon DEF DetourOnly
  <2> QED BY <1>1, <1>3, <2>1, <2>2, <2>3
<1>7. (\E dt \in Nat : Stays(dt)) \/ ExitSuccess \/ UNCHANGED vars => state' = state /\ ckpt' = ckpt
  BY DEF Stays, ExitSuccess, vars
<1> QED BY <1>1, <1>3, <1>4, <1>5, <1>6, <1>7, NextMoves, Zenon

\* In every accepted phase graph whose cycle entries are not terminal phases, the
\* timer of a cycle runs outside it only at the failed route and in the entry phase
\* a failure there falls back to: no route, bypass, redirect, missing plan or
\* resume leaves it running anywhere else.
THEOREM TimerRunsInsideCycle ==
    ASSUME CycleEntriesRun
    PROVE  Spec => []TimerInsideCycle
<1>1. Init => TimerInv
  BY InitialPlace, Zenon DEF TimerInv, DetourOnly
<1>2. TimerInv => TimerInsideCycle
  BY Zenon DEF TimerInv, DetourOnly, TimerInsideCycle, OutsideCycle
<1> QED BY <1>1, <1>2, TimerInvNext, PTL DEF Spec

-----------------------------------------------------------------------------
(* Exit code 0 means that the budget is spent *)

\* The run is at the terminal phase with its budget spent or not at all, and no
\* recovery hop leads back to it.
Earned(s) ==
    /\ s.phase = terminal_phase => BudgetSpent(s)
    /\ s.previous_phase # terminal_phase

AccountInv ==
    /\ RunInv
    /\ Earned(state) /\ Earned(ckpt)
    /\ exit = 0 => pc = "exited" /\ state.phase = terminal_phase

LEMMA MoveKeepsEarned ==
    ASSUME SuccessIsRouted, Earned(state), NEW dt, NEW next, Moves(next, dt)
    PROVE  Earned(next)
<1>1. state.phase # terminal_phase
  BY Zenon DEF Moves, Running
<1>2. /\ terminal_phase # entry_phase /\ terminal_phase # failed_route
      /\ terminal_phase # finalization_target
  BY Zenon DEF SuccessIsRouted
<1>3. CASE Same(state, next)
  BY <1>3, Zenon DEF Same, SamePlace, SameAccount, Earned, BudgetSpent
<1>4. CASE Fails(state, next)
  BY <1>1, <1>2, <1>4, Zenon DEF Fails, Earned
<1>5. ASSUME NEW target, NEW t, Routed(state, target, t, next),
             target = terminal_phase => BudgetSpent(next)
      PROVE  Earned(next)
  BY <1>1, <1>5, Zenon DEF Routed, Earned
<1>6. ASSUME NEW t, Redirects(state, t, next) PROVE Earned(next)
  <2>1. PICK w, x : /\ Retimed(state, w) /\ Routed(w, x, t, next)
                    /\ x = finalization_target \/ x = state.phase
    BY <1>6, Zenon DEF Redirects
  <2>2. next.previous_phase = state.phase /\ next.phase # terminal_phase
    BY <1>1, <1>2, <2>1, Zenon DEF Retimed, Routed
  <2> QED BY <1>1, <2>2, Zenon DEF Earned
<1>7. CASE Recovers(state, next)
  BY <1>1, <1>2, <1>7, Zenon DEF Recovers, Earned
<1>8. ASSUME NEW t, Reenters(state, t, next) PROVE Earned(next)
  <2>1. PICK d : next.phase = d.target /\ TimerActs(state, reentered(state), t, d)
    BY <1>8, Zenon DEF Reenters
  <2>2. next.previous_phase = state.previous_phase
    BY <1>8, Zenon DEF Reenters
  <2>3. d.target \in {reentered(state), finalization_target}
    BY <2>1, Zenon DEF TimerActs, TimerStops, TimerStarts, TimerRedirects, TimerKeeps
  <2>4. reentered(state) # terminal_phase
    BY <1>2, Zenon DEF reentered, Earned
  <2>5. next.phase # terminal_phase
    BY <1>2, <2>1, <2>3, <2>4, Zenon
  <2> QED BY <2>2, <2>5, Zenon DEF Earned
<1>9. Outcome(next)
  BY MoveOutcome, Zenon
<1> QED BY <1>3, <1>4, <1>5, <1>6, <1>7, <1>8, <1>9, Zenon DEF Outcome

LEMMA AccountInvNext ==
    ASSUME SuccessIsRouted
    PROVE  AccountInv /\ [Next]_vars => AccountInv'
<1> SUFFICES ASSUME AccountInv, [Next]_vars PROVE AccountInv'
  OBVIOUS
<1>1. RunInv' /\ RunInv /\ Earned(state) /\ Earned(ckpt)
  BY RunInvNext, Zenon DEF AccountInv
<1>2. idle \in 0..duration
  BY <1>1, TypeMeans, Zenon DEF RunInv
<1>3. pc # "exited" => exit # 0
  BY Zenon DEF AccountInv
<1>4. /\ Earned(state') /\ Earned(ckpt')
      /\ exit' = 0 => pc' = "exited" /\ state'.phase = terminal_phase
      => AccountInv'
  BY <1>1, Zenon DEF AccountInv, Earned, BudgetSpent
<1>5. ASSUME NEW s, NEW u, Retimed(s, u), Earned(s) PROVE Earned(u)
  BY <1>5, Zenon DEF Retimed, SameAccount, Earned, BudgetSpent
<1>6. ASSUME NEW dt \in Nat, NEW next, Moves(next, dt) PROVE AccountInv'
  <2>1. Earned(next)
    BY <1>1, <1>6, MoveKeepsEarned, Zenon
  <2>2. Settles(next, ckpt') /\ Settles(next, state') /\ exit' = exit
    BY <1>2, <1>6, Moved, Zenon
  <2>3. Retimed(next, ckpt') /\ Retimed(next, state')
    BY <2>2, Zenon DEF Settles
  <2>4. pc # "exited"
    BY <1>6 DEF Moves, Running
  <2> QED BY <1>3, <1>4, <1>5, <2>1, <2>2, <2>3, <2>4, Zenon
<1>7. ASSUME state' = state, ckpt' = ckpt,
             exit' = 0 => pc' = "exited" /\ state'.phase = terminal_phase
      PROVE  AccountInv'
  BY <1>1, <1>4, <1>7
<1>8. ASSUME NEW dt \in Nat, Stays(dt) PROVE AccountInv'
  <2>1. state' = state /\ ckpt' = ckpt /\ pc # "exited" /\ exit' \in {exit, 1}
    BY <1>8, Zenon DEF Stays
  <2>2. exit' # 0
    BY <1>3, <2>1
  <2> QED BY <1>7, <2>1, <2>2, Zenon
<1>9. CASE ExitSuccess
  BY <1>7, <1>9 DEF ExitSuccess
<1>10. CASE KillAndResume
  <2>1. Retimed(ckpt, state') /\ ckpt' = ckpt /\ exit' = exit
    BY <1>1, <1>10, Resumed, Zenon
  <2>2. exit' # 0
    BY <1>3, <1>10, <2>1, Zenon DEF KillAndResume
  <2>3. Earned(ckpt')
    BY <1>1, <2>1
  <2> QED BY <1>1, <1>4, <1>5, <2>1, <2>2, <2>3, Zenon
<1>11. CASE UNCHANGED vars
  BY <1>7, <1>11 DEF vars, AccountInv
<1> QED BY <1>1, <1>6, <1>8, <1>9, <1>10, <1>11, NextMoves, Zenon

\* In every phase graph whose terminal phase is reached only by the post-commit
\* routes of a spent budget, a run that exits with 0 has closed every declared
\* iteration with a final commit, whatever failed, crashed or was resumed.
THEOREM SuccessSpendsTheBudget ==
    ASSUME SuccessIsRouted
    PROVE  Spec => []SuccessMeansBudgetSpent
<1>1. Init => AccountInv
  <2>1. None # 0 /\ None # terminal_phase /\ entry_phase # terminal_phase
    BY PhaseTypes, RunAssumption DEF SuccessIsRouted
  <2> QED BY <2>1, InitialPlace, Zenon DEF AccountInv, Earned
<1>2. AccountInv => SuccessMeansBudgetSpent
  BY Zenon DEF AccountInv, Earned, BudgetSpent, SuccessMeansBudgetSpent
<1> QED BY <1>1, <1>2, AccountInvNext, PTL DEF Spec

-----------------------------------------------------------------------------
(* A run inside the cycle is being timed *)

\* The failed route remembers whether the phase that failed was being timed.
Timed(s) ==
    /\ s.phase \in InsideCycle => s.active
    /\ s.phase = failed_route /\ s.previous_phase \in InsideCycle => s.active

\* The recovery epoch counts the faults met since the last route, and the
\* checkpoint is the running state but for the gate seconds.
GuardInv ==
    /\ RunInv
    /\ state = [ckpt EXCEPT !.worked = state.worked]
    /\ Timed(state)
    /\ state.epoch + faults <= MaxFaults

\* The phases of the cycle's boundary, one by one.
LEMMA OneEntry ==
    ASSUME CycleHasOneEntry
    PROVE  /\ guarded_entry \in InsideCycle /\ start_entry \in InsideCycle
           /\ entry_phase \notin InsideCycle /\ failed_route \notin InsideCycle
           /\ end_entry \notin InsideCycle /\ finalization_target \notin InsideCycle
<1>1. CycleEntriesRun
  BY Zenon DEF CycleHasOneEntry
<1> QED BY <1>1, CycleEntries

\* The hop out of the failed route finds a timer that runs if it needs one.
LEMMA ReentryIsTimedWhenKept ==
    ASSUME CycleHasOneEntry, FailedRouteMeansFailure, Timed(state), state.phase = failed_route
    PROVE  /\ reentered(state) # failed_route
           /\ reentered(state) \in InsideCycle => state.active
<1>1. failed_route # entry_phase
  BY Zenon DEF FailedRouteMeansFailure
<1> QED BY <1>1, OneEntry, Zenon DEF Timed, reentered

LEMMA MoveKeepsTimed ==
    ASSUME CycleHasOneEntry, FailedRouteMeansFailure, MaxFaults <= cycle_cap,
           TypeOK, Timed(state), state.epoch + faults <= MaxFaults,
           NEW dt, NEW next, Moves(next, dt)
    PROVE  Timed(next) /\ next.epoch + faults' <= MaxFaults
<1>1. /\ state.phase \in Phases /\ state.epoch \in Nat
      /\ faults \in 0..MaxFaults /\ MaxFaults \in Nat /\ cycle_cap \in Nat
  BY TypeMeans, RunAssumption, CounterAssumption DEF Bounded, PipelineState
<1>2. /\ faults' \in Nat /\ faults' <= faults
      /\ Fault => faults \in Nat /\ faults >= 1 /\ faults' + 1 = faults
  BY <1>1 DEF Moves, Charged, Fault
<1>3. next.epoch \in Nat
  BY DEF Moves, Reduces, Bounded, PipelineState
<1>4. failed_route # entry_phase /\ failed_route # finalization_target
  BY Zenon DEF FailedRouteMeansFailure
<1> DEFINE Counted == next.epoch <= state.epoch \/ (Fault /\ next.epoch <= state.epoch + 1)
<1>5. Counted => next.epoch + faults' <= MaxFaults
  <2> DEFINE n == next.epoch
             e == state.epoch
             g == faults'
  <2>1. n \in Nat /\ e \in Nat /\ g \in Nat /\ faults \in Nat /\ e + faults <= MaxFaults
    BY <1>1, <1>2, <1>3
  <2>2. Counted => (n <= e /\ g <= faults) \/ (n <= e + 1 /\ g + 1 = faults)
    BY <1>2, Zenon
  <2> HIDE DEF n, e, g
  <2>3. (n <= e /\ g <= faults) \/ (n <= e + 1 /\ g + 1 = faults) => n + g <= MaxFaults
    BY <1>1, <2>1
  <2> QED BY <2>2, <2>3, Zenon DEF n, g
<1>6. next.epoch = 0 => Counted
  BY <1>1
<1>7. next.epoch = state.epoch => Counted
  BY <1>1
<1>8. CASE Same(state, next)
  <2>1. Timed(next) /\ next.epoch = state.epoch
    BY <1>8, Zenon DEF Same, SamePlace, Timed
  <2> QED BY <1>5, <1>7, <2>1, Zenon
<1>9. CASE Fails(state, next) /\ Fault
  <2>1. next.epoch <= state.epoch + 1
    BY <1>9, Zenon DEF Fails
  <2>2. Timed(next)
    BY <1>9, OneEntry, Zenon DEF Fails, Timed
  <2> QED BY <1>5, <1>9, <2>1, <2>2, Zenon
<1>10. ASSUME NEW target \in routed(state.phase), NEW t, Routed(state, target, t, next)
       PROVE  Timed(next) /\ Counted
  <2>1. Enters(state, target)
    BY <1>1, Zenon DEF CycleHasOneEntry, Enters, StartEdge, Timed
  <2>2. next.phase \in InsideCycle => next.active
    BY <1>10, <2>1, Zenon DEF Routed
  <2>3. state.phase \in InsideCycle => next.phase # failed_route
    BY <1>1, <1>10, Zenon DEF Routed, FailedRouteMeansFailure
  <2>4. next.previous_phase = state.phase /\ next.epoch = 0
    BY <1>10, Zenon DEF Routed
  <2>5. Timed(next)
    BY <2>2, <2>3, <2>4, Zenon DEF Timed
  <2> QED BY <1>6, <2>4, <2>5, Zenon
<1>11. ASSUME NEW t, Redirects(state, t, next) PROVE Timed(next) /\ Counted
  <2>1. PICK w, x : Routed(w, x, t, next) /\ (x = finalization_target \/ x = end_entry)
                    /\ (x = finalization_target \/ x = guarded_entry)
    BY <1>11, Zenon DEF Redirects
  <2>2. x = finalization_target /\ Enters(w, x)
    BY <2>1, OneEntry, Zenon DEF Enters
  <2>3. /\ next.phase \in InsideCycle => next.active
        /\ next.phase # failed_route /\ next.epoch = 0
    BY <1>4, <2>1, <2>2, Zenon DEF Routed
  <2> QED BY <1>6, <2>3, Zenon DEF Timed
<1>12. CASE Recovers(state, next) /\ Fault
  <2>1. ~(state.epoch >= cycle_cap)
    BY <1>1, <1>2, <1>12
  <2>2. next.phase = entry_phase /\ next.epoch <= state.epoch + 1
    BY <1>12, <2>1, Zenon DEF Recovers
  <2>3. Timed(next)
    BY <1>4, <2>2, OneEntry, Zenon DEF Timed
  <2> QED BY <1>5, <1>12, <2>2, <2>3, Zenon
<1>13. ASSUME state.phase = failed_route, NEW t, Reenters(state, t, next)
       PROVE  Timed(next) /\ Counted
  <2>1. PICK d : /\ next.phase = d.target /\ next.active = d.state.active
                 /\ TimerActs(state, reentered(state), t, d)
    BY <1>13, Zenon DEF Reenters
  <2>2. /\ reentered(state) # failed_route
        /\ reentered(state) \in InsideCycle => state.active
    BY <1>13, ReentryIsTimedWhenKept, Zenon
  <2>3. d.target # failed_route /\ (d.target \in InsideCycle => d.state.active)
    BY <1>4, <2>1, <2>2, OneEntry, Zenon
       DEF TimerActs, TimerStops, TimerStarts, TimerRedirects, TimerKeeps, Same, SamePlace
  <2>4. Timed(next)
    BY <2>1, <2>3, Zenon DEF Timed
  <2>5. next.epoch = state.epoch
    BY <1>13, Zenon DEF Reenters
  <2> QED BY <1>7, <2>4, <2>5, Zenon
<1>14. Outcome(next)
  BY MoveOutcome, Zenon
<1> QED BY <1>5, <1>8, <1>9, <1>10, <1>11, <1>12, <1>13, <1>14, Zenon DEF Outcome

\* A checkpoint this code wrote resumes as it is: the migration of legacy
\* checkpoints only touches one that is inside the cycle without a timer.
LEMMA ResumesTheSame ==
    ASSUME CycleHasOneEntry, GuardInv
    PROVE  /\ initialize_legacy_cycle_on_resume(ckpt) = ckpt
           /\ Same(ckpt, state) /\ Timed(ckpt)
<1>1. ckpt \in PipelineState /\ state = [ckpt EXCEPT !.worked = state.worked]
  BY DEF GuardInv, RunInv, TypeOK
<1>2. Same(ckpt, state)
  <2> DEFINE n == state.worked
  <2>1. state = [ckpt EXCEPT !.worked = n]
    BY <1>1
  <2> HIDE DEF n
  <2> QED BY <1>1, <2>1 DEF Same, SamePlace, SameAccount, PipelineState
<1>3. Timed(ckpt)
  BY <1>2, Zenon DEF Same, SamePlace, Timed, GuardInv
<1>4. Bounded(ckpt)
  BY TypeMeans, Zenon DEF GuardInv, RunInv
<1> DEFINE u == initialize_legacy_cycle_on_resume(ckpt)
<1> HIDE DEF u
<1>5. \/ u = ckpt
      \/ ~ckpt.active /\ (ckpt.phase \in InsideCycle \/ ckpt.phase \in {start_entry, guarded_entry})
  <2>1. u = initialize_legacy_cycle_on_resume(ckpt)
    BY Zenon DEF u
  <2> QED BY <1>4, <2>1, Legacy, Zenon
<1>6. u = ckpt
  BY <1>3, <1>5, OneEntry, Zenon DEF Timed
<1> QED BY <1>2, <1>3, <1>6 DEF u

LEMMA GuardInvNext ==
    ASSUME CycleHasOneEntry, FailedRouteMeansFailure, MaxFaults <= cycle_cap
    PROVE  GuardInv /\ [Next]_vars => GuardInv'
<1> SUFFICES ASSUME GuardInv, [Next]_vars PROVE GuardInv'
  OBVIOUS
<1>1. /\ RunInv' /\ RunInv /\ TypeOK /\ Timed(state)
      /\ state.epoch + faults <= MaxFaults /\ state = [ckpt EXCEPT !.worked = state.worked]
  BY RunInvNext, Zenon DEF GuardInv, RunInv
<1>2. /\ state.epoch \in Nat /\ faults \in 0..MaxFaults /\ MaxFaults \in Nat
      /\ ckpt \in PipelineState /\ idle \in 0..duration
  BY <1>1, RunAssumption DEF TypeOK, PipelineState
<1>3. /\ state' = [ckpt' EXCEPT !.worked = state'.worked] /\ Timed(state')
      /\ state'.epoch + faults' <= MaxFaults
      => GuardInv'
  BY <1>1, Zenon DEF GuardInv, Timed
<1>4. ASSUME NEW dt \in Nat, NEW next, Moves(next, dt) PROVE GuardInv'
  <2>1. Timed(next) /\ next.epoch + faults' <= MaxFaults
    BY <1>1, <1>4, MoveKeepsTimed, Zenon
  <2>2. Settles(next, state') /\ Clocked(ckpt', state')
    BY <1>2, <1>4, Moved, Zenon
  <2>3. state' = [ckpt' EXCEPT !.worked = state'.worked]
    BY <2>2, Zenon DEF Clocked
  <2>4. Timed(state') /\ state'.epoch = next.epoch
    BY <2>1, <2>2, Zenon DEF Settles, Retimed, Timed
  <2> QED BY <1>3, <2>1, <2>3, <2>4, Zenon
<1>5. ASSUME state'.epoch = state.epoch, Charged PROVE state'.epoch + faults' <= MaxFaults
  <2>1. faults' <= faults /\ faults' \in Nat
    BY <1>2, <1>5 DEF Charged, Fault
  <2> QED BY <1>1, <1>2, <1>5, <2>1
<1>6. ASSUME state' = state, ckpt' = ckpt, Charged PROVE GuardInv'
  <2>1. state'.epoch + faults' <= MaxFaults
    BY <1>5, <1>6
  <2> QED BY <1>1, <1>3, <1>6, <2>1
<1>7. CASE KillAndResume
  <2>1. state' = ckpt /\ ckpt' = ckpt /\ Charged
    BY <1>7, ResumesTheSame DEF KillAndResume, Charged
  <2>2. Timed(state') /\ state'.epoch = state.epoch
    BY <2>1, ResumesTheSame, Zenon DEF Same, SamePlace
  <2>3. state' = [ckpt' EXCEPT !.worked = state'.worked]
    BY <1>2, <2>1 DEF PipelineState
  <2> QED BY <1>3, <1>5, <2>1, <2>2, <2>3, Zenon
<1>8. ASSUME NEW dt \in Nat, Stays(dt) PROVE GuardInv'
  BY <1>6, <1>8 DEF Stays
<1>9. ExitSuccess \/ UNCHANGED vars => GuardInv'
  BY <1>6 DEF ExitSuccess, vars, Charged
<1> QED BY <1>1, <1>4, <1>7, <1>8, <1>9, NextMoves, Zenon

LEMMA GuardInvariant ==
    ASSUME CycleHasOneEntry, FailedRouteMeansFailure, MaxFaults <= cycle_cap
    PROVE  Spec => []GuardInv
<1>1. ASSUME Init PROVE GuardInv
  <2>1. /\ RunInv /\ state = InitialState /\ ckpt = InitialState
        /\ InitialState.phase = entry_phase /\ InitialState.epoch = 0 /\ faults = MaxFaults
    BY <1>1, InitialPlace, Zenon
  <2>2. Timed(state)
    BY <2>1, OneEntry, Zenon DEF Timed, FailedRouteMeansFailure
  <2>3. state = [ckpt EXCEPT !.worked = state.worked]
    BY <2>1 DEF RunInv, TypeOK, PipelineState
  <2>4. state.epoch + faults <= MaxFaults
    BY <2>1, RunAssumption
  <2> QED BY <2>1, <2>2, <2>3, <2>4, Zenon DEF GuardInv
<1> QED BY <1>1, GuardInvNext, PTL DEF Spec

\* In every phase graph with one way into the cycle, and whose phases reach the
\* failed route by failing only, a run that meets no more faults than cycle_cap is
\* being timed whenever it is at the guarded phase, whichever decision, bypass,
\* recovery hop or resume led there.
THEOREM GuardedPhaseIsAlwaysTimed ==
    ASSUME CycleHasOneEntry, FailedRouteMeansFailure, MaxFaults <= cycle_cap
    PROVE  Spec => []GuardedPhaseIsTimed
<1>1. GuardInv => GuardedPhaseIsTimed
  BY OneEntry, Zenon DEF GuardInv, Timed, GuardedPhaseIsTimed
<1> QED BY <1>1, GuardInvariant, PTL

\* Under the same hypotheses a killed process resumes with the state it had, but for
\* the gate seconds: every path saves what it goes on with, and the migration of
\* legacy checkpoints leaves the checkpoints of this code alone.
THEOREM ResumeRestores ==
    ASSUME CycleHasOneEntry, FailedRouteMeansFailure, MaxFaults <= cycle_cap
    PROVE  Spec => []ResumeRestoresTheRun
<1>1. ASSUME GuardInv PROVE ResumeRestoresTheRun
  <2>1. initialize_legacy_cycle_on_resume(ckpt) = ckpt
    BY <1>1, ResumesTheSame, Zenon
  <2>2. state = [ckpt EXCEPT !.worked = state.worked]
    BY <1>1, Zenon DEF GuardInv
  <2> QED BY <2>1, <2>2 DEF ResumeRestoresTheRun
<1>2. GuardInv => ResumeRestoresTheRun
  BY <1>1, Zenon
<1> QED BY <1>2, GuardInvariant, PTL

LEMMA EntryInTime ==
    ASSUME CycleHasOneEntry, FailedRouteMeansFailure, TypeOK, Timed(state),
           NEW dt \in Nat, NEW next, Moves(next, dt),
           next.phase = guarded_entry, next.active, state.phase # guarded_entry
    PROVE  state'.consumed < duration
<1>1. /\ Bounded(state) /\ duration \in Nat \ {0} /\ state.consumed \in Nat
      /\ sampled_delta(dt) \in Nat /\ sampled_delta(0) \in Nat /\ Bounded(next)
  BY TypeMeans, TimeboxAssumption, SampleType DEF Bounded, PipelineState, Moves, Reduces
<1>2. /\ state'.consumed = ckpt'.consumed
      /\ FinishStep(next, dt) => Folded(next, dt, ckpt')
      /\ FinishUnfolded(next, dt) => ckpt' = next
  BY Moved, TypeMeans, Zenon DEF Clocked, Same, SamePlace
<1>3. ASSUME NEW t \in {routing_time(0), routing_time(dt)}, state.active,
             ~expired(state, guarded_entry, t)
      PROVE  t < duration /\ state.consumed < duration
  <2>1. t \in 0..duration
    <3>1. state.consumed + sampled_delta(0) \in Nat /\ state.consumed + sampled_delta(dt) \in Nat
      BY <1>1
    <3>2. routing_time(0) \in 0..duration /\ routing_time(dt) \in 0..duration
      BY <1>1, <3>1, SaturateType, Zenon DEF routing_time
    <3> QED BY <3>2, Zenon
  <2>2. t < duration
    BY <1>1, <1>3, <2>1 DEF expired
  <2>3. state.consumed <= t
    BY <1>1 DEF routing_time, Saturate, Bounded
  <2> QED BY <1>1, <2>1, <2>2, <2>3
<1>4. ASSUME NEW t, Redirects(state, t, next) PROVE FALSE
  BY <1>4, Zenon DEF Redirects
<1>5. ~Same(state, next) /\ ~Fails(state, next) /\ ~Recovers(state, next)
  BY OneEntry, Zenon DEF Same, SamePlace, Fails, Recovers
<1>6. CASE FinishStep(next, dt) /\ Leads(routing_time(dt), next) /\ state.active
  <2>1. PICK target : Routed(state, target, routing_time(dt), next)
    BY <1>4, <1>5, <1>6, Zenon DEF Leads, MovesOn
  <2>2. next.consumed = state.consumed /\ ~expired(state, guarded_entry, routing_time(dt))
    BY <1>6, <2>1, Zenon DEF Routed
  <2>3. routing_time(dt) < duration
    BY <1>3, <1>6, <2>2
  <2>4. ckpt'.consumed = routing_time(dt)
    BY <1>2, <1>6, <2>2, Zenon DEF Folded, routing_time
  <2> QED BY <1>2, <2>3, <2>4
<1>7. CASE FinishStep(next, dt) /\ ~state.active
  <2>1. ckpt'.consumed = next.consumed
    BY <1>2, <1>7, Zenon DEF Folded
  <2>2. next.consumed = 0
    BY <1>7, Zenon DEF Moves, Reduces, ClockKept
  <2> QED BY <1>1, <1>2, <2>1, <2>2
<1>8. CASE FinishUnfolded(next, dt) /\ Detours(next)
  <2>1. state.phase = failed_route /\ Reenters(state, routing_time(0), next)
    BY <1>4, <1>5, <1>8, Zenon DEF Detours
  <2>2. PICK d : /\ next.phase = d.target /\ next.consumed = d.state.consumed
                 /\ TimerActs(state, reentered(state), routing_time(0), d)
    BY <2>1, Zenon DEF Reenters
  <2>3. CASE TimerStarts(state, reentered(state), d)
    <3>1. ~state.active /\ reentered(state) = guarded_entry
      BY <2>2, <2>3, Zenon DEF TimerStarts
    <3> QED BY <2>1, <3>1, OneEntry, ReentryIsTimedWhenKept, Zenon
  <2>4. CASE TimerKeeps(state, reentered(state), routing_time(0), d)
    <3>1. /\ next.consumed = state.consumed /\ reentered(state) = guarded_entry
          /\ ~expired(state, guarded_entry, routing_time(0))
      BY <2>2, <2>4, Zenon DEF TimerKeeps, Same, SamePlace
    <3>2. state.active
      BY <2>1, <3>1, OneEntry, ReentryIsTimedWhenKept, Zenon
    <3>3. state.consumed < duration
      BY <1>3, <3>1, <3>2
    <3> QED BY <1>2, <1>8, <3>1, <3>3, Zenon
  <2>5. ~TimerStops(state, reentered(state), d) /\ ~TimerRedirects(state, reentered(state), d)
    BY <2>2, OneEntry, Zenon DEF TimerStops, TimerRedirects
  <2> QED BY <2>2, <2>3, <2>4, <2>5, Zenon DEF TimerActs
<1> QED BY <1>6, <1>7, <1>8, ZenonT(60) DEF Moves

\* Under the same hypotheses no step routes the run into the guarded phase at or
\* past the deadline: the route, the bypass and the hop out of the failed route all
\* consult the clock, and the fold adds no more than they have seen.
THEOREM GuardedEntryIsInTime ==
    ASSUME CycleHasOneEntry, FailedRouteMeansFailure, MaxFaults <= cycle_cap
    PROVE  Spec => NoEntryPastDeadline
<1> DEFINE InTime == /\ state'.phase = guarded_entry
                     /\ state.phase # guarded_entry
                     /\ idle' = 0
                     => state'.consumed < duration
<1>1. ASSUME GuardInv, [Next]_vars, state'.phase = guarded_entry, state.phase # guarded_entry
      PROVE  state'.consumed < duration
  <2>1. ASSUME NEW dt \in Nat, NEW next, Moves(next, dt) PROVE state'.consumed < duration
    <3>1. TypeOK /\ Timed(state) /\ idle \in 0..duration
      BY <1>1, TypeMeans, Zenon DEF GuardInv, RunInv
    <3>2. next.phase = state'.phase /\ next.active = state'.active
      BY <2>1, <3>1, Moved, Zenon DEF Settles, Retimed
    <3>3. state'.active
      BY <1>1, GuardInvNext, OneEntry, Zenon DEF GuardInv, Timed
    <3> QED BY <1>1, <2>1, <3>1, <3>2, <3>3, EntryInTime, Zenon
  <2>2. ~KillAndResume
    BY <1>1, ResumesTheSame, Zenon DEF KillAndResume, Same, SamePlace
  <2>3. state' # state
    BY <1>1
  <2>4. (\E dt \in Nat : Stays(dt)) \/ ExitSuccess \/ UNCHANGED vars => state' = state
    BY DEF Stays, ExitSuccess, vars
  <2> QED BY <1>1, <2>1, <2>2, <2>3, <2>4, NextMoves, Zenon DEF GuardInv
<1>2. GuardInv /\ [Next]_vars => [InTime]_vars
  BY <1>1, Zenon
<1> QED BY <1>2, GuardInvariant, PTL DEF NoEntryPastDeadline, Spec

-----------------------------------------------------------------------------
(* The cycle clock *)

\* What the routing guard sees after a step of dt seconds: some of the seconds
\* folded before, and a sample that grew by no more than the step.
Sees(dt, c, y) ==
    /\ c \in 0..state.consumed /\ y \in 0..duration /\ y <= sampled_delta(0) + dt
    /\ routing_time(0)' = Saturate(c + y, duration)

ClockStep(dt) ==
    state'.active => IF state.active THEN \E c, y : Sees(dt, c, y) ELSE routing_time(0)' = 0

\* The guard's view after a step, from what the step left in the sample box.
LEMMA ViewAfter ==
    ASSUME idle' \in 0..duration, state'.active
    PROVE  /\ boxed' => routing_time(0)' = Saturate(state'.consumed + idle', duration)
           /\ ~boxed' => routing_time(0)' = Saturate(state'.consumed + 0, duration)
<1>1. ASSUME NEW x \in 0..duration PROVE Saturate(x + 0, duration) = x
  BY TimeboxAssumption DEF Saturate
<1>2. Saturate(idle' + 0, duration) = idle'
  BY <1>1, Zenon
<1> QED BY <1>2 DEF routing_time, sampled_delta

LEMMA SampleGrows ==
    ASSUME NEW dt \in Nat, idle \in 0..duration, state.active
    PROVE  /\ sampled_delta(0) = IF boxed THEN idle ELSE 0
           /\ sampled_delta(dt) \in 0..duration /\ sampled_delta(dt) <= sampled_delta(0) + dt
<1>1. duration \in Nat
  BY TimeboxAssumption
<1>2. Saturate(idle + 0, duration) = idle
  BY <1>1 DEF Saturate
<1>3. Saturate(idle + dt, duration) \in 0..duration /\ Saturate(idle + dt, duration) <= idle + dt
  BY <1>1 DEF Saturate
<1>4. sampled_delta(0) = IF boxed THEN idle ELSE 0
  BY <1>2 DEF sampled_delta
<1>5. sampled_delta(dt) = IF boxed THEN Saturate(idle + dt, duration) ELSE 0
  BY DEF sampled_delta
<1> QED BY <1>1, <1>3, <1>4, <1>5

\* A step that leaves the sample running: its seconds, if any, go to the sample.
LEMMA WaitingClock ==
    ASSUME NEW dt \in Nat, Bounded(state), idle \in 0..duration, boxed' = boxed,
           idle' \in {idle, IF boxed THEN Saturate(idle + dt, duration) ELSE 0},
           state'.active => /\ state.active /\ state'.consumed \in Nat
                            /\ state'.consumed <= state.consumed
    PROVE  ClockStep(dt)
<1> SUFFICES ASSUME state'.active PROVE state.active /\ \E c, y : Sees(dt, c, y)
  BY DEF ClockStep
<1>1. /\ state.active /\ state'.consumed \in 0..state.consumed /\ duration \in Nat
      /\ idle \in Nat /\ idle + dt \in Nat
  BY TimeboxAssumption DEF Bounded, PipelineState
<1>2. /\ Saturate(idle + dt, duration) \in 0..duration
      /\ Saturate(idle + dt, duration) <= idle + dt
  BY <1>1, SaturateType, Zenon
<1>3. idle' \in 0..duration /\ (boxed => idle' <= idle + dt)
  BY <1>1, <1>2
<1>4. sampled_delta(0) = IF boxed THEN idle ELSE 0
  BY <1>1, SampleGrows, Zenon
<1>5. CASE boxed
  <2>1. routing_time(0)' = Saturate(state'.consumed + idle', duration)
    BY <1>3, <1>5, ViewAfter
  <2>2. idle' <= sampled_delta(0) + dt
    BY <1>3, <1>4, <1>5
  <2>3. Sees(dt, state'.consumed, idle')
    BY <1>1, <1>3, <2>1, <2>2, Zenon DEF Sees
  <2> QED BY <1>1, <2>3, Zenon
<1>6. CASE ~boxed
  <2>1. routing_time(0)' = Saturate(state'.consumed + 0, duration)
    BY <1>3, <1>6, ViewAfter
  <2>2. 0 \in 0..duration /\ 0 <= sampled_delta(0) + dt
    BY <1>1, <1>4, <1>6
  <2>3. Sees(dt, state'.consumed, 0)
    BY <1>1, <2>1, <2>2, Zenon DEF Sees
  <2> QED BY <1>1, <2>3, Zenon
<1> QED BY <1>5, <1>6

LEMMA FoldedClock ==
    ASSUME TypeOK, NEW dt \in Nat, NEW next, Moves(next, dt), FinishStep(next, dt)
    PROVE  ClockStep(dt)
<1> SUFFICES ASSUME state'.active
             PROVE  IF state.active THEN \E c, y : Sees(dt, c, y) ELSE routing_time(0)' = 0
  BY DEF ClockStep
<1>1. Bounded(state) /\ idle \in 0..duration /\ duration \in Nat
  BY TypeMeans, TimeboxAssumption
<1>2. /\ Folded(next, dt, ckpt') /\ Clocked(ckpt', state') /\ Settles(next, state')
  BY <1>1, Moved, Zenon
<1>3. /\ state'.consumed = IF state.active
                           THEN Saturate(next.consumed + sampled_delta(dt), duration)
                           ELSE next.consumed
      /\ next.active /\ Bounded(state')
  BY <1>2, Zenon DEF Folded, Clocked, Same, SamePlace, Settles
<1>4. Bounded(next) /\ ClockKept(state, next)
  BY Zenon DEF Moves, Reduces
<1>5. routing_time(0)' = state'.consumed
  <2>1. boxed' /\ idle' = 0
    BY DEF FinishStep
  <2>2. idle' \in 0..duration
    BY <1>1, <2>1
  <2>3. routing_time(0)' = Saturate(state'.consumed + 0, duration)
    BY <2>1, <2>2, ViewAfter
  <2>4. state'.consumed \in 0..duration
    BY <1>1, <1>3 DEF Bounded, PipelineState
  <2>5. Saturate(state'.consumed + 0, duration) = state'.consumed
    BY <1>1, <2>4 DEF Saturate
  <2> QED BY <2>3, <2>5
<1>6. CASE state.active
  <2>1. next.consumed \in 0..state.consumed
    BY <1>1, <1>3, <1>4 DEF ClockKept, Bounded, PipelineState
  <2>2. /\ sampled_delta(dt) \in 0..duration /\ sampled_delta(dt) <= sampled_delta(0) + dt
    BY <1>1, <1>6, SampleGrows, Zenon
  <2>3. Sees(dt, next.consumed, sampled_delta(dt))
    BY <1>3, <1>5, <1>6, <2>1, <2>2, Zenon DEF Sees
  <2> QED BY <1>6, <2>3, Zenon
<1>7. CASE ~state.active
  BY <1>3, <1>4, <1>5, <1>7, Zenon DEF ClockKept
<1> QED BY <1>6, <1>7

LEMMA UnfoldedClock ==
    ASSUME start_source # failed_route, TypeOK, NEW dt \in Nat, NEW next, Moves(next, dt),
           FinishUnfolded(next, dt), Detours(next)
    PROVE  ClockStep(dt)
<1>1. Bounded(state) /\ idle \in 0..duration
  BY TypeMeans, Zenon
<1>2. ckpt' = next /\ Clocked(ckpt', state')
  BY <1>1, Moved, Zenon
<1>3. state'.active = next.active /\ state'.consumed = next.consumed
  BY <1>2, Zenon DEF Clocked, Same, SamePlace
<1>4. next.active => state.active /\ next.consumed <= state.consumed
  BY Zenon DEF Detours, NoCycleStarted, Moves, Reduces, ClockKept
<1>5. next.consumed \in Nat
  BY DEF Moves, Reduces, Bounded, PipelineState
<1>6. boxed' = boxed /\ idle' = IF boxed THEN Saturate(idle + dt, duration) ELSE 0
  BY DEF FinishUnfolded
<1> QED BY <1>1, <1>3, <1>4, <1>5, <1>6, WaitingClock, Zenon

LEMMA ResumedClock ==
    ASSUME RunInv, KillAndResume
    PROVE  ClockStep(0)
<1> SUFFICES ASSUME state'.active
             PROVE  IF state.active THEN \E c, y : Sees(0, c, y) ELSE routing_time(0)' = 0
  BY DEF ClockStep
<1>1. /\ Bounded(state) /\ Bounded(ckpt) /\ SavedAgrees
      /\ idle \in 0..duration /\ duration \in Nat
  BY TypeMeans, TimeboxAssumption DEF RunInv
<1>2. state' = ckpt \/ (~ckpt.active /\ state'.consumed = 0)
  BY Resumed, Zenon
<1>3. routing_time(0)' = Saturate(state'.consumed + 0, duration)
  <2>1. ~boxed' /\ idle' = 0
    BY DEF KillAndResume
  <2>2. idle' \in 0..duration
    BY <1>1, <2>1
  <2> QED BY <2>1, <2>2, ViewAfter
<1>4. state.consumed \in Nat /\ ckpt.consumed \in Nat
  BY <1>1 DEF Bounded, PipelineState
<1>5. CASE state.active
  <2>1. state'.consumed \in 0..state.consumed
    BY <1>1, <1>2, <1>4 DEF SavedAgrees
  <2>2. 0 \in 0..duration /\ 0 <= sampled_delta(0) + 0
    BY <1>1, SampleType
  <2>3. Sees(0, state'.consumed, 0)
    BY <1>3, <2>1, <2>2, Zenon DEF Sees
  <2> QED BY <1>5, <2>3, Zenon
<1>6. CASE ~state.active
  <2>1. state'.consumed = 0
    BY <1>1, <1>2, <1>6, Zenon DEF SavedAgrees
  <2>2. Saturate(0 + 0, duration) = 0
    BY <1>1 DEF Saturate
  <2> QED BY <1>3, <1>6, <2>1, <2>2, Zenon
<1> QED BY <1>5, <1>6

\* Time seen so far stays below the time that went by, however a step splits it
\* between the folded seconds c and the sample y.
LEMMA NeverAhead ==
    ASSUME NEW bound \in Nat, NEW before \in Nat, NEW x \in Nat, NEW s \in 0..bound,
           Saturate(before + x, bound) <= s,
           NEW dt \in Nat, NEW c \in 0..before, NEW y \in 0..bound, y <= x + dt
    PROVE  Saturate(c + y, bound) <= Saturate(s + dt, bound)
BY DEF Saturate

ClockInv == spent \in 0..duration /\ ClockNeverRunsFast

LEMMA ClockInvStep ==
    ASSUME RunInv, ClockInv, NEW dt \in Nat, ClockStep(dt), RecordTime(dt)
    PROVE  ClockInv'
<1>1. /\ Bounded(state) /\ idle \in 0..duration /\ duration \in Nat /\ spent \in 0..duration
      /\ state.active => routing_time(0) <= spent
  BY TypeMeans, TimeboxAssumption DEF RunInv, ClockInv, ClockNeverRunsFast
<1>2. spent' = IF state.active /\ state'.active THEN Saturate(spent + dt, duration) ELSE 0
  BY DEF RecordTime
<1>3. spent' \in 0..duration
  <2>1. spent + dt \in Nat
    BY <1>1
  <2>2. Saturate(spent + dt, duration) \in 0..duration
    BY <1>1, <2>1, SaturateType, Zenon
  <2> QED BY <1>1, <1>2, <2>2
<1>4. ASSUME state'.active, state.active PROVE routing_time(0)' <= spent'
  <2>1. PICK c, y : Sees(dt, c, y)
    BY <1>4, Zenon DEF ClockStep
  <2>2. sampled_delta(0) \in Nat /\ state.consumed \in Nat
    BY <1>1, SampleType DEF Bounded, PipelineState
  <2>3. Saturate(state.consumed + sampled_delta(0), duration) <= spent
    BY <1>1, <1>4 DEF routing_time
  <2>4. c \in 0..state.consumed /\ y \in 0..duration /\ y <= sampled_delta(0) + dt
    BY <2>1, Zenon DEF Sees
  <2>5. Saturate(c + y, duration) <= Saturate(spent + dt, duration)
    BY <1>1, <2>2, <2>3, <2>4, NeverAhead, Zenon
  <2>6. routing_time(0)' = Saturate(c + y, duration)
    BY <2>1, Zenon DEF Sees
  <2> QED BY <1>2, <1>4, <2>5, <2>6, Zenon
<1>5. ASSUME state'.active, ~state.active PROVE routing_time(0)' <= spent'
  <2>1. routing_time(0)' = 0 /\ spent' = 0
    BY <1>2, <1>5, Zenon DEF ClockStep
  <2> QED BY <2>1
<1> QED BY <1>3, <1>4, <1>5, Zenon DEF ClockInv, ClockNeverRunsFast

\* In every phase graph whose cycle does not start at the failed route, the seconds
\* the deadline is judged by never exceed those that went by, through any
\* alternation of folded steps, unfolded recoveries, sleeps, kills and resumes.  A
\* cycle started on the hop out of the failed route would inherit the sample taken
\* before it: that hop neither folds nor samples.
THEOREM ClockIsNeverFast ==
    ASSUME start_source # failed_route
    PROVE  HSpec => []ClockNeverRunsFast
<1>1. ASSUME HInit PROVE RunInv /\ ClockInv
  <2>1. RunInv /\ ~state.active
    BY <1>1, InitialPlace, Zenon DEF HInit
  <2>2. spent \in 0..duration
    BY <1>1, TimeboxAssumption DEF HInit
  <2> QED BY <2>1, <2>2, Zenon DEF ClockInv, ClockNeverRunsFast
<1>2. ASSUME RunInv, ClockInv, [HNext]_hvars PROVE ClockInv'
  <2>1. Bounded(state) /\ TypeOK /\ OverrideDeclared(state) /\ idle \in 0..duration
    BY <1>2, TypeMeans, Zenon DEF RunInv
  <2>2. state.consumed \in Nat /\ state.consumed <= state.consumed
    BY <2>1 DEF Bounded, PipelineState
  <2>3. ASSUME NEW dt \in Nat, NEW n, Moves(n, dt) PROVE ClockStep(dt)
    BY <2>1, <2>3, FoldedClock, UnfoldedClock, Zenon DEF Moves
  <2>4. ASSUME NEW dt \in Nat, Stays(dt) PROVE ClockStep(dt)
    <3>1. state' = state /\ boxed' = boxed
      BY <2>4, Zenon DEF Stays
    <3>2. idle' \in {idle, IF boxed THEN Saturate(idle + dt, duration) ELSE 0}
      BY <2>4, Zenon DEF Stays
    <3> QED BY <2>1, <2>2, <3>1, <3>2, WaitingClock, Zenon
  <2>5. ASSUME NEW dt \in StepSeconds, Step(dt), RecordTime(dt) PROVE ClockInv'
    <3>1. dt \in Nat
      BY RunAssumption
    <3>2. ClockStep(dt)
      BY <2>1, <2>3, <2>4, <2>5, <3>1, StepMoves, Zenon
    <3> QED BY <1>2, <2>5, <3>1, <3>2, ClockInvStep, Zenon
  <2>6. ASSUME state' = state, boxed' = boxed, idle' = idle PROVE ClockStep(0)
    <3>1. idle' \in {idle, IF boxed THEN Saturate(idle + 0, duration) ELSE 0}
      BY <2>6
    <3> QED BY <2>1, <2>2, <2>6, <3>1, WaitingClock, Zenon
  <2>7. ExitSuccess \/ Exited => state' = state /\ boxed' = boxed /\ idle' = idle
    BY DEF ExitSuccess, Exited, vars
  <2>8. ASSUME ExitSuccess \/ Exited \/ KillAndResume, RecordTime(0) PROVE ClockInv'
    <3>1. ClockStep(0) /\ 0 \in Nat
      BY <1>2, <2>6, <2>7, <2>8, ResumedClock, Zenon
    <3> QED BY <1>2, <2>8, <3>1, ClockInvStep, Zenon
  <2>9. CASE UNCHANGED hvars
    BY <1>2, <2>9 DEF hvars, vars, sampled_delta, routing_time, ClockInv, ClockNeverRunsFast
  <2> QED BY <1>2, <2>5, <2>8, <2>9, Zenon DEF HNext
<1>3. RunInv /\ [HNext]_hvars => RunInv'
  <2>1. [HNext]_hvars => [Next]_vars
    BY Zenon DEF HNext, Next, hvars
  <2> QED BY <2>1, RunInvNext, Zenon
<1>4. ClockInv => ClockNeverRunsFast
  BY Zenon DEF ClockInv
<1> QED BY <1>1, <1>2, <1>3, <1>4, PTL DEF HSpec
=============================================================================
