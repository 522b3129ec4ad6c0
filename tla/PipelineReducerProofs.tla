------------------------ MODULE PipelineReducerProofs ------------------------
(* What the reducer's operators keep, and where they send a run: the lemmas   *)
(* under the theorems about runs, for every phase graph.                      *)
EXTENDS PipelineGraph, PipelineReducer, TLAPS

\* A state as the program holds or saves it: TypeOK of one state.
Bounded(s) ==
    /\ s \in PipelineState
    /\ \A c \in LoopCounters : s.loop[c] <= loop_cap[c]
    /\ s.consumed <= duration
    /\ s.worked <= gate_minimum

\* What routing may do to the cycle clock: seconds are never added, and a cycle
\* that was not timed before starts from zero.
ClockKept(s, t) ==
    /\ t.active => t.consumed <= s.consumed
    /\ t.active /\ ~s.active => t.consumed = 0

\* A recorded verdict is still there.
VerdictStays(s, t) == s.pending # None => t.pending = s.pending

Reduces(s, t) == Bounded(t) /\ ClockKept(s, t)

Routes(s, t) == Reduces(s, t) /\ VerdictStays(s, t)

\* What the commits of an iteration have settled.
SameAccount(s, u) == u.override = s.override /\ u.progress = s.progress

\* What the timer may do to a state: nothing but start or stop.
Retimed(s, u) ==
    /\ u.phase = s.phase
    /\ u.previous_phase = s.previous_phase
    /\ u.epoch = s.epoch
    /\ SameAccount(s, u)

\* Where the run is: everything but the counters and the hand-over fields.
SamePlace(s, u) ==
    /\ u.phase = s.phase
    /\ u.previous_phase = s.previous_phase
    /\ u.active = s.active
    /\ u.consumed = s.consumed
    /\ u.epoch = s.epoch

Same(s, u) == SamePlace(s, u) /\ SameAccount(s, u)

\* What every operator does that writes counters or hand-over fields only.
Keeps(s, u) == Routes(s, u) /\ Same(s, u)

LEMMA Transitive ==
    ASSUME NEW s, NEW t, NEW u, Bounded(s), Reduces(s, t), Reduces(t, u)
    PROVE  /\ Reduces(s, u)
           /\ VerdictStays(s, t) /\ VerdictStays(t, u) => VerdictStays(s, u)
BY DEF Reduces, Bounded, PipelineState, ClockKept, VerdictStays

LEMMA KeepsItself == ASSUME NEW s, Bounded(s) PROVE Keeps(s, s)
BY DEF Bounded, PipelineState, Routes, Reduces, ClockKept, VerdictStays, Keeps, Same,
       SamePlace, SameAccount

LEMMA KeepsTransitive ==
    ASSUME NEW s, NEW t, NEW u, Bounded(s), Keeps(s, t), Keeps(t, u)
    PROVE  Keeps(s, u)
BY Transitive DEF Keeps, Routes, Same, SamePlace, SameAccount

-----------------------------------------------------------------------------
(* The phase graph *)

LEMMA PhaseTypes ==
    /\ {entry_phase, terminal_phase, failed_route, start_source, start_entry, guarded_entry,
        end_entry, finalization_target} \subseteq Phases
    /\ None \notin Phases
    /\ on_success \in [Phases -> Phases]
    /\ on_loopback \in [Phases -> Phases \cup {None}]
    /\ workflow_fallback \in [Phases -> Phases \cup {None}]
    /\ loop_policy \in [Phases -> LoopCounters \cup {None}]
    /\ increments_counter \in [Phases -> BudgetCounters \cup {None}]
    /\ terminal_phase \in terminal_states /\ failed_route \in terminal_states
BY PhaseGraphAssumption, TimeboxAssumption
   DEF references_known_phases, cycle_timebox_references_known_phases, terminal_states,
       counter_references_valid

\* The walk of _outside_cycle_phases never passes the cycle's entries.
LEMMA CycleEntries ==
    ASSUME CycleEntriesRun
    PROVE  /\ {start_entry, guarded_entry} \subseteq InsideCycle
           /\ failed_route \notin InsideCycle
           /\ CycleHasOneEntry =>
                 {entry_phase, end_entry, finalization_target} \cap InsideCycle = {}
<1> DEFINE S == Phases \ {start_entry, guarded_entry}
<1>1. ClosedWalk(S)
  BY PhaseGraphAssumption, PhaseTypes
     DEF ClosedWalk, references_known_phases, decision_targets, Route, declared_targets
<1>2. {start_entry, guarded_entry} \cap outside_cycle_phases = {}
  BY <1>1 DEF outside_cycle_phases
<1>3. entry_phase \notin {start_entry, guarded_entry} => entry_phase \in outside_cycle_phases
  BY PhaseTypes DEF outside_cycle_phases, ClosedWalk
<1> QED BY <1>2, <1>3, PhaseTypes DEF CycleEntriesRun, CycleHasOneEntry, InsideCycle, OutsideCycle

-----------------------------------------------------------------------------
(* progress.py *)

LEMMA Advances ==
    ASSUME NEW s, Bounded(s), NEW target \in Phases, NEW u, u = advance_phase(s, target)
    PROVE  /\ Routes(s, u) /\ SameAccount(s, u)
           /\ u.phase = target /\ u.previous_phase = s.phase /\ u.epoch = 0
           /\ u.active = s.active /\ u.consumed = s.consumed /\ u.cycles = s.cycles
<1> DEFINE c == IF role[target] = "execution" THEN FALSE ELSE s.charged
           i == IF role[target] = "commit" THEN FALSE ELSE s.agent_invoked
           t == [s EXCEPT !.phase = target, !.previous_phase = s.phase, !.epoch = 0,
                          !.charged = c, !.agent_invoked = i]
<1>1. u = t /\ s \in PipelineState /\ c \in BOOLEAN /\ i \in BOOLEAN
  BY Zenon DEF Bounded, PipelineState, advance_phase
<1> HIDE DEF c, i
<1>2. t \in PipelineState
  BY <1>1, Zenon DEF PipelineState
<1> QED BY <1>1, <1>2
     DEF Routes, Reduces, Bounded, ClockKept, VerdictStays, PipelineState, SameAccount

\* Writing one loop counter within its cap.
LEMMA LoopSetKeeps ==
    ASSUME NEW s, Bounded(s), NEW c \in LoopCounters, NEW r, Bounded(r), NEW b \in BOOLEAN,
           NEW u, u = [s EXCEPT !.loop[c] = next_completed(r, c), !.charged = b]
    PROVE  Keeps(s, u)
<1>1. next_completed(r, c) \in Nat /\ next_completed(r, c) <= loop_cap[c]
  BY CounterAssumption DEF Bounded, PipelineState, next_completed, Saturate
<1>2. u \in PipelineState
  BY <1>1, Zenon DEF Bounded, PipelineState
<1> QED BY <1>1, <1>2
     DEF Keeps, Routes, Reduces, Bounded, ClockKept, VerdictStays, PipelineState, Same, SamePlace,
         SameAccount

LEMMA ChargeKeeps ==
    ASSUME NEW s, Bounded(s), NEW phase \in Phases, NEW next, Bounded(next)
    PROVE  Keeps(next, apply_execution_cycle_outcome(s, phase, next))
<1>1. execution_cycle_counter[phase] \in LoopCounters \cup {None}
  BY PhaseTypes, Zenon DEF execution_cycle_counter, cycle_loop_counter
<1> QED BY <1>1, KeepsItself, LoopSetKeeps, Zenon DEF apply_execution_cycle_outcome

LEMMA LoopbackKeeps ==
    ASSUME NEW s, Bounded(s), NEW p \in Phases, loop_policy[p] # None
    PROVE  Keeps(s, apply_analysis_loopback(s, p))
<1> DEFINE c == loop_policy[p]
           n == next_completed(s, c)
<1>1. apply_analysis_loopback(s, p) \in {s, [s EXCEPT !.loop[c] = n]}
  BY DEF apply_analysis_loopback
<1>2. c \in LoopCounters /\ s \in PipelineState /\ s.charged \in BOOLEAN
  BY PhaseTypes DEF Bounded, PipelineState
<1> HIDE DEF c
<1>3. [s EXCEPT !.loop[c] = n] = [s EXCEPT !.loop[c] = n, !.charged = s.charged]
  BY <1>2, Zenon
<1>4. Keeps(s, [s EXCEPT !.loop[c] = n])
  BY <1>2, <1>3, LoopSetKeeps, Zenon
<1> QED BY <1>1, <1>4, KeepsItself

LEMMA ResetKeeps ==
    ASSUME NEW s, Bounded(s), NEW fields
    PROVE  Keeps(s, reset_loops(s, fields))
BY CounterAssumption
   DEF Bounded, reset_loops, PipelineState, Keeps, Routes, Reduces, ClockKept, VerdictStays, Same,
       SamePlace, SameAccount

LEMMA IncrementRoutes ==
    ASSUME NEW s, Bounded(s), NEW counter \in BudgetCounters \cup {None},
           NEW u, u = apply_budget_counter_increment(s, counter)
    PROVE  Routes(s, u) /\ SamePlace(s, u) /\ u.override = s.override
<1>1. s \in PipelineState /\ s.progress \in [BudgetCounters -> Nat]
  BY Zenon DEF Bounded, PipelineState
<1>2. CASE counter = None
  <2>1. u = s
    BY <1>2, Zenon DEF apply_budget_counter_increment
  <2> QED BY <2>1, KeepsItself, Zenon DEF Keeps, Same, SameAccount
<1>3. CASE counter # None
  <2> DEFINE n == Saturate(s.progress[counter] + 1, budget_cap[counter] + 1)
             p == [s.progress EXCEPT ![counter] = n]
             v == [s EXCEPT !.progress = p]
  <2>1. u = v
    BY <1>1, <1>3 DEF apply_budget_counter_increment
  <2>2. n \in Nat
    BY <1>1, <1>3, CounterAssumption DEF Saturate
  <2> HIDE DEF n
  <2>3. p \in [BudgetCounters -> Nat]
    BY <1>1, <2>2, Zenon
  <2> HIDE DEF p
  <2>4. v \in PipelineState
    BY <1>1, <2>3, Zenon DEF PipelineState
  <2>5. /\ SamePlace(s, v) /\ v.override = s.override /\ v.pending = s.pending
        /\ v.loop = s.loop /\ v.worked = s.worked
    BY <1>1 DEF SamePlace
  <2> HIDE DEF v
  <2>6. Bounded(v)
    BY <2>4, <2>5, Zenon DEF Bounded, SamePlace
  <2>7. ClockKept(s, v) /\ VerdictStays(s, v)
    BY <1>1, <2>5 DEF PipelineState, ClockKept, VerdictStays, SamePlace
  <2> QED BY <2>1, <2>5, <2>6, <2>7, Zenon DEF Routes, Reduces
<1> QED BY <1>2, <1>3

\* A commit resets loops, counts an iteration and restarts the gate's seconds.
LEMMA CommitOutcomeRoutes ==
    ASSUME NEW s, Bounded(s), NEW skipped \in BOOLEAN, NEW u, u = apply_commit_outcome(s, skipped)
    PROVE  Routes(s, u) /\ SamePlace(s, u) /\ u.override = s.override
<1> DEFINE reset == reset_loops(s, loop_resets[s.phase])
           counter == increments_counter[s.phase]
           counted == apply_budget_counter_increment(reset, counter)
           w == [counted EXCEPT !.worked = 0]
<1>1. counter \in BudgetCounters \cup {None} /\ gate_minimum \in Nat
  BY PhaseTypes, CounterAssumption DEF Bounded, PipelineState
<1>2. Keeps(s, reset)
  BY ResetKeeps
<1>3. u \in {reset, counted, w}
  BY DEF apply_commit_outcome
<1> HIDE DEF reset, counter
<1>4. Routes(reset, counted) /\ SamePlace(reset, counted) /\ counted.override = reset.override
  BY <1>1, <1>2, IncrementRoutes DEF Keeps, Routes, Reduces
<1> HIDE DEF counted
<1>5. w \in PipelineState
  BY <1>4 DEF Routes, Reduces, Bounded, PipelineState
<1>6. Routes(counted, w) /\ SamePlace(counted, w) /\ w.override = counted.override
  BY <1>1, <1>4, <1>5
     DEF Routes, Reduces, Bounded, ClockKept, VerdictStays, PipelineState, SamePlace
<1> HIDE DEF w
<1> QED BY <1>2, <1>3, <1>4, <1>6, Transitive DEF Keeps, Routes, Same, SamePlace, SameAccount

-----------------------------------------------------------------------------
(* cycle_timing.py *)

LEMMA ConcludedRoutes ==
    ASSUME NEW s, Bounded(s), NEW u, u = concluded(s)
    PROVE  Routes(s, u) /\ Retimed(s, u) /\ ~u.active /\ u.consumed = s.consumed
BY Zenon
   DEF Bounded, concluded, PipelineState, Routes, Reduces, ClockKept, VerdictStays, Retimed,
       SameAccount

LEMMA StartedRoutes ==
    ASSUME NEW s, Bounded(s), NEW u, u = started(s)
    PROVE  Routes(s, u) /\ Retimed(s, u) /\ u.active /\ u.consumed = 0 /\ u.pending = s.pending
<1> DEFINE v == [s EXCEPT !.active = TRUE, !.consumed = 0]
<1>1. u = v /\ s \in PipelineState
  BY DEF started, Bounded
<1>2. v \in PipelineState
  BY <1>1, Zenon DEF PipelineState
<1>3. /\ Retimed(s, v) /\ v.active /\ v.consumed = 0 /\ v.pending = s.pending
      /\ v.loop = s.loop /\ v.worked = s.worked
  BY <1>1 DEF Retimed, SameAccount
<1> HIDE DEF v
<1> QED BY <1>1, <1>2, <1>3, TimeboxAssumption
     DEF Bounded, PipelineState, Routes, Reduces, ClockKept, VerdictStays

\* Only an open verdict is stamped.
LEMMA StampKeeps ==
    ASSUME NEW s, Bounded(s), NEW outcome \in Outcomes \cup {None}
    PROVE  Keeps(s, stamp_outcome(s, outcome))
BY KeepsItself
   DEF Bounded, stamp_outcome, PipelineState, Keeps, Routes, Reduces, ClockKept, VerdictStays,
       Same, SamePlace, SameAccount

LEMMA RouteOutRoutes ==
    ASSUME NEW s, Bounded(s), NEW next, NEW u, u = conclude_cycle_on_route_out_of_cycle(s, next)
    PROVE  /\ Routes(s, u) /\ Retimed(s, u) /\ u.consumed = s.consumed
           /\ u.active <=> s.active /\ next \notin OutsideCycle
BY ConcludedRoutes, KeepsItself
   DEF conclude_cycle_on_route_out_of_cycle, OutsideCycle, Keeps, Same, SamePlace, Retimed

StartEdge(s, target) == s.phase = start_source /\ target = start_entry

\* The four outcomes of apply_cycle_timebox.
TimerStops(s, target, d) ==
    s.active /\ target \in {end_entry, finalization_target} /\ ~d.state.active /\ d.target = target

TimerStarts(s, target, d) ==
    ~s.active /\ StartEdge(s, target) /\ d.state.active /\ d.target = target

TimerRedirects(s, target, d) ==
    s.active /\ target = guarded_entry /\ ~d.state.active /\ d.target = finalization_target

TimerKeeps(s, target, t, d) ==
    /\ Same(s, d.state) /\ d.target = target
    /\ ~expired(s, target, t)
    /\ s.active \/ ~StartEdge(s, target)

TimerActs(s, target, t, d) ==
    \/ TimerStops(s, target, d) \/ TimerStarts(s, target, d)
    \/ TimerRedirects(s, target, d) \/ TimerKeeps(s, target, t, d)

LEMMA TimeboxRoutes ==
    ASSUME NEW s, Bounded(s), NEW target \in Phases, NEW t,
           NEW d, d = apply_cycle_timebox(s, target, t)
    PROVE  /\ Routes(s, d.state) /\ Retimed(s, d.state)
           /\ d.target \in Phases /\ d.target \in {target, finalization_target}
           /\ d.started \in BOOLEAN /\ (d.started => d.state.active /\ ~s.active)
           /\ TimerActs(s, target, t, d)
<1>1. CASE target \in {end_entry, finalization_target} /\ s.active
  BY <1>1, ConcludedRoutes DEF apply_cycle_timebox, TimerStops, TimerActs
<1>2. CASE ~s.active /\ s.phase = start_source /\ target = start_entry
  BY <1>2, StartedRoutes DEF apply_cycle_timebox, TimerStarts, StartEdge, TimerActs
<1>3. CASE ~(target \in {end_entry, finalization_target} /\ s.active) /\ expired(s, target, t)
  <2> DEFINE e == concluded(s)
             u == stamp_outcome(e, finalization_outcome)
  <2>1. d = [state |-> u, target |-> finalization_target, started |-> FALSE] /\ s.active
    BY <1>3 DEF apply_cycle_timebox, expired
  <2>2. Routes(s, e) /\ Retimed(s, e) /\ ~e.active
    BY ConcludedRoutes
  <2> HIDE DEF e
  <2>3. Keeps(e, u)
    BY <2>2, TimeboxAssumption, StampKeeps DEF Routes, Reduces
  <2> HIDE DEF u
  <2>4. Routes(s, u) /\ Retimed(s, u) /\ ~u.active
    BY <2>2, <2>3, Transitive DEF Keeps, Same, SamePlace, SameAccount, Retimed, Routes
  <2>5. d.state = u /\ d.target = finalization_target /\ d.started = FALSE
    BY <2>1
  <2>6. target = guarded_entry /\ finalization_target \in Phases
    BY <1>3, PhaseTypes DEF expired
  <2> QED BY <2>1, <2>4, <2>5, <2>6 DEF TimerRedirects, TimerActs
<1>4. CASE /\ ~(target \in {end_entry, finalization_target} /\ s.active)
           /\ ~(~s.active /\ s.phase = start_source /\ target = start_entry)
           /\ ~expired(s, target, t)
  BY <1>4, KeepsItself
     DEF apply_cycle_timebox, TimerKeeps, StartEdge, TimerActs, Keeps, Same, SamePlace, Retimed
<1> QED BY <1>1, <1>2, <1>3, <1>4

-----------------------------------------------------------------------------
(* handoffs.py: where the bypass leads *)

LEMMA ForwardOutcomeType ==
    ASSUME NEW p \in Phases
    PROVE  declared_forward_cycle_outcome(p) \in Outcomes \cup {None}
BY PhaseGraphAssumption DEF references_known_phases, declared_forward_cycle_outcome, Route

LEMMA SkipKeeps ==
    ASSUME NEW s, Bounded(s), NEW b, Keeps(s, b.state), b.target \in Phases,
           NEW c, c = skip_exhausted(b)
    PROVE  /\ Keeps(s, c.state) /\ c.target \in Phases
           /\ \/ c = b
              \/ /\ loop_policy[b.target] # None
                 /\ c.target = on_success[b.target]
                 /\ c.skipped = b.skipped \cup {b.target}
<1> DEFINE r == reset_loops(b.state, {loop_policy[b.target]})
           u == stamp_outcome(r, declared_forward_cycle_outcome(b.target))
<1>1. \/ c = b
      \/ /\ loop_policy[b.target] # None
         /\ c = [state |-> u, target |-> on_success[b.target], skipped |-> b.skipped \cup {b.target}]
  BY DEF skip_exhausted, exhausted
<1>2. Keeps(b.state, r) /\ Bounded(b.state)
  BY ResetKeeps DEF Keeps, Routes, Reduces
<1> HIDE DEF r
<1>3. Keeps(r, u)
  BY <1>2, ForwardOutcomeType, StampKeeps DEF Keeps, Routes, Reduces
<1> HIDE DEF u
<1>4. Keeps(s, u)
  BY <1>2, <1>3, KeepsTransitive
<1> QED BY <1>1, <1>4, PhaseTypes

\* The targets of a bypass that starts at p.
Skips(p, b) ==
    \/ b.skipped = {} /\ b.target = p
    \/ b.skipped = {p} /\ loop_policy[p] # None /\ b.target = on_success[p]
    \/ /\ b.skipped = {p, on_success[p]} /\ b.target = on_success[on_success[p]]
       /\ loop_policy[p] # None /\ loop_policy[on_success[p]] # None

LEMMA BypassKeeps ==
    ASSUME NEW s, Bounded(s), NEW p \in Phases,
           NEW b, b = resolve_exhausted_analysis_bypass(s, p)
    PROVE  Keeps(s, b.state) /\ b.target \in Phases /\ Skips(p, b)
<1> DEFINE b0 == [state |-> s, target |-> p, skipped |-> {}]
           b1 == skip_exhausted(b0)
<1>1. b0.state = s /\ b0.target = p /\ b0.skipped = {} /\ b = skip_exhausted(b1)
  BY DEF resolve_exhausted_analysis_bypass
<1> HIDE DEF b0
<1>2. /\ Keeps(s, b1.state) /\ b1.target \in Phases
      /\ b1 = b0 \/ /\ loop_policy[p] # None
                    /\ b1.target = on_success[p]
                    /\ b1.skipped = {p}
  BY <1>1, KeepsItself, SkipKeeps
<1> HIDE DEF b1
<1>3. /\ Keeps(s, b.state) /\ b.target \in Phases
      /\ b = b1 \/ /\ loop_policy[b1.target] # None
                   /\ b.target = on_success[b1.target]
                   /\ b.skipped = b1.skipped \cup {b1.target}
  BY <1>1, <1>2, SkipKeeps
<1> QED BY <1>1, <1>2, <1>3 DEF Skips

\* Where the bypass of prepare_phase_advance may lead from the timer's target q.
Led(q, b) ==
    \/ b.target = q
    \/ loop_policy[q] # None /\ q \in b.skipped /\ b.target = on_success[q]
    \/ /\ loop_policy[q] # None /\ loop_policy[on_success[q]] # None
       /\ {q, on_success[q]} \subseteq b.skipped /\ b.target = on_success[on_success[q]]

-----------------------------------------------------------------------------
(* reducer.py: the seam, stage by stage *)

\* A target that is safe to enter: the cycle is timed, or starts on this edge.
Enters(s, target) == target \in InsideCycle => s.active \/ StartEdge(s, target)

\* What every stage of the seam keeps: d follows the first look at the timer, b the
\* bypass, r the second look, u the advance.
TimedTarget(d) == d.target \in InsideCycle => d.state.active

TimedOrBypassed(b) ==
    b.target \in InsideCycle
        => b.state.active \/ (b.target = start_entry /\ start_source \in b.skipped)

\* A cycle that was being timed: it still is, for as long, or it is being left.
StillTimed(s, t, d) ==
    \/ /\ d.state.active /\ d.state.consumed = s.consumed
       /\ d.target = guarded_entry => ~expired(s, guarded_entry, t)
    \/ d.target \in {end_entry, finalization_target}

LEMMA FirstLook ==
    ASSUME CycleHasOneEntry, NEW s, NEW target, NEW t, NEW d, TimerActs(s, target, t, d)
    PROVE  /\ Enters(s, target) => TimedTarget(d)
           /\ s.active => StillTimed(s, t, d)
<1>1. CASE TimerStops(s, target, d)
  BY <1>1 DEF TimerStops, TimedTarget, StillTimed, CycleHasOneEntry
<1>2. CASE TimerStarts(s, target, d)
  BY <1>2 DEF TimerStarts, TimedTarget
<1>3. CASE TimerRedirects(s, target, d)
  BY <1>3 DEF TimerRedirects, TimedTarget, StillTimed, CycleHasOneEntry
<1>4. CASE TimerKeeps(s, target, t, d)
  BY <1>4 DEF TimerKeeps, TimedTarget, StillTimed, Enters, Same, SamePlace
<1> QED BY <1>1, <1>2, <1>3, <1>4 DEF TimerActs

\* Success edges enter the cycle only from inside it or at its start, and neither
\* the failed route nor the terminal phase is the success of a bypassed phase.
LEMMA BypassLeads ==
    ASSUME NEW q \in Phases, NEW b, Led(q, b)
    PROVE  /\ CycleHasOneEntry /\ q \in {end_entry, finalization_target}
                => b.target \notin InsideCycle
           /\ CycleHasOneEntry /\ b.target \in InsideCycle
                => q \in InsideCycle \/ (b.target = start_entry /\ start_source \in b.skipped)
           /\ FailedRouteMeansFailure /\ q # failed_route => b.target # failed_route
           /\ SuccessIsRouted /\ q # terminal_phase => b.target # terminal_phase
<1>1. ASSUME CycleHasOneEntry, NEW p \in Phases, on_success[p] \in InsideCycle
      PROVE  p \in InsideCycle \/ (p = start_source /\ on_success[p] = start_entry)
  BY <1>1, PhaseTypes DEF routed, CycleHasOneEntry
<1>2. CycleHasOneEntry /\ q \in {end_entry, finalization_target} => b.target \notin InsideCycle
  BY <1>1, PhaseTypes DEF CycleHasOneEntry, Led
<1>3. CycleHasOneEntry /\ b.target \in InsideCycle
        => q \in InsideCycle \/ (b.target = start_entry /\ start_source \in b.skipped)
  BY <1>1, PhaseTypes DEF CycleHasOneEntry, Led
<1>4. FailedRouteMeansFailure /\ q # failed_route => b.target # failed_route
  BY PhaseTypes DEF FailedRouteMeansFailure, Led
<1>5. SuccessIsRouted /\ q # terminal_phase => b.target # terminal_phase
  BY PhaseTypes DEF SuccessIsRouted, Led
<1> QED BY <1>2, <1>3, <1>4, <1>5

LEMMA SecondLook ==
    ASSUME NEW b, Bounded(b.state), b.target \in Phases, NEW t,
           NEW just \in BOOLEAN, just => b.state.active,
           NEW r, r = with_bypassed_cycle_timing(b, t, just)
    PROVE  /\ Routes(b.state, r.state) /\ Retimed(b.state, r.state)
           /\ r.target \in Phases /\ r.target \in {b.target, finalization_target}
           /\ CycleHasOneEntry /\ TimedOrBypassed(b) => TimedTarget(r)
           /\ CycleHasOneEntry /\ b.state.active /\ ~just /\ r.target = guarded_entry
                => /\ r.state.consumed = b.state.consumed
                   /\ b.target = guarded_entry
                   /\ b.skipped = {} \/ ~expired(b.state, guarded_entry, t)
<1>1. CASE b.skipped = {} \/ just
  <2>1. r.state = b.state /\ r.target = b.target
    BY <1>1 DEF with_bypassed_cycle_timing
  <2> QED BY <1>1, <2>1, KeepsItself
       DEF TimedOrBypassed, TimedTarget, Keeps, Same, SamePlace, Retimed
<1>2. CASE ~(b.skipped = {} \/ just)
  <2> DEFINE e == apply_cycle_timebox(b.state, b.target, t)
             f == start_cycle_for_bypassed_start_source(e.state, e.target, b.skipped)
  <2>1. r.state = f /\ r.target = e.target
    BY <1>2 DEF with_bypassed_cycle_timing
  <2>2. /\ Routes(b.state, e.state) /\ Retimed(b.state, e.state)
        /\ e.target \in Phases /\ e.target \in {b.target, finalization_target}
        /\ TimerActs(b.state, b.target, t, e)
    BY TimeboxRoutes, Zenon
  <2> HIDE DEF e
  <2>3. IF ~e.state.active /\ e.target = start_entry /\ start_source \in b.skipped
        THEN f = started(e.state) ELSE f = e.state
    BY DEF start_cycle_for_bypassed_start_source
  <2> HIDE DEF f
  <2>4. /\ Routes(e.state, f) /\ Retimed(e.state, f)
        /\ IF ~e.state.active /\ e.target = start_entry /\ start_source \in b.skipped
           THEN f.active ELSE f.active = e.state.active /\ f.consumed = e.state.consumed
    BY <2>2, <2>3, StartedRoutes, KeepsItself
       DEF Routes, Reduces, Keeps, Same, SamePlace, Retimed
  <2>5. Routes(b.state, f) /\ Retimed(b.state, f)
    BY <2>2, <2>4, Transitive DEF Routes, Retimed, SameAccount
  <2>6. ASSUME CycleHasOneEntry, TimedOrBypassed(b) PROVE TimedTarget(r)
    <3>1. CASE TimerKeeps(b.state, b.target, t, e)
      BY <2>1, <2>4, <2>6, <3>1
         DEF TimerKeeps, Same, SamePlace, TimedOrBypassed, TimedTarget
    <3>2. CASE TimerStarts(b.state, b.target, e)
      BY <2>1, <2>4, <3>2, Zenon DEF TimerStarts, TimedTarget
    <3>3. CASE TimerStops(b.state, b.target, e) \/ TimerRedirects(b.state, b.target, e)
      BY <2>1, <2>6, <3>3 DEF TimerStops, TimerRedirects, TimedTarget, CycleHasOneEntry
    <3> QED BY <2>2, <3>1, <3>2, <3>3 DEF TimerActs
  <2>7. ASSUME CycleHasOneEntry, b.state.active, r.target = guarded_entry
        PROVE  /\ r.state.consumed = b.state.consumed
               /\ b.target = guarded_entry
               /\ ~expired(b.state, guarded_entry, t)
    <3>1. guarded_entry \in InsideCycle /\ ~({end_entry, finalization_target} \cap InsideCycle # {})
      BY <2>7, CycleEntries DEF CycleHasOneEntry
    <3>2. TimerKeeps(b.state, b.target, t, e)
      BY <2>1, <2>2, <2>7, <3>1
         DEF TimerActs, TimerStops, TimerStarts, TimerRedirects
    <3> QED BY <2>1, <2>4, <2>7, <3>2, Zenon DEF TimerKeeps, Same, SamePlace
  <2> QED BY <2>1, <2>2, <2>5, <2>6, <2>7
<1> QED BY <1>1, <1>2

\* What a route leaves behind, whatever its target became on the way.
Routed(s, target, t, u) ==
    /\ u.previous_phase = s.phase
    /\ u.epoch = 0
    /\ u.active => u.phase \notin OutsideCycle
    /\ CycleHasOneEntry /\ Enters(s, target) => (u.phase \in InsideCycle => u.active)
    /\ CycleHasOneEntry /\ s.active /\ u.phase = guarded_entry
          => u.consumed = s.consumed /\ ~expired(s, guarded_entry, t)
    /\ FailedRouteMeansFailure /\ target # failed_route => u.phase # failed_route
    /\ SuccessIsRouted /\ target # terminal_phase => u.phase # terminal_phase

\* It depends on the place only.
LEMMA RoutedFromSame ==
    ASSUME NEW s, NEW w, SamePlace(s, w), NEW target, NEW t, NEW u, Routed(w, target, t, u),
           NEW v, SamePlace(u, v)
    PROVE  Routed(s, target, t, v)
BY DEF Routed, SamePlace, Enters, StartEdge, expired

LEMMA RouteLands ==
    ASSUME NEW s, Bounded(s), NEW target \in Phases, NEW t, NEW u, u = route(s, target, t)
    PROVE  Routes(s, u) /\ Routed(s, target, t, u) /\ SameAccount(s, u)
<1> DEFINE d    == apply_cycle_timebox(s, target, t)
           here == resolve_exhausted_analysis_bypass(d.state, s.phase)
           there == resolve_exhausted_analysis_bypass(d.state, d.target)
           leavesForward == role[s.phase] = "analysis" /\ on_success[s.phase] = d.target
           b    == IF leavesForward /\ here.skipped # {} THEN here ELSE there
           r    == with_bypassed_cycle_timing(b, t, d.started)
           c    == conclude_cycle_on_route_out_of_cycle(r.state, r.target)
<1>1. prepare_phase_advance(s, target, t) = [state |-> c, target |-> r.target]
  BY DEF prepare_phase_advance
<1>2. /\ Routes(s, d.state) /\ Retimed(s, d.state)
      /\ d.target \in Phases /\ d.target \in {target, finalization_target}
      /\ d.started \in BOOLEAN /\ (d.started => d.state.active /\ ~s.active)
      /\ TimerActs(s, target, t, d)
  BY TimeboxRoutes, Zenon
<1> HIDE DEF d
<1>3. CycleHasOneEntry => /\ Enters(s, target) => TimedTarget(d)
                          /\ s.active => StillTimed(s, t, d)
  BY <1>2, FirstLook, ZenonT(60)
<1>4. /\ Keeps(d.state, here.state) /\ here.target \in Phases /\ Skips(s.phase, here)
      /\ Keeps(d.state, there.state) /\ there.target \in Phases /\ Skips(d.target, there)
  BY <1>2, BypassKeeps, Zenon DEF Routes, Reduces, Bounded, PipelineState
<1> HIDE DEF here, there
<1>5. /\ Keeps(d.state, b.state) /\ b.target \in Phases
      /\ Led(d.target, b) /\ (b.skipped = {} => b.target = d.target)
  BY <1>4, Zenon DEF Skips, Led
<1> HIDE DEF b, leavesForward
<1>6. Routes(s, b.state) /\ Bounded(b.state) /\ Retimed(s, b.state) /\ Same(d.state, b.state)
  BY <1>2, <1>5, Transitive DEF Keeps, Routes, Reduces, Same, SamePlace, Retimed, SameAccount
<1>7. b.state.active = d.state.active /\ b.state.consumed = d.state.consumed
  BY <1>6 DEF Same, SamePlace
<1>8. /\ Routes(b.state, r.state) /\ Retimed(b.state, r.state)
      /\ r.target \in Phases /\ r.target \in {b.target, finalization_target}
      /\ CycleHasOneEntry /\ TimedOrBypassed(b) => TimedTarget(r)
      /\ CycleHasOneEntry /\ b.state.active /\ ~d.started /\ r.target = guarded_entry
            => /\ r.state.consumed = b.state.consumed
               /\ b.target = guarded_entry
               /\ b.skipped = {} \/ ~expired(b.state, guarded_entry, t)
  BY <1>2, <1>5, <1>6, <1>7, SecondLook, ZenonT(60)
<1> HIDE DEF r
<1>9. /\ Routes(r.state, c) /\ Retimed(r.state, c) /\ c.consumed = r.state.consumed
      /\ c.active <=> r.state.active /\ r.target \notin OutsideCycle
  <2>1. c = conclude_cycle_on_route_out_of_cycle(r.state, r.target) /\ Bounded(r.state)
    BY <1>8, Zenon DEF Routes, Reduces
  <2> HIDE DEF c
  <2> QED BY <2>1, RouteOutRoutes
<1> HIDE DEF c
<1>10. Routes(s, c) /\ Bounded(c) /\ Retimed(s, c)
  BY <1>6, <1>8, <1>9, Transitive, Zenon DEF Routes, Reduces, Retimed, SameAccount
<1>11. u = advance_phase(c, r.target)
  BY <1>1 DEF route
<1>12. /\ Routes(c, u) /\ SameAccount(c, u)
       /\ u.phase = r.target /\ u.previous_phase = c.phase /\ u.epoch = 0
       /\ u.active = c.active /\ u.consumed = c.consumed
  BY <1>8, <1>10, <1>11, Advances
<1>13. Routes(s, u) /\ SameAccount(s, u) /\ u.previous_phase = s.phase
  BY <1>10, <1>12, Transitive DEF Routes, Retimed, SameAccount
<1>14. u.active => u.phase \notin OutsideCycle
  BY <1>9, <1>12
<1>15. ASSUME CycleHasOneEntry, Enters(s, target), u.phase \in InsideCycle PROVE u.active
  <2>1. TimedOrBypassed(b)
    BY <1>2, <1>3, <1>5, <1>7, <1>15, BypassLeads, ZenonT(60) DEF TimedTarget, TimedOrBypassed
  <2>2. r.state.active
    BY <1>8, <1>12, <1>15, <2>1 DEF TimedTarget
  <2> QED BY <1>9, <1>12, <1>15, <2>2 DEF InsideCycle
<1>16. ASSUME CycleHasOneEntry, s.active, u.phase = guarded_entry
       PROVE  u.consumed = s.consumed /\ ~expired(s, guarded_entry, t)
  <2>1. b.target \in InsideCycle
    BY <1>8, <1>12, <1>16, CycleEntries DEF CycleHasOneEntry
  <2>2. /\ d.state.active /\ d.state.consumed = s.consumed
        /\ d.target = guarded_entry => ~expired(s, guarded_entry, t)
    BY <1>2, <1>3, <1>5, <1>16, <2>1, BypassLeads, ZenonT(60) DEF StillTimed
  <2>3. /\ r.state.consumed = b.state.consumed /\ b.target = guarded_entry
        /\ b.skipped = {} \/ ~expired(b.state, guarded_entry, t)
    BY <1>2, <1>7, <1>8, <1>12, <1>16, <2>2, Zenon
  <2> QED BY <1>5, <1>7, <1>9, <1>12, <1>16, <2>2, <2>3, ZenonT(60) DEF expired
<1>17. /\ FailedRouteMeansFailure /\ target # failed_route => u.phase # failed_route
       /\ SuccessIsRouted /\ target # terminal_phase => u.phase # terminal_phase
  <2>1. FailedRouteMeansFailure => finalization_target # failed_route
    BY DEF FailedRouteMeansFailure
  <2>2. SuccessIsRouted => finalization_target # terminal_phase
    BY DEF SuccessIsRouted
  <2> QED BY <1>2, <1>5, <1>8, <1>12, <2>1, <2>2, BypassLeads, ZenonT(60)
<1> QED BY <1>12, <1>13, <1>14, <1>15, <1>16, <1>17, Zenon DEF Routed

-----------------------------------------------------------------------------
(* reducer.py, recovery/controller.py: giving a phase up *)

\* The failed route remembers where it came from and leaves the timer alone.
Fails(s, u) ==
    /\ u.phase = failed_route /\ u.previous_phase = s.phase
    /\ u.active = s.active /\ u.consumed = s.consumed
    /\ u.epoch <= s.epoch + 1
    /\ u.override = s.override

LEMMA FailsFromSame ==
    ASSUME NEW s, NEW w, SamePlace(s, w), w.override = s.override, NEW u, Fails(w, u),
           NEW v, Same(u, v)
    PROVE  Fails(s, v)
BY DEF SamePlace, Same, SameAccount, Fails

\* Writing the recovery counters.
Recounted(a, n, u) ==
    /\ Routes(a, u) /\ SameAccount(a, u)
    /\ u.phase = a.phase /\ u.previous_phase = a.previous_phase
    /\ u.active = a.active /\ u.consumed = a.consumed /\ u.epoch = n

LEMMA RecoveryCounters ==
    ASSUME NEW a, Bounded(a), NEW n \in Nat, NEW m \in Nat,
           NEW u, u = [a EXCEPT !.epoch = n, !.cycles = m]
    PROVE  Recounted(a, n, u)
<1>1. u \in PipelineState /\ a \in PipelineState /\ a.consumed \in Nat
  BY Zenon DEF PipelineState, Bounded
<1>2. /\ u.phase = a.phase /\ u.previous_phase = a.previous_phase
      /\ u.active = a.active /\ u.consumed = a.consumed /\ u.epoch = n
      /\ u.loop = a.loop /\ u.worked = a.worked /\ u.pending = a.pending
      /\ u.override = a.override /\ u.progress = a.progress
  BY <1>1
<1> QED BY <1>1, <1>2 DEF Routes, Reduces, Bounded, ClockKept, VerdictStays, SameAccount, Recounted

LEMMA NextEpoch ==
    ASSUME NEW s, Bounded(s)
    PROVE  Saturate(s.epoch + 1, cycle_cap) \in Nat /\ Saturate(s.epoch + 1, cycle_cap) <= s.epoch + 1
BY CounterAssumption DEF Bounded, PipelineState, Saturate

LEMMA FailedRecovery ==
    ASSUME NEW s, Bounded(s), NEW u, u = enter_failed_recovery(s)
    PROVE  Routes(s, u) /\ Fails(s, u)
<1> DEFINE a == advance_phase(s, failed_route)
           n == Saturate(s.epoch + 1, cycle_cap)
           b == [a EXCEPT !.epoch = n]
<1>1. /\ Routes(s, a) /\ Bounded(a) /\ SameAccount(s, a)
      /\ a.phase = failed_route /\ a.previous_phase = s.phase
      /\ a.active = s.active /\ a.consumed = s.consumed
  BY PhaseTypes, Advances DEF Routes, Reduces
<1>2. u = apply_execution_cycle_outcome(s, s.phase, b)
  BY DEF enter_failed_recovery
<1>3. n \in Nat /\ n <= s.epoch + 1
  BY NextEpoch
<1> HIDE DEF a, n
<1>4. b = [a EXCEPT !.epoch = n, !.cycles = a.cycles] /\ a.cycles \in Nat
  BY <1>1, Zenon DEF Bounded, PipelineState
<1> HIDE DEF b
<1>5. Recounted(a, n, b)
  BY <1>1, <1>3, <1>4, RecoveryCounters, ZenonT(60)
<1>6. Keeps(b, u)
  BY <1>2, <1>5, ChargeKeeps, Zenon DEF Bounded, PipelineState, Routes, Reduces, Recounted
<1>7. Routes(s, u)
  BY <1>1, <1>5, <1>6, Transitive, Zenon DEF Keeps, Routes, Recounted
<1>8. Fails(s, b) /\ SamePlace(s, s)
  BY <1>1, <1>3, <1>5 DEF Fails, SameAccount, SamePlace, Recounted
<1> QED BY <1>6, <1>7, <1>8, FailsFromSame DEF Keeps

\* None of the detours below starts a cycle.
NoCycleStarted(s, t) == t.active => s.active

LEMMA PhaseFailed ==
    ASSUME NEW s, Bounded(s), NEW counted \in BOOLEAN, NEW u, u = enter_phase_failed(s, counted)
    PROVE  Routes(s, u) /\ NoCycleStarted(s, u) /\ Fails(s, u)
<1> DEFINE a == advance_phase(s, failed_route)
           n == Saturate(s.epoch + 1, cycle_cap)
           m == IF counted THEN Saturate(s.cycles + 1, cycle_cap + 1) ELSE a.cycles
<1>1. u = [a EXCEPT !.epoch = n, !.cycles = m] /\ n \in Nat /\ n <= s.epoch + 1
  BY NextEpoch, Zenon DEF enter_phase_failed
<1>2. /\ Routes(s, a) /\ Bounded(a) /\ SameAccount(s, a)
      /\ a.phase = failed_route /\ a.previous_phase = s.phase
      /\ a.active = s.active /\ a.consumed = s.consumed
  BY PhaseTypes, Advances DEF Routes, Reduces
<1> HIDE DEF a, n
<1>3. m \in Nat
  BY <1>2, CounterAssumption DEF Bounded, PipelineState, Saturate
<1> HIDE DEF m
<1>4. Recounted(a, n, u)
  BY <1>1, <1>2, <1>3, RecoveryCounters, Zenon
<1>5. Routes(s, u)
  BY <1>2, <1>4, Transitive DEF Routes, Recounted
<1> QED BY <1>1, <1>2, <1>4, <1>5 DEF Recounted, Fails, SameAccount, NoCycleStarted

-----------------------------------------------------------------------------
(* reducer.py: where the handlers lead *)

\* What exit code 0 is meant to certify.
BudgetSpent(s) == \A c \in BudgetCounters : s.progress[c] >= budget_cap[c]

\* An event that is not a failure: the run stays, or takes an edge of its phase.
MovesOn(s, t, u) ==
    /\ u.override \in {s.override, None} \cup overrides
    /\ \/ Same(s, u)
       \/ \E target \in routed(s.phase) :
             /\ Routed(s, target, t, u)
             /\ SuccessIsRouted /\ target = terminal_phase => BudgetSpent(u)

\* What a handler does to a state w that the event's counters were written to.
LEMMA RouteMoves ==
    ASSUME NEW s, NEW w, Bounded(w), SamePlace(s, w),
           w.override \in {s.override, None} \cup overrides,
           NEW target \in routed(s.phase), target \in Phases, NEW t,
           SuccessIsRouted => target # terminal_phase,
           NEW u, u = route(w, target, t)
    PROVE  Routes(w, u) /\ MovesOn(s, t, u)
<1>1. Routes(w, u) /\ Routed(w, target, t, u) /\ u.override = w.override
  BY RouteLands DEF SameAccount
<1>2. SamePlace(u, u)
  BY DEF SamePlace
<1>3. Routed(s, target, t, u)
  BY <1>1, <1>2, RoutedFromSame, Zenon
<1> QED BY <1>1, <1>3, ZenonT(60) DEF MovesOn

LEMMA AgentSuccess ==
    ASSUME NEW s, Bounded(s), s.phase # terminal_phase, NEW t,
           NEW u, u = handle_agent_success(s, t)
    PROVE  /\ Routes(s, u)
           /\ (role[s.phase] = "commit" => ~s.agent_invoked) => MovesOn(s, t, u)
<1> DEFINE v == [s EXCEPT !.agent_invoked = TRUE]
<1>1. s \in PipelineState /\ s.phase \in Phases /\ on_success[s.phase] \in Phases
  BY PhaseTypes DEF Bounded, PipelineState
<1>2. v \in PipelineState
  BY <1>1, Zenon DEF PipelineState
<1>3. Same(s, v) /\ v.loop = s.loop /\ v.worked = s.worked /\ v.pending = s.pending
  BY <1>1 DEF Same, SamePlace, SameAccount
<1>4. IF role[s.phase] = "commit" /\ ~s.agent_invoked THEN u = v
      ELSE u = route(s, on_success[s.phase], t)
  BY Zenon DEF handle_agent_success
<1> HIDE DEF v
<1>5. Keeps(s, v)
  <2>1. Bounded(v)
    BY <1>2, <1>3, Zenon DEF Bounded, Same, SamePlace
  <2>2. ClockKept(s, v) /\ VerdictStays(s, v)
    <3>1. s.consumed \in Nat
      BY DEF Bounded, PipelineState
    <3>2. s.consumed <= s.consumed
      BY <3>1
    <3> QED BY <1>3, <3>2, Zenon DEF ClockKept, VerdictStays, Same, SamePlace
  <2> QED BY <1>3, <2>1, <2>2, Zenon DEF Keeps, Routes, Reduces
<1>6. u = v => Routes(s, u) /\ MovesOn(s, t, u)
  BY <1>5 DEF Keeps, Same, SameAccount, MovesOn
<1>7. u = route(s, on_success[s.phase], t) => Routes(s, u)
  BY <1>1, RouteLands, Zenon
<1>8. ASSUME u = route(s, on_success[s.phase], t), role[s.phase] # "commit"
      PROVE  MovesOn(s, t, u)
  <2>1. SuccessIsRouted => on_success[s.phase] # terminal_phase
    BY <1>1, <1>8, Zenon DEF SuccessIsRouted
  <2>2. on_success[s.phase] \in routed(s.phase) /\ SamePlace(s, s)
    BY <1>1, PhaseTypes DEF routed, SamePlace
  <2> QED BY <1>1, <1>8, <2>1, <2>2, RouteMoves, ZenonT(60)
<1> QED BY <1>4, <1>6, <1>7, <1>8, Zenon

\* Handing a status and a target for the commit to the phases that follow.
HandsOver(s, o, u) ==
    Routes(s, u) /\ SamePlace(s, u) /\ u.override = o /\ u.progress = s.progress

LEMMA Handoff ==
    ASSUME NEW s, Bounded(s), NEW o \in Phases \cup {None}, NEW r \in Status \cup {None},
           NEW u, u = [s EXCEPT !.override = o, !.status = r]
    PROVE  HandsOver(s, o, u)
<1>1. u \in PipelineState /\ s \in PipelineState /\ s.consumed \in Nat
  BY ZenonT(60) DEF PipelineState, Bounded
<1>2. /\ SamePlace(s, u) /\ u.override = o /\ u.progress = s.progress
      /\ u.loop = s.loop /\ u.worked = s.worked /\ u.pending = s.pending
  BY <1>1 DEF SamePlace
<1> QED BY <1>1, <1>2
     DEF HandsOver, Routes, Reduces, Bounded, ClockKept, VerdictStays, SamePlace

LEMMA ExecutionResult ==
    ASSUME NEW s, Bounded(s), s.phase # terminal_phase, role[s.phase] # "commit",
           NEW result \in Status, NEW t, NEW u, u = handle_execution_result(s, result, t)
    PROVE  Routes(s, u) /\ MovesOn(s, t, u)
<1> DEFINE o == result_status_post_commit[s.phase][result]
           w == [s EXCEPT !.override = o, !.status = result]
<1>1. s.phase \in Phases /\ on_success[s.phase] \in Phases
  BY PhaseTypes DEF Bounded, PipelineState
<1>2. o \in Phases \cup {None} /\ o \in overrides \cup {None}
  BY <1>1, PhaseGraphAssumption DEF references_known_phases, overrides
<1>3. u = route(w, on_success[s.phase], t)
  BY DEF handle_execution_result
<1>4. HandsOver(s, o, w)
  BY <1>2, Handoff, Zenon
<1>5. SuccessIsRouted => on_success[s.phase] # terminal_phase
  BY <1>1 DEF SuccessIsRouted
<1>6. on_success[s.phase] \in routed(s.phase)
  BY <1>1, PhaseTypes, Zenon DEF routed
<1> HIDE DEF w, o
<1>7. Routes(w, u) /\ MovesOn(s, t, u)
  BY <1>1, <1>2, <1>3, <1>4, <1>5, <1>6, RouteMoves DEF HandsOver, Routes, Reduces
<1> QED BY <1>4, <1>7, Transitive DEF HandsOver, Routes

LEMMA MovesToSame ==
    ASSUME NEW s, NEW t, NEW u, MovesOn(s, t, u), NEW v, Same(u, v)
    PROVE  MovesOn(s, t, v)
<1>1. SamePlace(s, s) /\ SamePlace(u, v) /\ u.override = v.override /\ u.progress = v.progress
  BY DEF Same, SamePlace, SameAccount
<1>2. Same(s, u) => Same(s, v)
  BY DEF Same, SamePlace, SameAccount
<1>3. BudgetSpent(u) => BudgetSpent(v)
  BY <1>1 DEF BudgetSpent
<1>4. ASSUME NEW target, Routed(s, target, t, u) PROVE Routed(s, target, t, v)
  BY <1>1, <1>4, RoutedFromSame, Zenon
<1> QED BY <1>1, <1>2, <1>3, <1>4, ZenonT(60) DEF MovesOn

LEMMA PhaseLoopback ==
    ASSUME NEW s, Bounded(s), s.phase # terminal_phase, role[s.phase] = "commit_cleanup", NEW t,
           NEW u, u = handle_phase_loopback(s, t)
    PROVE  Routes(s, u) /\ (MovesOn(s, t, u) \/ (Fails(s, u) /\ ~FailedRouteMeansFailure))
<1> DEFINE c == IF loop_policy[s.phase] = None THEN s ELSE apply_analysis_loopback(s, s.phase)
<1>1. s.phase \in Phases /\ on_loopback[s.phase] \in Phases \cup {None}
  BY PhaseTypes DEF Bounded, PipelineState
<1>2. Keeps(s, c)
  BY <1>1, KeepsItself, LoopbackKeeps
<1>3. u = IF on_loopback[s.phase] = None THEN enter_failed_recovery(c)
          ELSE route(c, on_loopback[s.phase], t)
  BY DEF handle_phase_loopback
<1> HIDE DEF c
<1>4. Bounded(c) /\ Routes(s, c) /\ SamePlace(s, c) /\ c.override = s.override
  BY <1>2 DEF Keeps, Routes, Reduces, Same, SameAccount
<1>5. CASE on_loopback[s.phase] = None
  <2>1. Routes(c, u) /\ Fails(c, u) /\ Same(u, u)
    BY <1>3, <1>4, <1>5, FailedRecovery DEF Same, SamePlace, SameAccount
  <2>2. Fails(s, u)
    BY <1>4, <2>1, FailsFromSame, Zenon
  <2>3. ~FailedRouteMeansFailure
    BY <1>1, <1>5, Zenon DEF FailedRouteMeansFailure
  <2> QED BY <1>4, <2>1, <2>2, <2>3, Transitive, Zenon DEF Routes
<1>6. CASE on_loopback[s.phase] # None
  <2>1. on_loopback[s.phase] \in routed(s.phase) /\ on_loopback[s.phase] \in Phases
    BY <1>1, <1>6 DEF routed
  <2>2. SuccessIsRouted => on_loopback[s.phase] # terminal_phase
    BY <1>1 DEF SuccessIsRouted
  <2>3. Routes(c, u) /\ MovesOn(s, t, u)
    BY <1>3, <1>4, <1>6, <2>1, <2>2, RouteMoves, Zenon
  <2> QED BY <1>4, <2>3, Transitive DEF Routes
<1> QED BY <1>5, <1>6

\* An analysis is the one handler that may write a verdict over another.
LEMMA AnalysisDecision ==
    ASSUME NEW s, Bounded(s), s.phase # terminal_phase,
           NEW d \in Decision, decisions[s.phase][d] # None, NEW t,
           NEW u, u = handle_analysis_decision(s, d, t)
    PROVE  Reduces(s, u) /\ (MovesOn(s, t, u) \/ (Fails(s, u) /\ ~FailedRouteMeansFailure))
<1> DEFINE r == decisions[s.phase][d]
           looped == IF loop_policy[s.phase] = None THEN s
                     ELSE IF r.reset_loop THEN reset_loops(s, {loop_policy[s.phase]})
                     ELSE apply_analysis_loopback(s, s.phase)
           counted == apply_budget_counter_increment(looped, r.increments)
           verdict == [counted EXCEPT !.pending = r.outcome]
           judged == IF r.outcome = None THEN counted ELSE verdict
<1>1. s.phase \in Phases
  BY Zenon DEF Bounded, PipelineState
<1>2. /\ r.target \in Phases /\ r.outcome \in Outcomes \cup {None}
      /\ r.increments \in BudgetCounters \cup {None}
  BY <1>1, PhaseGraphAssumption DEF Route, references_known_phases
<1>3. r.target \in decision_targets(s.phase)
  BY Zenon DEF decision_targets
<1>4. u = IF r.target = failed_route THEN enter_failed_recovery(judged)
          ELSE route(judged, r.target, t)
  BY DEF handle_analysis_decision
<1> HIDE DEF r
<1>5. Keeps(s, looped)
  BY <1>1, KeepsItself, LoopbackKeeps, ResetKeeps, ZenonT(60)
<1> HIDE DEF looped
<1>6. Routes(looped, counted) /\ SamePlace(looped, counted) /\ counted.override = looped.override
  BY <1>2, <1>5, IncrementRoutes, Zenon DEF Keeps, Routes, Reduces
<1> HIDE DEF counted
<1>7. Reduces(s, counted) /\ SamePlace(s, counted) /\ counted.override = s.override
  BY <1>5, <1>6, Transitive DEF Keeps, Routes, Same, SamePlace, SameAccount
<1>8. verdict \in PipelineState /\ counted \in PipelineState
  BY <1>2, <1>7, Zenon DEF Reduces, Bounded, PipelineState
<1>9. /\ SamePlace(counted, verdict) /\ verdict.override = counted.override
      /\ verdict.loop = counted.loop /\ verdict.worked = counted.worked
  BY <1>8 DEF SamePlace
<1> HIDE DEF verdict
<1>10. Reduces(s, verdict) /\ SamePlace(s, verdict) /\ verdict.override = s.override
  BY <1>7, <1>8, <1>9 DEF Reduces, Bounded, ClockKept, SamePlace
<1>11. Bounded(judged) /\ Reduces(s, judged) /\ SamePlace(s, judged) /\ judged.override = s.override
  BY <1>7, <1>10, Zenon DEF Reduces
<1> HIDE DEF judged
<1>12. CASE r.target = failed_route
  <2>1. Routes(judged, u) /\ Fails(judged, u) /\ Same(u, u)
    BY <1>4, <1>11, <1>12, FailedRecovery DEF Same, SamePlace, SameAccount
  <2>2. Fails(s, u)
    BY <1>11, <2>1, FailsFromSame, ZenonT(60)
  <2>3. ~FailedRouteMeansFailure
    BY <1>1, <1>3, <1>12 DEF FailedRouteMeansFailure
  <2> QED BY <1>11, <2>1, <2>2, <2>3, Transitive, Zenon DEF Routes
<1>13. CASE r.target # failed_route
  <2>1. r.target \in routed(s.phase)
    BY <1>3 DEF routed
  <2>2. SuccessIsRouted => r.target # terminal_phase
    BY <1>1, <1>3, Zenon DEF SuccessIsRouted
  <2>3. Routes(judged, u) /\ MovesOn(s, t, u)
    BY <1>2, <1>4, <1>11, <1>13, <2>1, <2>2, RouteMoves, Zenon
  <2> QED BY <1>11, <2>3, Transitive DEF Routes
<1> QED BY <1>12, <1>13

LEMMA ChainExhausted ==
    ASSUME NEW s, Bounded(s), s.phase # terminal_phase, NEW t,
           NEW u, u = handle_chain_exhausted(s, t)
    PROVE  Routes(s, u) /\ (MovesOn(s, t, u) \/ Fails(s, u))
<1> DEFINE q == workflow_fallback[s.phase]
           r == route(s, q, t)
<1>1. s.phase \in Phases /\ q \in Phases \cup {None}
  BY PhaseTypes DEF Bounded, PipelineState
<1>2. CASE q = None
  BY <1>2, FailedRecovery DEF handle_chain_exhausted
<1>3. CASE q # None
  <2>1. q \in routed(s.phase) /\ q \in Phases /\ SamePlace(s, s)
    BY <1>1, <1>3 DEF routed, SamePlace
  <2>2. SuccessIsRouted => q # terminal_phase
    BY <1>1 DEF SuccessIsRouted
  <2>3. u = apply_execution_cycle_outcome(s, s.phase, r)
    BY <1>3, Zenon DEF handle_chain_exhausted
  <2>4. Routes(s, r) /\ MovesOn(s, t, r)
    BY <2>1, <2>2, RouteMoves
  <2> HIDE DEF r
  <2>5. Keeps(r, u)
    BY <1>1, <2>3, <2>4, ChargeKeeps DEF Routes, Reduces
  <2> QED BY <2>4, <2>5, Transitive, MovesToSame, Zenon DEF Keeps, Routes
<1> QED BY <1>2, <1>3

LEMMA PostCommitPhase ==
    ASSUME NEW s, Bounded(s)
    PROVE  /\ resolve_post_commit_phase(s) \in Phases
           /\ s.override \in overrides \cup {None}
                 => resolve_post_commit_phase(s) \in commit_targets(s.phase)
<1>1. resolve_post_commit_phase(s) \in Phases
  BY PhaseGraphAssumption, Zenon
     DEF Bounded, PipelineState, references_known_phases, matching_routes, PostCommitRoute,
         resolve_post_commit_phase
<1> QED BY <1>1, ZenonT(60) DEF resolve_post_commit_phase, commit_targets, matching_routes

\* A commit leads to the terminal phase only when the iteration budget is spent.
LEMMA TerminalIsEarned ==
    ASSUME SuccessIsRouted, NEW s, Bounded(s), s.phase # terminal_phase,
           s.override \in overrides \cup {None}, resolve_post_commit_phase(s) = terminal_phase
    PROVE  BudgetSpent(s)
<1> DEFINE r == CHOOSE q \in matching_routes(s) : TRUE
<1>1. s.phase \in Phases /\ s.pending \in Outcomes \cup {None} /\ s.progress \in [BudgetCounters -> Nat]
  BY DEF Bounded, PipelineState
<1>2. s.override = None
  BY Zenon DEF resolve_post_commit_phase, SuccessIsRouted
<1>3. commit_closes_a_cycle(s.phase) /\ matching_routes(s) # {}
  <2>1. on_success[s.phase] = terminal_phase => commit_closes_a_cycle(s.phase) /\ matching_routes(s) # {}
    <3> DEFINE b == compute_budget_state(s)
               o == IF s.pending = None THEN "completed" ELSE s.pending
    <3>1. b \in BudgetStates
      BY Zenon DEF compute_budget_state, BudgetStates
    <3>2. o \in Outcomes
      BY <1>1, Zenon DEF SuccessIsRouted
    <3>3. matching_routes(s) = {q \in post_commit_routes :
                                   q.phase = s.phase /\ q.budget_state = b /\ q.outcome \in {None, o}}
      BY Zenon DEF matching_routes
    <3> HIDE DEF b, o
    <3>4. on_success[s.phase] = terminal_phase =>
             commit_closes_a_cycle(s.phase) /\ post_commit_routes_cover(s.phase)
      BY <1>1, Zenon DEF SuccessIsRouted, commit_closes_a_cycle
    <3>5. post_commit_routes_cover(s.phase) => matching_routes(s) # {}
      BY <3>1, <3>2, <3>3, Zenon DEF post_commit_routes_cover
    <3> QED BY <3>4, <3>5, Zenon
  <2> QED BY <1>2, <2>1, ZenonT(60) DEF resolve_post_commit_phase
<1>4. r \in matching_routes(s) /\ r.target = terminal_phase
  <2>1. r \in matching_routes(s)
    BY <1>3
  <2>2. resolve_post_commit_phase(s)
          = IF s.override # None THEN s.override
            ELSE IF commit_closes_a_cycle(s.phase) /\ matching_routes(s) # {} THEN r.target
            ELSE on_success[s.phase]
    BY Zenon DEF resolve_post_commit_phase
  <2> HIDE DEF r
  <2> QED BY <1>2, <1>3, <2>1, <2>2, Zenon
<1> HIDE DEF r
<1> DEFINE mine == increments_counter[s.phase]
<1>5. /\ r \in post_commit_routes /\ r.phase = s.phase
      /\ r.budget_state = compute_budget_state(s)
  BY <1>4, Zenon DEF matching_routes
<1>6. \/ compute_budget_state(s) = "no_review"
      \/ compute_budget_state(s) = "exhausted" /\ BudgetCounters = {mine}
  BY <1>4, <1>5, Zenon DEF SuccessIsRouted
<1>7. /\ ~budget_remaining(s, mine)
      /\ \A other \in BudgetCounters \ {mine} : ~budget_remaining(s, other)
  <2>1. compute_budget_state(s) # "remaining"
    BY <1>6
  <2>2. compute_budget_state(s) = "no_review" =>
           \A other \in BudgetCounters \ {mine} : ~budget_remaining(s, other)
    BY Zenon DEF compute_budget_state
  <2>3. ~budget_remaining(s, mine)
    BY <2>1, Zenon DEF compute_budget_state
  <2> HIDE DEF mine
  <2> QED BY <1>6, <2>2, <2>3, Zenon
<1> HIDE DEF mine
<1>8. ASSUME NEW c \in BudgetCounters PROVE s.progress[c] >= budget_cap[c]
  <2>1. ~budget_remaining(s, c)
    BY <1>7, Zenon
  <2>2. s.progress[c] \in Nat /\ budget_cap[c] \in Nat
    BY <1>1, CounterAssumption, Zenon
  <2> QED BY <2>1, <2>2 DEF budget_remaining
<1> QED BY <1>8, Zenon DEF BudgetSpent

\* The gate passes a commit's target on, or sends the run to the success of it.
gated_targets(next) == {next} \cup (IF gate_upstream[next] # None THEN {on_success[next]} ELSE {})

LEMMA Gate ==
    ASSUME NEW s, Bounded(s), NEW next \in Phases, NEW t,
           NEW u, u = advance_through_invocation_gate(s, next, t)
    PROVE  /\ Routes(s, u) /\ SameAccount(s, u)
           /\ \E target \in gated_targets(next) : Routed(s, target, t, u)
<1> DEFINE gated    == gate_upstream[next] # None
           admitted == gated /\ gate_admits(s, next)
           denied   == gated /\ ~admitted
           target   == IF denied THEN on_success[next] ELSE next
           o        == declared_forward_cycle_outcome(next)
           stamped  == IF denied THEN stamp_outcome(s, o) ELSE s
           cleared  == [stamped EXCEPT !.status = None]
           landed   == route(cleared, target, t)
           charged  == apply_execution_cycle_outcome(landed, gate_upstream[next], landed)
<1>1. target \in Phases /\ target \in gated_targets(next)
  BY PhaseTypes DEF gated_targets
<1>2. Keeps(s, stamped)
  BY ForwardOutcomeType, StampKeeps, KeepsItself, Zenon
<1>3. u = landed \/ (gate_upstream[next] \in Phases /\ u = charged)
  BY CounterAssumption DEF advance_through_invocation_gate
<1> HIDE DEF admitted, denied, target, stamped
<1>4. stamped.override \in Phases \cup {None} /\ Bounded(stamped)
  BY <1>2 DEF Keeps, Routes, Reduces, Bounded, PipelineState
<1>5. HandsOver(stamped, stamped.override, cleared)
  <2>1. cleared = [stamped EXCEPT !.override = stamped.override, !.status = None]
    BY <1>4, Zenon
  <2> QED BY <1>4, <2>1, Handoff, Zenon
<1> HIDE DEF cleared
<1>6. Keeps(s, cleared) /\ Bounded(cleared)
  BY <1>2, <1>5, Transitive
     DEF Keeps, HandsOver, Routes, Reduces, Same, SamePlace, SameAccount
<1>7. Routes(cleared, landed) /\ Bounded(landed) /\ Routed(cleared, target, t, landed) /\ SameAccount(cleared, landed)
  BY <1>1, <1>6, RouteLands DEF Routes, Reduces
<1> HIDE DEF landed
<1>8. Keeps(landed, u)
  BY <1>3, <1>7, ChargeKeeps, KeepsItself
<1>9. Routes(s, u) /\ SameAccount(s, u)
  BY <1>6, <1>7, <1>8, Transitive DEF Keeps, Routes, Same, SameAccount
<1>10. Routed(s, target, t, u)
  BY <1>6, <1>7, <1>8, RoutedFromSame DEF Keeps, Same
<1> QED BY <1>1, <1>9, <1>10

\* Only the commit that closes a cycle consumes its verdict.
LEMMA Commits ==
    ASSUME NEW s, Bounded(s), s.phase # terminal_phase, NEW skipped \in BOOLEAN, NEW t,
           NEW u, u = handle_commit(s, skipped, t)
    PROVE  /\ Reduces(s, u)
           /\ ~commit_closes_a_cycle(s.phase) => VerdictStays(s, u)
           /\ s.override \in overrides \cup {None} => MovesOn(s, t, u)
<1> DEFINE progressed == apply_commit_outcome(s, skipped)
           next       == resolve_post_commit_phase(progressed)
           consumed   == [progressed EXCEPT !.override = None]
           open       == [consumed EXCEPT !.pending = None]
           closing    == commit_closes_a_cycle(s.phase)
           after      == IF closing THEN open ELSE consumed
<1>1. Routes(s, progressed) /\ SamePlace(s, progressed) /\ progressed.override = s.override
  BY CommitOutcomeRoutes
<1>2. u = advance_through_invocation_gate(after, next, t)
  BY DEF handle_commit
<1> HIDE DEF progressed, closing
<1>3. Bounded(progressed) /\ progressed.phase = s.phase /\ progressed.status \in Status \cup {None}
  BY <1>1 DEF Routes, Reduces, SamePlace, Bounded, PipelineState
<1>4. next \in Phases /\ (s.override \in overrides \cup {None} => next \in commit_targets(s.phase))
  BY <1>1, <1>3, PostCommitPhase, Zenon
<1>5. SuccessIsRouted /\ s.override \in overrides \cup {None} /\ next = terminal_phase
        => BudgetSpent(progressed)
  BY <1>1, <1>3, TerminalIsEarned
<1> HIDE DEF next
<1>6. HandsOver(progressed, None, consumed)
  <2>1. consumed = [progressed EXCEPT !.override = None, !.status = progressed.status]
    BY <1>3, ZenonT(60)
  <2> QED BY <1>3, <2>1, Handoff, Zenon
<1> HIDE DEF consumed
<1>7. /\ Routes(s, consumed) /\ SamePlace(s, consumed) /\ consumed.override = None
      /\ consumed.progress = progressed.progress /\ consumed \in PipelineState
  BY <1>1, <1>6, Transitive, Zenon DEF HandsOver, Routes, Reduces, Bounded, SamePlace
<1>8. open \in PipelineState
  BY <1>7, ZenonT(60) DEF PipelineState
<1>9. Same(consumed, open) /\ open.loop = consumed.loop /\ open.worked = consumed.worked
  BY <1>7 DEF Same, SamePlace, SameAccount
<1> HIDE DEF open
<1>10. Reduces(s, open) /\ SamePlace(s, open)
  BY <1>7, <1>8, <1>9, ZenonT(60) DEF Routes, Reduces, Bounded, ClockKept, Same, SamePlace
<1>11. /\ Reduces(s, after) /\ Bounded(after) /\ (~closing => Routes(s, after))
       /\ SamePlace(s, after) /\ after.override = None /\ after.progress = progressed.progress
  <2>1. CASE closing
    <3>1. after = open
      BY <2>1, Zenon
    <3> HIDE DEF after
    <3> QED BY <1>7, <1>9, <1>10, <2>1, <3>1, Zenon DEF Reduces, Same, SameAccount
  <2>2. CASE ~closing
    <3>1. after = consumed
      BY <2>2, Zenon
    <3> HIDE DEF after
    <3> QED BY <1>7, <2>2, <3>1, Zenon DEF Routes, Reduces
  <2> QED BY <2>1, <2>2, Zenon
<1> HIDE DEF after
<1>12. /\ Routes(after, u) /\ SameAccount(after, u)
       /\ \E target \in gated_targets(next) : Routed(after, target, t, u)
  BY <1>2, <1>4, <1>11, Gate, ZenonT(60)
<1>13. Reduces(s, u) /\ (~closing => VerdictStays(s, u))
  BY <1>11, <1>12, Transitive DEF Routes
<1>14. ASSUME s.override \in overrides \cup {None} PROVE MovesOn(s, t, u)
  <2>1. PICK target \in gated_targets(next) : Routed(after, target, t, u)
    BY <1>12, Zenon
  <2>2. target \in routed(s.phase)
    BY <1>4, <1>14, <2>1 DEF routed, gated_targets
  <2>3. SuccessIsRouted /\ target = terminal_phase => BudgetSpent(u)
    BY <1>4, <1>5, <1>11, <1>12, <1>14, <2>1, Zenon DEF SameAccount, BudgetSpent, SuccessIsRouted, gated_targets
  <2>4. SamePlace(u, u)
    BY DEF SamePlace
  <2>5. Routed(s, target, t, u)
    BY <1>11, <2>1, <2>4, RoutedFromSame, ZenonT(60)
  <2> QED BY <1>11, <1>12, <2>2, <2>3, <2>5, Zenon DEF MovesOn, SameAccount
<1> QED BY <1>13, <1>14 DEF closing

\* The guarded phase overran the cycle's deadline: the timer stops, and the run
\* goes where the finalization target leads.
Redirects(s, t, u) ==
    /\ s.phase = guarded_entry
    /\ SameAccount(s, u)
    /\ \E w, x :
          /\ Retimed(s, w) /\ ~w.active /\ Routed(w, x, t, u)
          /\ x = finalization_target \/ (x = s.phase /\ x = end_entry)

LEMMA Redirect ==
    ASSUME NEW s, Bounded(s), NEW t, expired(s, s.phase, t),
           NEW u, u = redirect_expired_cycle_in_place(s, t)
    PROVE  Routes(s, u) /\ Redirects(s, t, u)
<1> DEFINE d == apply_cycle_timebox(s, s.phase, t)
<1>1. /\ Routes(s, d.state) /\ Retimed(s, d.state) /\ d.target \in Phases
      /\ TimerActs(s, s.phase, t, d)
  BY TimeboxRoutes, Zenon DEF Bounded, PipelineState
<1>2. u = route(d.state, d.target, t)
  BY Zenon DEF redirect_expired_cycle_in_place
<1> HIDE DEF d
<1>3. Routes(d.state, u) /\ Routed(d.state, d.target, t, u) /\ SameAccount(d.state, u)
  BY <1>1, <1>2, RouteLands DEF Routes, Reduces
<1>4. Routes(s, u) /\ SameAccount(s, u)
  BY <1>1, <1>3, Transitive DEF Routes, Retimed, SameAccount
<1>5. s.phase = guarded_entry /\ s.active
  BY DEF expired
<1>6. /\ ~d.state.active
      /\ d.target = finalization_target \/ (d.target = s.phase /\ d.target = end_entry)
  BY <1>1, <1>5, Zenon DEF TimerActs, TimerStops, TimerStarts, TimerRedirects, TimerKeeps
<1> QED BY <1>1, <1>3, <1>4, <1>5, <1>6, Zenon DEF Redirects

-----------------------------------------------------------------------------
(* _runner_state_helpers.py: the detours that write the phase directly *)

\* The missing plan sends the run back to the entry phase, or past the cap to the
\* failed route, and stops the timer on the way out of the cycle.
Recovers(s, u) ==
    /\ u.phase = IF s.epoch >= cycle_cap THEN failed_route ELSE entry_phase
    /\ u.previous_phase = s.phase
    /\ u.active => u.phase \notin OutsideCycle
    /\ u.epoch <= s.epoch + 1
    /\ SameAccount(s, u)

LEMMA MissingPlan ==
    ASSUME NEW s, Bounded(s), NEW u, u = recover_missing_plan_handoff(s)
    PROVE  Routes(s, u) /\ NoCycleStarted(s, u) /\ Recovers(s, u)
<1> DEFINE target == IF s.epoch >= cycle_cap THEN failed_route ELSE entry_phase
           a == advance_phase(s, target)
           b == conclude_cycle_on_route_out_of_cycle(a, target)
           n == Saturate(s.epoch + 1, cycle_cap)
<1>1. u = [b EXCEPT !.epoch = n]
  BY DEF recover_missing_plan_handoff
<1>2. target \in Phases /\ n \in Nat /\ n <= s.epoch + 1
  BY PhaseTypes, NextEpoch
<1>3. /\ Routes(s, a) /\ SameAccount(s, a) /\ a.phase = target /\ a.previous_phase = s.phase
      /\ a.active = s.active
  <2>1. a = advance_phase(s, target)
    OBVIOUS
  <2> HIDE DEF a, target
  <2> QED BY <1>2, <2>1, Advances
<1> HIDE DEF a, n
<1>4. /\ Routes(a, b) /\ Retimed(a, b)
      /\ b.active <=> a.active /\ target \notin OutsideCycle
  <2>1. b = conclude_cycle_on_route_out_of_cycle(a, target) /\ Bounded(a)
    BY <1>3, Zenon DEF Routes, Reduces
  <2> HIDE DEF b, target
  <2> QED BY <2>1, RouteOutRoutes, Zenon
<1> HIDE DEF b
<1>5. Bounded(b) /\ b.cycles \in Nat
  BY <1>4 DEF Routes, Reduces, Bounded, PipelineState
<1>6. u = [b EXCEPT !.epoch = n, !.cycles = b.cycles]
  BY <1>1, Zenon
<1>7. Recounted(b, n, u)
  BY <1>2, <1>5, <1>6, RecoveryCounters, ZenonT(60)
<1>8. Routes(s, u)
  BY <1>3, <1>4, <1>7, Transitive, Zenon DEF Routes, Recounted
<1>9. NoCycleStarted(s, u)
  BY <1>3, <1>4, <1>7, Zenon DEF Recounted, NoCycleStarted
<1>10. Recovers(s, u)
  BY <1>2, <1>3, <1>4, <1>7 DEF Recovers, Recounted, Retimed, SameAccount
<1> QED BY <1>8, <1>9, <1>10

\* Where the hop out of the failed route wants to go.
reentered(s) ==
    IF s.previous_phase \in {None, failed_route} THEN entry_phase ELSE s.previous_phase

\* It consults the timer and nothing else, and keeps what led to the failure.
Reenters(s, t, u) ==
    /\ u.previous_phase = s.previous_phase
    /\ u.epoch = s.epoch
    /\ SameAccount(s, u)
    /\ \E d :
          /\ u.phase = d.target /\ u.active = d.state.active /\ u.consumed = d.state.consumed
          /\ TimerActs(s, reentered(s), t, d)

\* The hop out of the failed route starts a cycle only in a graph that declares
\* the failed route as the cycle's start.
LEMMA Reentry ==
    ASSUME NEW s, Bounded(s), NEW t, NEW u, u = reenter_from_failed_route(s, t)
    PROVE  /\ Routes(s, u) /\ Reenters(s, t, u)
           /\ s.phase # start_source => NoCycleStarted(s, u)
<1> DEFINE d == apply_cycle_timebox(s, reentered(s), t)
           i == IF role[d.target] = "commit" THEN FALSE ELSE d.state.agent_invoked
<1>1. u = [d.state EXCEPT !.phase = d.target, !.agent_invoked = i]
  BY Zenon DEF reenter_from_failed_route, reentered
<1>2. reentered(s) \in Phases
  BY PhaseTypes DEF Bounded, PipelineState, reentered
<1>3. /\ Routes(s, d.state) /\ Retimed(s, d.state) /\ d.target \in Phases
      /\ TimerActs(s, reentered(s), t, d)
  BY <1>2, TimeboxRoutes, Zenon
<1> HIDE DEF d
<1>4. d.state \in PipelineState /\ i \in BOOLEAN
  BY <1>3, Zenon DEF Routes, Reduces, Bounded, PipelineState
<1> HIDE DEF i
<1>5. u \in PipelineState
  BY <1>1, <1>3, <1>4, ZenonT(60) DEF PipelineState
<1>6. /\ u.phase = d.target /\ u.previous_phase = d.state.previous_phase
      /\ u.epoch = d.state.epoch /\ u.active = d.state.active /\ u.consumed = d.state.consumed
      /\ u.override = d.state.override /\ u.progress = d.state.progress
      /\ u.loop = d.state.loop /\ u.worked = d.state.worked /\ u.pending = d.state.pending
  BY <1>1, <1>4
<1>7. Routes(s, u)
  BY <1>3, <1>5, <1>6, ZenonT(60) DEF Routes, Reduces, Bounded, ClockKept, VerdictStays
<1>8. Reenters(s, t, u)
  BY <1>3, <1>6, ZenonT(60) DEF Reenters, Retimed, SameAccount
<1>9. s.phase # start_source => NoCycleStarted(s, u)
  BY <1>3, <1>6
    , ZenonT(60) DEF NoCycleStarted, TimerActs, TimerStops, TimerStarts, TimerRedirects, TimerKeeps,
         StartEdge, Same, SamePlace
<1> QED BY <1>7, <1>8, <1>9

\* A resume goes on with the checkpoint, or starts the timer a checkpoint of an
\* older version lacks.
LEMMA Legacy ==
    ASSUME NEW s, Bounded(s), NEW u, u = initialize_legacy_cycle_on_resume(s)
    PROVE  /\ Routes(s, u) /\ Retimed(s, u) /\ u.pending = s.pending
           /\ \/ u = s
              \/ ~s.active /\ u.active /\ u.consumed = 0
                 /\ (s.phase \in InsideCycle \/ s.phase \in {start_entry, guarded_entry})
<1>1. CASE u = s
  <2>1. Keeps(s, s)
    BY KeepsItself, Zenon
  <2> QED BY <1>1, <2>1, Zenon DEF Keeps, Same, Retimed, SameAccount
<1>2. CASE u # s
  <2>1. /\ u = started(s) /\ ~s.active
        /\ s.phase \in {start_entry, guarded_entry} \/ s.phase \notin OutsideCycle
    BY <1>2, Zenon DEF initialize_legacy_cycle_on_resume, OutsideCycle
  <2>2. Routes(s, u) /\ Retimed(s, u) /\ u.active /\ u.consumed = 0 /\ u.pending = s.pending
    BY <2>1, StartedRoutes, Zenon
  <2>3. s.phase \in InsideCycle \/ s.phase \in {start_entry, guarded_entry}
    BY <2>1, Zenon DEF InsideCycle, Bounded, PipelineState
  <2> QED BY <2>1, <2>2, <2>3, Zenon
<1> QED BY <1>1, <1>2
=============================================================================
