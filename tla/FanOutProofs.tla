---------------------------- MODULE FanOutProofs ----------------------------
(* Theorems about a fan-out wave, for every plan, worker limit and chain: the *)
(* wave's progress, the worker limit, the units that wait for a failed one,   *)
(* and that a fan-out implements PlanExecution.                               *)
EXTENDS FanOut, FiniteSetTheorems, NaturalsInduction, WellFoundedInduction, TLAPS

\* A nonempty set of naturals has a smallest element: what schedule_next_wave relies on
\* when it takes the first of its candidates.
LEMMA Smallest ==
    ASSUME NEW T, T \subseteq Nat, T # {}
    PROVE  \E x \in T : \A y \in T : x =< y
<1> DEFINE R == OpToRel(<, Nat)
<1>1. IsWellFoundedOn(R, Nat)
  BY NatLessThanWellFounded, Zenon
<1>2. PICK x \in T : \A y \in T : <<y, x>> \notin R
  <2> HIDE DEF R
  <2> QED BY <1>1, WFMin, Zenon
<1>3. \A y \in T : y < x => <<y, x>> \in R
  BY DEF OpToRel
<1>4. \A y \in T : x =< y
  <2>1. \A y \in T : ~ (y < x)
    <3> HIDE DEF R
    <3> QED BY <1>2, <1>3, Zenon
  <2> QED BY <2>1
<1> QED BY <1>4

\* What holds of every PipelineState the program has in memory or on disk, when
\* the units D have been delivered.
Sound(s, D) ==
    /\ s \in States
    /\ In(s, "succeeded") \subseteq D
    /\ BeyondTheWave(s) => D = Units /\ ~s.work_units /\ s.worker_states = NoWorkers

\* What a step keeps of the progress in the state: its successes, until the wave
\* is complete, and then that it is.
Follows(s, t) ==
    /\ In(s, "succeeded") \subseteq In(t, "succeeded") \/ BeyondTheWave(t)
    /\ BeyondTheWave(s) => BeyondTheWave(t)

-----------------------------------------------------------------------------
(* The operators on states *)

LEMMA MoreDelivered ==
    ASSUME NEW s, NEW D, NEW E \in SUBSET Units, Sound(s, D), D \subseteq E
    PROVE  Sound(s, E)
BY DEF Sound

\* A phase failure, wherever an exception can end a wave.
LEMMA PhaseFailureSound ==
    ASSUME NEW s, NEW D, Sound(s, D), s.phase \in {"development", "onward"}
    PROVE  Sound(handle_phase_failure(s), D) /\ Follows(s, handle_phase_failure(s))
<1>1. s \in States /\ MaxAttempts \in Nat
  BY FanOutAssumption DEF Sound
<1>2. CASE s.phase = "onward"
  BY <1>2 DEF handle_phase_failure, Follows
<1>3. CASE s.phase # "onward" /\ s.attempts < MaxAttempts
  <2> DEFINE t == [s EXCEPT !.attempts = s.attempts + 1]
  <2>1. handle_phase_failure(s) = t
    BY <1>3 DEF handle_phase_failure
  <2>2. s.attempts + 1 \in 0 .. MaxAttempts
    BY <1>1, <1>3 DEF States
  <2>3. t \in States
    BY <1>1, <2>2 DEF States
  <2>4. t.worker_states = s.worker_states /\ t.phase = "development"
    BY <1>1, <1>3 DEF States
  <2>5. In(t, "succeeded") = In(s, "succeeded")
    BY <2>4 DEF In
  <2>6. ~BeyondTheWave(t) /\ ~BeyondTheWave(s)
    BY <2>4, <1>3 DEF BeyondTheWave
  <2> QED BY <2>1, <2>3, <2>5, <2>6 DEF Sound, Follows
<1>4. CASE s.phase # "onward" /\ ~(s.attempts < MaxAttempts)
  <2> DEFINE t == [s EXCEPT !.phase = "failed", !.previous = s.phase]
  <2>1. handle_phase_failure(s) = t
    BY <1>4 DEF handle_phase_failure, enter_failed_recovery, advance_phase
  <2>3. t \in States
    BY <1>1, Zenon DEF States, Phases
  <2>4. t.worker_states = s.worker_states /\ t.phase = "failed" /\ t.previous = "development"
    BY <1>1, <1>4 DEF States
  <2>5. In(t, "succeeded") = In(s, "succeeded")
    BY <2>4 DEF In
  <2>6. ~BeyondTheWave(t) /\ ~BeyondTheWave(s)
    BY <2>4, <1>4 DEF BeyondTheWave
  <2> QED BY <2>1, <2>3, <2>5, <2>6 DEF Sound, Follows
<1> QED BY <1>2, <1>3, <1>4

\* The advanced phase fails its verification.
LEMMA FailedVerificationSound ==
    ASSUME NEW s, NEW D, Sound(s, D), s.phase = "onward"
    PROVE  Sound(enter_failed_recovery(s), D) /\ Follows(s, enter_failed_recovery(s))
<1> DEFINE t == [s EXCEPT !.phase = "failed", !.previous = s.phase]
<1>1. s \in States /\ enter_failed_recovery(s) = t
  BY DEF Sound, enter_failed_recovery, advance_phase
<1>2. t \in States
  BY <1>1, Zenon DEF States, Phases
<1>3. /\ t.worker_states = s.worker_states /\ t.work_units = s.work_units
      /\ t.phase = "failed" /\ t.previous = "onward"
  BY <1>1 DEF States
<1>4. In(t, "succeeded") = In(s, "succeeded") /\ BeyondTheWave(t) /\ BeyondTheWave(s)
  BY <1>3 DEF In, BeyondTheWave
<1> QED BY <1>1, <1>2, <1>3, <1>4 DEF Sound, Follows

\* The hop out of the failed route.
LEMMA ReentrySound ==
    ASSUME NEW s, NEW D, Sound(s, D), s.phase = "failed",
           NEW phase \in Phases, phase = s.previous \/ (phase = "finalization" /\ s.previous = "development")
    PROVE  /\ Sound([s EXCEPT !.phase = phase, !.attempts = 0], D)
           /\ Follows(s, [s EXCEPT !.phase = phase, !.attempts = 0])
<1> DEFINE t == [s EXCEPT !.phase = phase, !.attempts = 0]
<1>1. s \in States /\ MaxAttempts \in Nat
  BY FanOutAssumption DEF Sound
<1>2. t \in States
  <2>1. 0 \in 0 .. MaxAttempts
    BY <1>1
  <2> QED BY <1>1, <2>1, Zenon DEF States
<1>3. /\ t.worker_states = s.worker_states /\ t.work_units = s.work_units
      /\ t.phase = phase /\ t.previous = s.previous
  BY <1>1 DEF States
<1> HIDE DEF t
<1>4. In(t, "succeeded") = In(s, "succeeded")
  BY <1>3 DEF In
<1>5. BeyondTheWave(s) <=> s.previous = "onward"
  BY DEF BeyondTheWave
<1>6. BeyondTheWave(t) <=> s.previous = "onward"
  BY <1>3 DEF BeyondTheWave
<1>7. Sound(t, D) /\ Follows(s, t)
  BY <1>1, <1>2, <1>3, <1>4, <1>5, <1>6 DEF Sound, Follows
<1> QED BY <1>7 DEF t

-----------------------------------------------------------------------------
(* Starting and ending a wave *)

HasStatus(s, us, status, t) ==
    /\ t \in States
    /\ t.phase = s.phase /\ t.previous = s.previous /\ t.work_units = s.work_units
    /\ t.attempts = s.attempts
    /\ \A u \in Units : t.worker_states[u] = IF u \in us THEN status ELSE s.worker_states[u]

\* Updating the status of some workers changes nothing else.
LEMMA StatusSet ==
    ASSUME NEW s \in States, NEW us \in SUBSET Units, NEW status \in Statuses,
           NEW t, t = with_status(s, us, status)
    PROVE  HasStatus(s, us, status, t)
<1> DEFINE w == [u \in Units |-> IF u \in us THEN status ELSE s.worker_states[u]]
           r == [s EXCEPT !.worker_states = w]
<1>1. t = r
  BY DEF with_status
<1>2. w \in [Units -> Statuses]
  BY DEF States
<1> HIDE DEF w
<1>3. r \in States /\ r.worker_states = w
  BY <1>2 DEF States
<1>4. r.phase = s.phase /\ r.previous = s.previous /\ r.work_units = s.work_units
      /\ r.attempts = s.attempts
  BY DEF States
<1>5. \A u \in Units : w[u] = IF u \in us THEN status ELSE s.worker_states[u]
  BY DEF w
<1> QED BY <1>1, <1>3, <1>4, <1>5 DEF HasStatus

\* WORKERS_RESUMED only touches running units.
LEMMA ResumedSound ==
    ASSUME NEW s, NEW D, Sound(s, D), s.phase = "development"
    PROVE  LET t == handle_workers_resumed([s EXCEPT !.work_units = TRUE]) IN
           /\ Sound(t, D) /\ Follows(s, t)
           /\ t.phase = "development"
           /\ In(t, "succeeded") = In(s, "succeeded")
<1> DEFINE r == [s EXCEPT !.work_units = TRUE]
           t == handle_workers_resumed(r)
<1>1. r \in States /\ r.phase = "development" /\ r.worker_states = s.worker_states
  BY Zenon DEF Sound, States
<1> HIDE DEF r
<1>2. "pending" \in Statuses /\ In(r, "running") \in SUBSET Units
  BY DEF Statuses, In
<1>3. /\ t \in States /\ t.phase = r.phase
      /\ \A u \in Units : t.worker_states[u] =
            IF u \in In(r, "running") THEN "pending" ELSE r.worker_states[u]
  <2>1. t = with_status(r, In(r, "running"), "pending")
    BY DEF handle_workers_resumed
  <2> HIDE DEF t
  <2>2. HasStatus(r, In(r, "running"), "pending", t)
    BY <1>1, <1>2, <2>1, StatusSet
  <2> QED BY <2>2 DEF HasStatus
<1> HIDE DEF t
<1>4. In(t, "succeeded") = In(s, "succeeded")
  BY <1>1, <1>3 DEF In
<1>5. ~BeyondTheWave(t) /\ ~BeyondTheWave(s)
  BY <1>1, <1>3 DEF BeyondTheWave
<1>6. Sound(t, D) /\ Follows(s, t) /\ t.phase = "development"
  BY <1>1, <1>3, <1>4, <1>5 DEF Sound, Follows
<1> QED BY <1>4, <1>6 DEF t, r

\* The reduction of a wave's events.
LEMMA ReducedSound ==
    ASSUME NEW s, NEW D, Sound(s, D), s.phase = "development",
           NEW done \in SUBSET Units, done \subseteq D,
           NEW failed \in SUBSET Units, failed \cap In(s, "succeeded") = {}
    PROVE  LET t == reduce_worker_events(s, done, failed) IN
           /\ Sound(t, D) /\ Follows(s, t)
           /\ t.phase = "development"
           /\ In(s, "succeeded") \cup (done \ failed) \subseteq In(t, "succeeded")
<1> DEFINE a == handle_fan_out_started(s)
           b == with_status(a, done, "succeeded")
           t == with_status(b, failed, "failed")
<1>1. s \in States /\ {"pending", "succeeded", "failed"} \subseteq Statuses
  BY DEF Sound, Statuses
<1>2. a \in States /\ a.phase = "development" /\ In(a, "succeeded") = In(s, "succeeded")
  <2>1. CASE s.worker_states = NoWorkers
    <3>1. a = with_status(s, Units, "pending")
      BY <2>1 DEF handle_fan_out_started
    <3> HIDE DEF a
    <3>2. /\ a \in States /\ a.phase = s.phase
          /\ \A u \in Units : a.worker_states[u] = IF u \in Units THEN "pending" ELSE s.worker_states[u]
      <4>1. HasStatus(s, Units, "pending", a)
        BY <1>1, <3>1, StatusSet
      <4> QED BY <4>1 DEF HasStatus
    <3>3. In(a, "succeeded") = {}
      BY <3>2 DEF In
    <3>4. In(s, "succeeded") = {}
      BY <2>1 DEF In, NoWorkers
    <3> QED BY <3>2, <3>3, <3>4
  <2>2. CASE s.worker_states # NoWorkers
    BY <1>1, <2>2 DEF handle_fan_out_started
  <2> QED BY <2>1, <2>2
<1> HIDE DEF a
<1>3. /\ b \in States /\ b.phase = a.phase
      /\ \A u \in Units : b.worker_states[u] = IF u \in done THEN "succeeded" ELSE a.worker_states[u]
  <2>1. b = with_status(a, done, "succeeded")
    OBVIOUS
  <2> HIDE DEF b
  <2>2. HasStatus(a, done, "succeeded", b)
    BY <1>1, <1>2, <2>1, StatusSet
  <2> QED BY <2>2 DEF HasStatus
<1> HIDE DEF b
<1>4. /\ t \in States /\ t.phase = b.phase
      /\ \A u \in Units : t.worker_states[u] = IF u \in failed THEN "failed" ELSE b.worker_states[u]
  <2>1. t = with_status(b, failed, "failed")
    OBVIOUS
  <2> HIDE DEF t
  <2>2. HasStatus(b, failed, "failed", t)
    BY <1>1, <1>3, <2>1, StatusSet
  <2> QED BY <2>2 DEF HasStatus
<1> HIDE DEF t
<1>5. In(t, "succeeded") = (In(s, "succeeded") \cup done) \ failed
  BY <1>2, <1>3, <1>4 DEF In
<1>6. ~BeyondTheWave(t) /\ ~BeyondTheWave(s) /\ t.phase = "development"
  BY <1>2, <1>3, <1>4 DEF BeyondTheWave
<1>7. Sound(t, D) /\ Follows(s, t)
  BY <1>4, <1>5, <1>6 DEF Sound, Follows
<1>8. reduce_worker_events(s, done, failed) = t
  BY DEF reduce_worker_events, t, b, a
<1> QED BY <1>5, <1>6, <1>7, <1>8

\* ALL_WORKERS_COMPLETE with every unit succeeded advances the phase and clears
\* the tracking state.
LEMMA CompleteSound ==
    ASSUME NEW s, NEW D \in SUBSET Units, Sound(s, D), s.phase = "development",
           In(s, "succeeded") = Units,
           NEW t, t = _cleared_after_successful_wave(handle_all_workers_complete(s))
    PROVE  Sound(t, D) /\ t.phase = "onward" /\ BeyondTheWave(t)
<1> DEFINE a == [s EXCEPT !.phase = "onward", !.previous = s.phase]
           b == [a EXCEPT !.work_units = FALSE, !.worker_states = NoWorkers]
<1>1. PICK v \in Units : TRUE
  <2>1. Units # {}
    BY FanOutAssumption, FS_EmptySet
  <2> QED BY <2>1
<1>2. s \in States /\ D = Units
  BY DEF Sound
<1>3. \A u \in Units : s.worker_states[u] = "succeeded"
  BY DEF In
<1>4. s.worker_states # NoWorkers
  BY <1>1, <1>3 DEF NoWorkers
<1>5. In(s, "failed") = {}
  BY <1>3 DEF In
<1>6. handle_all_workers_complete(s) = a
  BY <1>4, <1>5 DEF handle_all_workers_complete, advance_phase
<1>7. a \in States /\ a.worker_states = s.worker_states /\ a.phase = "onward"
  BY <1>2, Zenon DEF States, Phases
<1> HIDE DEF a
<1>8. In(a, "succeeded") = Units
  BY <1>3, <1>7 DEF In
<1>9. t = b
  BY <1>6, <1>8 DEF _cleared_after_successful_wave, with_parallel_execution_cleared
<1>10. NoWorkers \in [Units -> Statuses]
  BY DEF NoWorkers, Statuses
<1>11. b \in States
  BY <1>7, <1>10, Zenon DEF States
<1>12. b.phase = "onward" /\ b.work_units = FALSE /\ b.worker_states = NoWorkers
  BY <1>7 DEF States
<1> HIDE DEF b
<1>13. BeyondTheWave(b)
  BY <1>12 DEF BeyondTheWave
<1>14. In(b, "succeeded") \subseteq D
  BY <1>2 DEF In
<1> QED BY <1>2, <1>9, <1>11, <1>12, <1>13, <1>14 DEF Sound

-----------------------------------------------------------------------------
(* The scheduler *)

\* schedule_next_wave starts only pending units whose dependencies are done.
LEMMA ScheduleReady ==
    ASSUME NEW done, NEW us, NEW run
    PROVE  /\ schedule_next_wave(done, us, run) \subseteq us \ (done \cup run)
           /\ \A u \in schedule_next_wave(done, us, run) : dependencies[u] \subseteq done
BY DEF schedule_next_wave

\* With no worker running, and dependencies that are all part of the wave, an
\* unfinished wave has a unit to start: acyclicity gives a ready unit, and the
\* smallest ready one always finds a slot.
LEMMA ScheduleProgress ==
    ASSUME NEW us \in SUBSET Units, NEW done, us \ done # {},
           \A u \in us \ done : dependencies[u] \subseteq us \cup done
    PROVE  schedule_next_wave(done, us, {}) # {}
<1> DEFINE S == us \ done
           ready == {u \in us \ (done \cup {}) : dependencies[u] \subseteq done}
<1>1. PICK v \in S : dependencies[v] \cap S = {}
  <2>1. S \in SUBSET Units /\ S # {}
    OBVIOUS
  <2> HIDE DEF S
  <2> QED BY <2>1, AcyclicAssumption
<1>2. v \in ready
  BY <1>1
<1>3. ready \subseteq Nat /\ ready # {}
  BY <1>2, FanOutAssumption, Zenon
<1>4. PICK m \in ready : \A y \in ready : m =< y
  <2> HIDE DEF ready
  <2> QED BY <1>3, Smallest
<1>5. {w \in ready : w < m} = {}
  <2>1. \A w \in ready : ~(w < m)
    <3> HIDE DEF ready
    <3> QED BY <1>3, <1>4
  <2> QED BY <2>1
<1>6. Cardinality({w \in ready : w < m}) + Cardinality({}) < max_workers
  <2>1. Cardinality({}) = 0
    BY FS_EmptySet
  <2>2. Cardinality({w \in ready : w < m}) = 0
    BY <1>5, <2>1
  <2>3. max_workers \in Nat \ {0}
    BY FanOutAssumption
  <2> HIDE DEF ready
  <2> QED BY <2>1, <2>2, <2>3
<1>7. m \in schedule_next_wave(done, us, {})
  BY <1>4, <1>6 DEF schedule_next_wave
<1> QED BY <1>7

-----------------------------------------------------------------------------
(* The inductive invariant *)

\* The units of the wave that is running: all that have not succeeded before.
Involved == pending \cup running \cup completed

InWave ==
    /\ state.phase = "development"
    /\ Units \ In(state, "succeeded") \subseteq Involved
    /\ (pending \cup running) \cap In(state, "succeeded") = {}
    /\ \A u \in pending : dependencies[u] \subseteq Involved

CoordinatorSound ==
    /\ completed \subseteq delivered
    /\ \A i \in 1 .. Len(queue) : queue[i] \in delivered
    /\ \A u \in running : dependencies[u] \subseteq completed

WaveInv ==
    /\ TypeOK
    /\ Sound(state, delivered) /\ Sound(saved, delivered) /\ Follows(saved, state)
    /\ CoordinatorSound
    /\ pc = "wave" => InWave
    /\ pc = "verify" => state.phase = "onward"

LEMMA FollowsTransitive ==
    ASSUME NEW a, NEW b, NEW c, Follows(a, b), Follows(b, c)
    PROVE  Follows(a, c)
BY DEF Follows

LEMMA FollowsItself ==
    ASSUME NEW a
    PROVE  Follows(a, a)
BY DEF Follows

\* Between two waves the coordinator has no state.
LEMMA IdleCoordinator ==
    ASSUME EndOfWave, delivered' \subseteq Units
    PROVE  /\ CoordinatorSound'
           /\ pending' \subseteq Units /\ running' \subseteq Units /\ completed' \subseteq Units
           /\ queue' \in Seq(Units) /\ working' \subseteq Units /\ failures' \subseteq Units
           /\ unexpected' \in BOOLEAN
<1>1. /\ pending' = {} /\ running' = {} /\ completed' = {} /\ queue' = <<>>
      /\ working' = {} /\ failures' = {} /\ unexpected' = FALSE
  BY DEF EndOfWave
<1>2. queue' \in Seq(Units) /\ Len(queue') = 0
  BY <1>1
<1>3. \A i \in 1 .. Len(queue') : queue'[i] \in delivered'
  BY <1>2
<1> QED BY <1>1, <1>2, <1>3, Zenon DEF CoordinatorSound

\* Whatever sound state ends a wave, the checkpoint holds it or the one before.
LEMMA SavedSound ==
    ASSUME WaveInv, NEW s, Sound(s, delivered), Follows(state, s),
           state' = s, _save_checkpoint_or_log(s), delivered' = delivered
    PROVE  /\ Sound(state, delivered)' /\ Sound(saved, delivered)' /\ Follows(saved, state)'
           /\ state' \in States /\ saved' \in States
           /\ Follows(saved, saved')
<1>1. Sound(state', delivered') /\ state' \in States
  BY DEF Sound
<1>2. Sound(saved, delivered) /\ Follows(saved, state)
  BY DEF WaveInv
<1>3. Follows(saved, s)
  BY <1>2, FollowsTransitive
<1>4. CASE saved' = s
  <2>1. Follows(saved', state')
    BY <1>4, FollowsItself
  <2>2. Follows(saved, saved')
    BY <1>3, <1>4
  <2> QED BY <1>1, <1>4, <2>1, <2>2 DEF Sound, Follows, In, BeyondTheWave
<1>5. CASE saved' = saved
  <2>1. Follows(saved', state')
    BY <1>3, <1>5
  <2>2. Follows(saved, saved')
    BY <1>5, FollowsItself
  <2> QED BY <1>1, <1>2, <1>5, <2>1, <2>2 DEF Sound, Follows, In, BeyondTheWave
<1> QED BY <1>4, <1>5 DEF _save_checkpoint_or_log

\* _run_fan_out_async returns.
LEMMA ReturnInv ==
    ASSUME WaveInv, NEW s, Sound(s, delivered), Follows(state, s),
           Return(s), delivered' = delivered, interrupted' \in BOOLEAN
    PROVE  WaveInv' /\ Follows(saved, saved')
<1>1. /\ state' = s /\ pc' = "route" /\ EndOfWave /\ _save_checkpoint_or_log(s)
  BY DEF Return
<1>2. /\ Sound(state, delivered)' /\ Sound(saved, delivered)' /\ Follows(saved, state)'
      /\ state' \in States /\ saved' \in States /\ Follows(saved, saved')
  BY <1>1, SavedSound
<1>3. delivered' \subseteq Units
  BY DEF WaveInv, TypeOK
<1>4. /\ CoordinatorSound'
      /\ pending' \subseteq Units /\ running' \subseteq Units /\ completed' \subseteq Units
      /\ queue' \in Seq(Units) /\ working' \subseteq Units /\ failures' \subseteq Units
      /\ unexpected' \in BOOLEAN
  BY <1>1, <1>3, IdleCoordinator
<1>5. TypeOK'
  BY <1>1, <1>2, <1>3, <1>4 DEF TypeOK
<1> QED BY <1>1, <1>2, <1>4, <1>5 DEF WaveInv

LEMMA CrashInv ==
    ASSUME WaveInv, NEW s, Sound(s, delivered), Follows(state, s),
           s.phase \in {"development", "onward"},
           Crash(s), delivered' = delivered, interrupted' \in BOOLEAN
    PROVE  WaveInv' /\ Follows(saved, saved')
<1> DEFINE t == handle_phase_failure(s)
<1>1. Sound(t, delivered) /\ Follows(s, t)
  BY PhaseFailureSound
<1>2. Follows(state, t)
  BY <1>1, FollowsTransitive
<1>3. Return(t)
  BY DEF Crash
<1> HIDE DEF t
<1> QED BY <1>1, <1>2, <1>3, ReturnInv

-----------------------------------------------------------------------------
(* One lemma per action *)

LEMMA InitInv == Init => WaveInv
<1> SUFFICES ASSUME Init PROVE WaveInv
  OBVIOUS
<1>1. MaxAttempts \in Nat /\ NoWorkers \in [Units -> Statuses]
  BY FanOutAssumption DEF NoWorkers, Statuses
<1>2. InitialState \in States
  <2>1. 0 \in 0 .. MaxAttempts
    BY <1>1
  <2> QED BY <1>1, <2>1 DEF InitialState, States, Phases
<1>3. In(InitialState, "succeeded") = {} /\ ~BeyondTheWave(InitialState)
  BY DEF InitialState, In, NoWorkers, BeyondTheWave
<1>4. Sound(InitialState, {}) /\ Follows(InitialState, InitialState)
  BY <1>2, <1>3 DEF Sound, Follows
<1>5. TypeOK
  <2>1. queue \in Seq(Units)
    BY DEF Init
  <2>2. unexpected \in BOOLEAN /\ interrupted \in BOOLEAN
    BY Zenon DEF Init
  <2> QED BY <1>2, <2>1, <2>2 DEF Init, TypeOK
<1>6. CoordinatorSound
  <2>1. queue = <<>> /\ running = {} /\ completed = {}
    BY DEF Init
  <2>2. Len(queue) = 0
    BY <2>1
  <2>3. \A i \in 1 .. Len(queue) : queue[i] \in delivered
    BY <2>2
  <2> QED BY <2>1, <2>3 DEF CoordinatorSound
<1> QED BY <1>4, <1>5, <1>6 DEF Init, WaveInv

LEMMA StartFanOutInv == WaveInv /\ StartFanOut => WaveInv' /\ Follows(saved, saved')
<1> SUFFICES ASSUME WaveInv, StartFanOut PROVE WaveInv' /\ Follows(saved, saved')
  OBVIOUS
<1> DEFINE s == handle_workers_resumed([state EXCEPT !.work_units = TRUE])
           us == Units \ In(s, "succeeded")
           ready == schedule_next_wave({}, us, {})
<1>1. /\ pc = "route" /\ state.phase = "development"
      /\ delivered' = delivered /\ interrupted' = interrupted
  BY DEF StartFanOut, Routing, history
<1>2. interrupted' \in BOOLEAN /\ delivered \in SUBSET Units /\ Sound(state, delivered)
  BY <1>1 DEF WaveInv, TypeOK
<1>3. /\ Sound(s, delivered) /\ Follows(state, s) /\ s.phase = "development"
      /\ In(s, "succeeded") = In(state, "succeeded")
  BY <1>1, <1>2, ResumedSound
<1>4. CASE us = {}
  <2> DEFINE t == _cleared_after_successful_wave(handle_all_workers_complete(s))
  <2>1. Return(t)
    BY <1>4 DEF StartFanOut
  <2>2. In(s, "succeeded") = Units
    BY <1>4, Zenon DEF In
  <2> HIDE DEF s
  <2>3. Sound(t, delivered) /\ BeyondTheWave(t)
    BY <1>2, <1>3, <2>2, CompleteSound
  <2>4. Follows(state, t)
    BY <2>3 DEF Follows
  <2> HIDE DEF t
  <2> QED BY <1>1, <1>2, <2>1, <2>3, <2>4, ReturnInv
<1>5. CASE us # {} /\ ~validates(us)
  <2>1. Crash(s)
    BY <1>5, Zenon DEF StartFanOut
  <2> HIDE DEF s
  <2> QED BY <1>1, <1>2, <1>3, <2>1, CrashInv
<1>6. CASE us # {} /\ validates(us)
  <2>1. /\ state' = s /\ pc' = "wave" /\ pending' = us \ ready /\ running' = ready
        /\ working' = ready
        /\ completed' = completed /\ queue' = queue /\ failures' = failures
        /\ unexpected' = unexpected /\ saved' = saved
    BY <1>6, Zenon DEF StartFanOut
  <2> HIDE DEF s
  <2>2. ready \subseteq us /\ \A u \in ready : dependencies[u] \subseteq {}
    BY ScheduleReady
  <2> HIDE DEF ready
  <2>3. TypeOK'
    <3>1. state' \in States
      BY <1>3, <2>1 DEF Sound
    <3> QED BY <1>1, <2>1, <2>2, <3>1 DEF WaveInv, TypeOK
  <2>4. Sound(state, delivered)' /\ Sound(saved, delivered)' /\ Follows(saved, state)'
    <3>1. Sound(saved, delivered) /\ Follows(saved, state)
      BY DEF WaveInv
    <3>2. Follows(saved, s)
      BY <1>3, <3>1, FollowsTransitive
    <3> QED BY <1>1, <1>3, <2>1, <3>1, <3>2 DEF Sound, Follows, In, BeyondTheWave
  <2>5. CoordinatorSound'
    BY <1>1, <2>1, <2>2 DEF WaveInv, CoordinatorSound
  <2>6. InWave'
    <3>1. Involved' = us \cup completed
      BY <2>1, <2>2 DEF Involved
    <3>2. \A u \in pending' : dependencies[u] \subseteq Involved'
      BY <1>6, <2>1, <3>1 DEF validates
    <3>3. In(state', "succeeded") = In(s, "succeeded")
      BY <2>1 DEF In
    <3>4. state'.phase = "development"
      BY <1>3, <2>1
    <3>5. pending' \cup running' \subseteq us
      BY <2>1, <2>2
    <3> QED BY <3>1, <3>2, <3>3, <3>4, <3>5 DEF InWave, In
  <2>7. Follows(saved, saved')
    BY <2>1, FollowsItself
  <2> QED BY <2>1, <2>3, <2>4, <2>5, <2>6, <2>7 DEF WaveInv
<1> QED BY <1>4, <1>5, <1>6, Zenon

LEMMA PreparationFailsInv == WaveInv /\ PreparationFails => WaveInv' /\ Follows(saved, saved')
<1> SUFFICES ASSUME WaveInv, PreparationFails PROVE WaveInv' /\ Follows(saved, saved')
  OBVIOUS
<1>1. /\ state.phase = "development" /\ Crash(state)
      /\ delivered' = delivered /\ interrupted' = interrupted
  BY DEF PreparationFails, Routing, history
<1>2. Sound(state, delivered) /\ Follows(state, state) /\ interrupted' \in BOOLEAN
  BY <1>1, FollowsItself DEF WaveInv, TypeOK
<1> QED BY <1>1, <1>2, CrashInv

\* A worker task ends while nothing but the queue, the tasks and the deliveries
\* changes.
LEMMA WorkerEndsInv ==
    ASSUME WaveInv, UNCHANGED <<state, saved, pc, pending, running, completed, interrupted>>,
           working' \subseteq Units, failures' \subseteq Units, unexpected' \in BOOLEAN,
           \/ queue' = queue /\ delivered' = delivered
           \/ \E u \in Units : queue' = Append(queue, u) /\ delivered' = delivered \cup {u}
    PROVE  WaveInv'
<1>1. /\ delivered \subseteq delivered' /\ delivered' \in SUBSET Units
  BY DEF WaveInv, TypeOK
<1>2. queue \in Seq(Units) /\ \A i \in 1 .. Len(queue) : queue[i] \in delivered
  BY DEF WaveInv, TypeOK, CoordinatorSound
<1>3. queue' \in Seq(Units) /\ \A i \in 1 .. Len(queue') : queue'[i] \in delivered'
  <2>1. CASE queue' = queue /\ delivered' = delivered
    BY <1>2, <2>1
  <2>2. ASSUME NEW u \in Units, queue' = Append(queue, u), delivered' = delivered \cup {u}
        PROVE  queue' \in Seq(Units) /\ \A i \in 1 .. Len(queue') : queue'[i] \in delivered'
    <3>1. queue' \in Seq(Units) /\ Len(queue') = Len(queue) + 1
      BY <1>2, <2>2
    <3>2. \A i \in 1 .. Len(queue') : queue'[i] = IF i =< Len(queue) THEN queue[i] ELSE u
      BY <1>2, <2>2
    <3>3. \A i \in 1 .. Len(queue') : i =< Len(queue) => i \in 1 .. Len(queue)
      BY <1>2, <3>1
    <3> QED BY <1>2, <2>2, <3>1, <3>2, <3>3
  <2> QED BY <2>1, <2>2
<1>4. TypeOK'
  BY <1>1, <1>3 DEF WaveInv, TypeOK
<1>5. Sound(state, delivered') /\ Sound(saved, delivered')
  BY <1>1, MoreDelivered DEF WaveInv
<1>6. Sound(state, delivered)' /\ Sound(saved, delivered)' /\ Follows(saved, state)'
  BY <1>5 DEF WaveInv, Sound, Follows, In, BeyondTheWave
<1>7. CoordinatorSound'
  BY <1>1, <1>3 DEF WaveInv, CoordinatorSound
<1>8. pc' = "wave" => InWave'
  BY DEF WaveInv, InWave, Involved, In
<1>9. pc' = "verify" => state'.phase = "onward"
  BY DEF WaveInv
<1> QED BY <1>4, <1>6, <1>7, <1>8, <1>9 DEF WaveInv

LEMMA WorkerDeliversInv == ASSUME NEW u \in Units PROVE WaveInv /\ WorkerDelivers(u) => WaveInv'
<1> SUFFICES ASSUME WaveInv, WorkerDelivers(u) PROVE WaveInv'
  OBVIOUS
<1>1. working' \subseteq Units /\ failures' \subseteq Units /\ unexpected' \in BOOLEAN
  BY DEF WorkerDelivers, WaveInv, TypeOK
<1>2. /\ UNCHANGED <<state, saved, pc, pending, running, completed, interrupted>>
      /\ queue' = Append(queue, u) /\ delivered' = delivered \cup {u}
  BY DEF WorkerDelivers
<1> QED BY <1>1, <1>2, WorkerEndsInv

LEMMA WorkerFailsInv == ASSUME NEW u \in Units PROVE WaveInv /\ WorkerFails(u) => WaveInv'
<1> SUFFICES ASSUME WaveInv, WorkerFails(u) PROVE WaveInv'
  OBVIOUS
<1>1. working' \subseteq Units /\ failures' \subseteq Units /\ unexpected' \in BOOLEAN
  BY DEF WorkerFails, WaveInv, TypeOK
<1>2. /\ UNCHANGED <<state, saved, pc, pending, running, completed, interrupted>>
      /\ queue' = queue /\ delivered' = delivered
  BY DEF WorkerFails, coordinator, history
<1> QED BY <1>1, <1>2, WorkerEndsInv

LEMMA WorkerBreaksInv == ASSUME NEW u \in Units PROVE WaveInv /\ WorkerBreaks(u) => WaveInv'
<1> SUFFICES ASSUME WaveInv, WorkerBreaks(u) PROVE WaveInv'
  OBVIOUS
<1>1. working' \subseteq Units /\ failures' \subseteq Units /\ unexpected' \in BOOLEAN
  BY DEF WorkerBreaks, WaveInv, TypeOK
<1>2. /\ UNCHANGED <<state, saved, pc, pending, running, completed, interrupted>>
      /\ \/ queue' = queue /\ delivered' = delivered
         \/ queue' = Append(queue, u) /\ delivered' = delivered \cup {u}
  BY DEF WorkerBreaks
<1> QED BY <1>1, <1>2, WorkerEndsInv

LEMMA WorkerIsCancelledInv == ASSUME NEW u \in Units PROVE WaveInv /\ WorkerIsCancelled(u) => WaveInv'
<1> SUFFICES ASSUME WaveInv, WorkerIsCancelled(u) PROVE WaveInv'
  OBVIOUS
<1>1. working' \subseteq Units /\ failures' \subseteq Units /\ unexpected' \in BOOLEAN
  BY DEF WorkerIsCancelled, WaveInv, TypeOK
<1>2. /\ UNCHANGED <<state, saved, pc, pending, running, completed, interrupted>>
      /\ queue' = queue /\ delivered' = delivered
  BY DEF WorkerIsCancelled, coordinator, history
<1> QED BY <1>1, <1>2, WorkerEndsInv

LEMMA TakeResultInv == WaveInv /\ TakeResult => WaveInv' /\ Follows(saved, saved')
<1> SUFFICES ASSUME WaveInv, TakeResult PROVE WaveInv' /\ Follows(saved, saved')
  OBVIOUS
<1> DEFINE u == Head(queue)
           done == completed \cup {u}
           run == running \ {u}
           ready == schedule_next_wave(done, pending \cup run \cup done, run)
           s == reduce_worker_events(state, done, {})
           left == _cleared_after_successful_wave(handle_all_workers_complete(s))
<1>1. /\ pc = "wave" /\ queue # <<>>
      /\ delivered' = delivered /\ interrupted' = interrupted
  BY DEF TakeResult, history
<1>2. TypeOK /\ InWave /\ CoordinatorSound /\ Sound(state, delivered)
  BY <1>1 DEF WaveInv
<1>3. u \in delivered /\ u \in Units /\ Tail(queue) \in Seq(Units)
  <2>1. queue \in Seq(Units) /\ 1 \in 1 .. Len(queue) /\ u = queue[1]
    BY <1>1, <1>2 DEF TypeOK
  <2> QED BY <1>1, <1>2, <2>1 DEF CoordinatorSound, TypeOK
<1>4. \A i \in 1 .. Len(Tail(queue)) : Tail(queue)[i] \in delivered
  <2>1. queue \in Seq(Units) /\ Len(Tail(queue)) = Len(queue) - 1
    BY <1>1, <1>2 DEF TypeOK
  <2>2. \A i \in 1 .. Len(Tail(queue)) : Tail(queue)[i] = queue[i + 1] /\ i + 1 \in 1 .. Len(queue)
    BY <1>1, <2>1
  <2> QED BY <1>2, <2>2 DEF CoordinatorSound
<1> HIDE DEF u
<1>5. done \in SUBSET Units /\ done \subseteq delivered
  BY <1>2, <1>3 DEF TypeOK, CoordinatorSound
<1>6. ready \subseteq pending \ (done \cup run) /\ \A v \in ready : dependencies[v] \subseteq done
  BY ScheduleReady
<1>7. CASE run \cup ready # {}
  <2>1. /\ completed' = done /\ running' = run \cup ready /\ pending' = pending \ ready
        /\ queue' = Tail(queue) /\ working' = working \cup ready
        /\ UNCHANGED <<state, saved, pc, failures, unexpected>>
    BY <1>7, Zenon DEF TakeResult, u
  <2> HIDE DEF ready
  <2>2. TypeOK'
    BY <1>1, <1>2, <1>3, <1>5, <1>6, <2>1 DEF TypeOK
  <2>3. Sound(state, delivered)' /\ Sound(saved, delivered)' /\ Follows(saved, state)'
    BY <1>1, <2>1 DEF WaveInv, Sound, Follows, In, BeyondTheWave
  <2>4. CoordinatorSound'
    BY <1>1, <1>2, <1>4, <1>5, <1>6, <2>1 DEF CoordinatorSound
  <2>5. InWave'
    <3>1. Involved \subseteq Involved'
      BY <2>1 DEF Involved
    <3>2. In(state', "succeeded") = In(state, "succeeded") /\ state'.phase = state.phase
      BY <2>1 DEF In
    <3>3. pending' \subseteq pending /\ pending' \cup running' \subseteq pending \cup running
      BY <1>6, <2>1
    <3> QED BY <1>2, <3>1, <3>2, <3>3 DEF InWave
  <2>6. Follows(saved, saved')
    BY <2>1, FollowsItself
  <2> QED BY <1>1, <2>1, <2>2, <2>3, <2>4, <2>5, <2>6 DEF WaveInv
<1>8. CASE run \cup ready = {}
  <2>1. /\ state' = left /\ pc' = (IF verification THEN "verify" ELSE "route")
        /\ EndOfWave /\ _save_checkpoint_or_log(left)
    BY <1>8, Zenon DEF TakeResult, u
  <2>2. pending \subseteq done
    <3> DEFINE us == pending \cup run \cup done
    <3>1. run = {} /\ us \in SUBSET Units
      BY <1>2, <1>5, <1>8 DEF TypeOK
    <3>2. schedule_next_wave(done, us, {}) = {}
      BY <1>8, <3>1
    <3>3. Involved \subseteq us
      BY DEF Involved
    <3>4. \A v \in us \ done : dependencies[v] \subseteq us \cup done
      BY <1>2, <3>1, <3>3 DEF InWave
    <3> HIDE DEF done
    <3>5. us \ done = {}
      BY <3>1, <3>2, <3>4, ScheduleProgress
    <3> QED BY <3>5
  <2>3. Units \ In(state, "succeeded") \subseteq done
    <3>1. Involved \subseteq done
      BY <1>8, <2>2 DEF Involved
    <3> QED BY <1>2, <3>1 DEF InWave
  <2> HIDE DEF done
  <2>4. /\ Sound(s, delivered) /\ Follows(state, s) /\ s.phase = "development"
        /\ In(state, "succeeded") \cup (done \ {}) \subseteq In(s, "succeeded")
    BY <1>2, <1>5, ReducedSound DEF InWave
  <2> HIDE DEF s
  <2>5. In(s, "succeeded") = Units
    BY <2>3, <2>4 DEF In
  <2>6. Sound(left, delivered) /\ left.phase = "onward" /\ BeyondTheWave(left)
    BY <1>2, <2>4, <2>5, CompleteSound DEF TypeOK
  <2>7. Follows(state, left)
    BY <2>6 DEF Follows
  <2> HIDE DEF left
  <2>8. /\ Sound(state, delivered)' /\ Sound(saved, delivered)' /\ Follows(saved, state)'
        /\ state' \in States /\ saved' \in States /\ Follows(saved, saved')
    BY <1>1, <2>1, <2>6, <2>7, SavedSound
  <2>9. delivered' \subseteq Units
    BY <1>1, <1>2 DEF TypeOK
  <2>10. /\ CoordinatorSound'
         /\ pending' \subseteq Units /\ running' \subseteq Units /\ completed' \subseteq Units
         /\ queue' \in Seq(Units) /\ working' \subseteq Units /\ failures' \subseteq Units
         /\ unexpected' \in BOOLEAN
    BY <2>1, <2>9, IdleCoordinator
  <2>11. pc' \in {"route", "verify"}
    BY <2>1
  <2>12. TypeOK'
    BY <1>1, <1>2, <2>8, <2>9, <2>10, <2>11 DEF TypeOK
  <2> QED BY <2>1, <2>6, <2>8, <2>10, <2>11, <2>12 DEF WaveInv
<1> QED BY <1>7, <1>8

LEMMA WaveAbortsInv == WaveInv /\ WaveAborts => WaveInv' /\ Follows(saved, saved')
<1> SUFFICES ASSUME WaveInv, WaveAborts PROVE WaveInv' /\ Follows(saved, saved')
  OBVIOUS
<1>1. pc = "wave" /\ delivered' = delivered /\ interrupted' = interrupted
  BY DEF WaveAborts, history
<1>2. TypeOK /\ InWave /\ CoordinatorSound /\ Sound(state, delivered) /\ state.phase = "development"
  BY <1>1 DEF WaveInv, InWave
<1>3. interrupted' \in BOOLEAN
  BY <1>1, <1>2 DEF TypeOK
<1>4. CASE unexpected
  <2>1. Crash(state)
    BY <1>4 DEF WaveAborts
  <2> QED BY <1>1, <1>2, <1>3, <2>1, FollowsItself, CrashInv
<1>5. CASE ~unexpected
  <2> DEFINE failed == running \cup BlockedBy(running)
             s == reduce_worker_events(state, completed, failed)
  <2>1. Return(s)
    BY <1>5 DEF WaveAborts
  <2>2. BlockedBy(running) \subseteq pending
    BY DEF BlockedBy
  <2>3. failed \in SUBSET Units /\ failed \cap In(state, "succeeded") = {}
    BY <1>2, <2>2 DEF TypeOK, InWave
  <2>4. completed \in SUBSET Units /\ completed \subseteq delivered
    BY <1>2 DEF TypeOK, CoordinatorSound
  <2> HIDE DEF failed
  <2>5. Sound(s, delivered) /\ Follows(state, s)
    BY <1>2, <2>3, <2>4, ReducedSound
  <2> HIDE DEF s
  <2> QED BY <1>1, <1>3, <2>1, <2>5, ReturnInv
<1> QED BY <1>4, <1>5

LEMMA VerifyInv == WaveInv /\ Verify => WaveInv' /\ Follows(saved, saved')
<1> SUFFICES ASSUME WaveInv, Verify PROVE WaveInv' /\ Follows(saved, saved')
  OBVIOUS
<1>1. pc = "verify" /\ delivered' = delivered /\ interrupted' = interrupted
  BY DEF Verify, history
<1>2. Sound(state, delivered) /\ state.phase = "onward" /\ interrupted' \in BOOLEAN
  BY <1>1 DEF WaveInv, TypeOK
<1>3. CASE Return(state)
  BY <1>1, <1>2, <1>3, FollowsItself, ReturnInv
<1>4. CASE Return(enter_failed_recovery(state))
  <2> DEFINE t == enter_failed_recovery(state)
  <2>1. Sound(t, delivered) /\ Follows(state, t)
    BY <1>2, FailedVerificationSound
  <2>2. Return(t)
    BY <1>4
  <2> HIDE DEF t
  <2> QED BY <1>1, <1>2, <2>1, <2>2, ReturnInv
<1> QED BY <1>3, <1>4 DEF Verify

LEMMA InterruptInv == WaveInv /\ Interrupt => WaveInv' /\ Follows(saved, saved')
<1> SUFFICES ASSUME WaveInv, Interrupt PROVE WaveInv' /\ Follows(saved, saved')
  OBVIOUS
<1>1. pc \in {"wave", "verify"} /\ Crash(state) /\ delivered' = delivered /\ interrupted' \in BOOLEAN
  BY DEF Interrupt
<1>2. Sound(state, delivered) /\ state.phase \in {"development", "onward"}
  BY <1>1 DEF WaveInv, InWave
<1> QED BY <1>1, <1>2, FollowsItself, CrashInv

LEMMA ReenterInv == WaveInv /\ ReenterFromFailedRoute => WaveInv' /\ Follows(saved, saved')
<1> SUFFICES ASSUME WaveInv, ReenterFromFailedRoute PROVE WaveInv' /\ Follows(saved, saved')
  OBVIOUS
<1>1. state.phase = "failed" /\ delivered' = delivered /\ interrupted' = interrupted
  BY DEF ReenterFromFailedRoute, Routing, history
<1>2. Sound(state, delivered) /\ interrupted' \in BOOLEAN /\ state.previous \in Phases
  BY <1>1 DEF WaveInv, TypeOK, States
<1>3. PICK phase \in {state.previous} \cup
                     (IF state.previous = "development" THEN {"finalization"} ELSE {}) :
          Return([state EXCEPT !.phase = phase, !.attempts = 0])
  BY Zenon DEF ReenterFromFailedRoute
<1>4. /\ phase = state.previous \/ (phase = "finalization" /\ state.previous = "development")
      /\ phase \in Phases
  BY <1>2, <1>3 DEF Phases
<1> DEFINE t == [state EXCEPT !.phase = phase, !.attempts = 0]
<1>5. Sound(t, delivered) /\ Follows(state, t)
  BY <1>1, <1>2, <1>4, ReentrySound, Zenon
<1>6. Return(t)
  BY <1>3
<1> HIDE DEF t
<1> QED BY <1>1, <1>2, <1>5, <1>6, ReturnInv

LEMMA ExitInv == WaveInv /\ ExitOnStrayUnits => WaveInv'
<1> SUFFICES ASSUME WaveInv, ExitOnStrayUnits PROVE WaveInv'
  OBVIOUS
<1> DEFINE t == [state EXCEPT !.phase = "exited"]
<1>1. /\ pc = "route" /\ state.phase \in {"onward", "finalization"} /\ state.work_units
      /\ state' = t /\ UNCHANGED <<saved, pc, coordinator, tasks, history>>
  BY DEF ExitOnStrayUnits
<1>2. TypeOK /\ Sound(state, delivered) /\ Sound(saved, delivered) /\ Follows(saved, state)
      /\ CoordinatorSound /\ state \in States
  BY DEF WaveInv, TypeOK
<1>3. ~BeyondTheWave(state)
  BY <1>1, <1>2 DEF Sound
<1>4. t \in States /\ t.worker_states = state.worker_states /\ t.phase = "exited"
  BY <1>2 DEF States, Phases
<1> HIDE DEF t
<1>5. In(t, "succeeded") = In(state, "succeeded") /\ ~BeyondTheWave(t)
  BY <1>4 DEF In, BeyondTheWave
<1>6. Sound(t, delivered) /\ Follows(saved, t)
  BY <1>2, <1>3, <1>4, <1>5 DEF Sound, Follows
<1>7. TypeOK'
  BY <1>1, <1>2, <1>4 DEF TypeOK, coordinator, tasks, history
<1>8. Sound(state, delivered)' /\ Sound(saved, delivered)' /\ Follows(saved, state)'
  BY <1>1, <1>2, <1>6 DEF Sound, Follows, In, BeyondTheWave, history
<1>9. CoordinatorSound'
  BY <1>1, <1>2 DEF CoordinatorSound, coordinator, history
<1> QED BY <1>1, <1>7, <1>8, <1>9 DEF WaveInv

LEMMA KillAndResumeInv == WaveInv /\ KillAndResume => WaveInv'
<1> SUFFICES ASSUME WaveInv, KillAndResume PROVE WaveInv'
  OBVIOUS
<1>1. /\ state' = saved /\ saved' = saved /\ pc' = "route" /\ EndOfWave
      /\ delivered' = delivered /\ interrupted' = interrupted
  BY DEF KillAndResume, history
<1>2. TypeOK /\ Sound(saved, delivered) /\ Follows(saved, saved)
  BY FollowsItself DEF WaveInv
<1>3. Sound(state, delivered)' /\ Sound(saved, delivered)' /\ Follows(saved, state)'
  BY <1>1, <1>2 DEF Sound, Follows, In, BeyondTheWave
<1>4. delivered' \subseteq Units
  BY <1>1, <1>2 DEF TypeOK
<1>5. /\ CoordinatorSound'
      /\ pending' \subseteq Units /\ running' \subseteq Units /\ completed' \subseteq Units
      /\ queue' \in Seq(Units) /\ working' \subseteq Units /\ failures' \subseteq Units
      /\ unexpected' \in BOOLEAN
  BY <1>1, <1>4, IdleCoordinator
<1>6. TypeOK'
  BY <1>1, <1>2, <1>4, <1>5 DEF TypeOK
<1> QED BY <1>1, <1>3, <1>5, <1>6 DEF WaveInv

-----------------------------------------------------------------------------
(* The theorems *)

LEMMA StepInv == WaveInv /\ [Next]_vars => WaveInv' /\ Follows(saved, saved')
<1> SUFFICES ASSUME WaveInv, [Next]_vars PROVE WaveInv' /\ Follows(saved, saved')
  OBVIOUS
<1> USE FollowsItself
<1>1. CASE StartFanOut
  BY <1>1, StartFanOutInv
<1>2. CASE TakeResult
  BY <1>2, TakeResultInv
<1>3. CASE WaveAborts
  BY <1>3, WaveAbortsInv
<1>4. CASE Verify
  BY <1>4, VerifyInv
<1>5. ASSUME NEW u \in Units, WorkerDelivers(u)
      PROVE  WaveInv' /\ Follows(saved, saved')
  <2>1. saved' = saved
    BY <1>5 DEF WorkerDelivers
  <2> QED BY <1>5, <2>1, WorkerDeliversInv
<1>6. ASSUME NEW u \in Units, WorkerIsCancelled(u)
      PROVE  WaveInv' /\ Follows(saved, saved')
  <2>1. saved' = saved
    BY <1>6 DEF WorkerIsCancelled
  <2> QED BY <1>6, <2>1, WorkerIsCancelledInv
<1>7. CASE ReenterFromFailedRoute
  BY <1>7, ReenterInv
<1>8. CASE ExitOnStrayUnits
  <2>1. saved' = saved
    BY <1>8 DEF ExitOnStrayUnits
  <2> QED BY <1>8, <2>1, ExitInv
<1>9. CASE PreparationFails
  BY <1>9, PreparationFailsInv
<1>10. CASE Interrupt
  BY <1>10, InterruptInv
<1>11. CASE KillAndResume
  <2>1. saved' = saved
    BY <1>11 DEF KillAndResume
  <2> QED BY <1>11, <2>1, KillAndResumeInv
<1>12. ASSUME NEW u \in Units, WorkerFails(u)
       PROVE  WaveInv' /\ Follows(saved, saved')
  <2>1. saved' = saved
    BY <1>12 DEF WorkerFails
  <2> QED BY <1>12, <2>1, WorkerFailsInv
<1>13. ASSUME NEW u \in Units, WorkerBreaks(u)
       PROVE  WaveInv' /\ Follows(saved, saved')
  <2>1. saved' = saved
    BY <1>13 DEF WorkerBreaks
  <2> QED BY <1>13, <2>1, WorkerBreaksInv
<1>14. CASE UNCHANGED vars
  <2>1. /\ UNCHANGED <<state, saved, pc, pending, running, completed, interrupted>>
        /\ queue' = queue /\ delivered' = delivered
        /\ working' = working /\ failures' = failures /\ unexpected' = unexpected
    BY <1>14 DEF vars, coordinator, tasks, history
  <2>2. working' \subseteq Units /\ failures' \subseteq Units /\ unexpected' \in BOOLEAN
    BY <2>1 DEF WaveInv, TypeOK
  <2>3. WaveInv'
    BY <2>1, <2>2, WorkerEndsInv
  <2> QED BY <2>1, <2>3
<1> QED BY <1>1, <1>2, <1>3, <1>4, <1>5, <1>6, <1>7, <1>8, <1>9, <1>10, <1>11, <1>12, <1>13, <1>14
        DEF Next, Wave

\* The invariant behind all of them: sound state and checkpoint, a coordinator
\* whose queue holds deliveries only, and a wave that covers what is unfinished.
THEOREM WaveInvariant == Spec => []WaveInv
<1>1. Init => WaveInv
  BY InitInv
<1>2. WaveInv /\ [Next]_vars => WaveInv'
  BY StepInv
<1> QED BY <1>1, <1>2, PTL DEF Spec

\* State, checkpoint, coordinator and tasks keep their types.
THEOREM FanOutTypes == Spec => []TypeOK
<1>1. WaveInv => TypeOK
  BY DEF WaveInv
<1> QED BY <1>1, WaveInvariant, PTL

\* schedule_next_wave: for every plan, a unit is only started once everything it
\* depends on was delivered, whatever failed, was resumed or was killed before.
THEOREM UnitsStartInOrder == Spec => []DependenciesFirst
<1>1. WaveInv => DependenciesFirst
  BY DEF WaveInv, CoordinatorSound, DependenciesFirst
<1> QED BY <1>1, WaveInvariant, PTL

\* worker_states and its checkpoint never claim a success that did not happen.
THEOREM SuccessesAreReal == Spec => []RecordedMeansDelivered
<1>1. WaveInv => RecordedMeansDelivered
  BY DEF WaveInv, Sound, RecordedMeansDelivered
<1> QED BY <1>1, WaveInvariant, PTL

\* _handle_all_workers_complete: the phase is left by success only with every
\* unit of the plan delivered.
THEOREM OnwardOnlyComplete == Spec => []OnwardMeansAllDelivered
<1>1. WaveInv => OnwardMeansAllDelivered
  BY DEF WaveInv, Sound, OnwardMeansAllDelivered
<1> QED BY <1>1, WaveInvariant, PTL

\* _cleared_after_successful_wave: no state or checkpoint of an advanced phase
\* still carries work units.
THEOREM OnwardIsCleared == Spec => []NoStrayUnitsOnward
<1>1. WaveInv => NoStrayUnitsOnward
  BY DEF WaveInv, Sound, NoStrayUnitsOnward
<1> QED BY <1>1, WaveInvariant, PTL

\* run_fan_out: an acyclic plan never leaves the coordinator with pending units
\* and nothing to start, so the wave that is verified is the whole plan.
THEOREM NoUnitIsLeftOver == Spec => []OnlyCompleteWavesAreVerified
<1>1. WaveInv => OnlyCompleteWavesAreVerified
  BY DEF WaveInv, BeyondTheWave, OnlyCompleteWavesAreVerified
<1> QED BY <1>1, WaveInvariant, PTL

\* WORKERS_RESUMED and every checkpoint after it: a success once in the
\* checkpoint stays there until the wave is complete.
THEOREM SuccessesAreKept == Spec => RecordedSuccessIsKept
<1>1. WaveInv /\ [Next]_vars =>
        [In(saved, "succeeded") \subseteq In(saved', "succeeded") \/ BeyondTheWave(saved')]_vars
  BY StepInv DEF Follows
<1> QED BY <1>1, WaveInvariant, PTL DEF Spec, RecordedSuccessIsKept


-----------------------------------------------------------------------------
(* The worker limit *)

\* Of a finite set of naturals, fewer than k elements smaller than each member of
\* T leave room for at most k members.
LEMMA FirstOfRanked ==
    ASSUME NEW ready, ready \subseteq Nat, IsFiniteSet(ready), NEW k \in Nat,
           NEW T, T \subseteq ready,
           \A u \in T : Cardinality({v \in ready : v < u}) < k
    PROVE  Cardinality(T) =< k
<1> DEFINE below(u) == {v \in ready : v < u}
           rank == [u \in ready |-> Cardinality(below(u))]
<1>1. \A u \in ready : IsFiniteSet(below(u)) /\ rank[u] \in Nat
  <2> TAKE u \in ready
  <2>1. below(u) \subseteq ready
    OBVIOUS
  <2>2. IsFiniteSet(below(u))
    BY <2>1, FS_Subset
  <2>3. rank[u] = Cardinality(below(u))
    OBVIOUS
  <2> QED BY <2>2, <2>3, FS_CardinalityType
<1>2. \A u \in T : rank[u] < k
  OBVIOUS
<1>3. CASE T = {}
  BY <1>3, FS_EmptySet
<1>4. CASE T # {}
  <2> DEFINE gaps == {k - rank[u] : u \in T}
  <2>1. gaps \subseteq Nat /\ gaps # {}
    <3>1. \A u \in T : rank[u] \in Nat /\ rank[u] < k
      BY <1>1, <1>2
    <3> HIDE DEF rank
    <3>2. \A u \in T : k - rank[u] \in Nat
      BY <3>1
    <3>3. gaps \subseteq Nat
      BY <3>2
    <3> QED BY <1>4, <3>3
  <2>2. PICK g \in gaps : \A h \in gaps : g =< h
    <3> HIDE DEF gaps
    <3> QED BY <2>1, Smallest, Zenon
  <2>3. PICK m \in T : g = k - rank[m]
    BY <2>2, Zenon
  <2>4. \A u \in T : rank[u] =< rank[m]
    <3> TAKE u \in T
    <3>1. k - rank[u] \in gaps
      OBVIOUS
    <3>2. k - rank[m] =< k - rank[u]
      BY <2>2, <2>3, <3>1
    <3>3. rank[u] \in Nat /\ rank[m] \in Nat
      BY <1>1, Zenon
    <3> HIDE DEF rank
    <3> QED BY <3>2, <3>3
  <2>5. \A u \in T : ~(m < u)
    <3> SUFFICES ASSUME NEW u \in T, m < u PROVE FALSE
      OBVIOUS
    <3>1. below(m) \cup {m} \subseteq below(u)
      <4>1. m \in ready /\ m \in Nat /\ u \in Nat
        OBVIOUS
      <4>2. \A v \in ready : v < m => v < u
        BY <4>1
      <4> QED BY <4>1, <4>2, Zenon
    <3>2. m \notin below(m) /\ IsFiniteSet(below(m)) /\ IsFiniteSet(below(u))
      BY <1>1
    <3>3. rank[m] = Cardinality(below(m)) /\ rank[u] = Cardinality(below(u))
      OBVIOUS
    <3> HIDE DEF below, rank
    <3>4. /\ IsFiniteSet(below(m) \cup {m})
          /\ Cardinality(below(m) \cup {m}) = Cardinality(below(m)) + 1
      BY <3>2, FS_AddElement
    <3>5. Cardinality(below(m) \cup {m}) =< Cardinality(below(u))
      BY <3>1, <3>2, FS_Subset
    <3>6. rank[u] =< rank[m] /\ rank[u] \in Nat /\ rank[m] \in Nat
      BY <1>1, <2>4
    <3> QED BY <3>3, <3>4, <3>5, <3>6
  <2>6. T \subseteq below(m) \cup {m}
    BY <2>5
  <2>7. IsFiniteSet(below(m)) /\ m \notin below(m) /\ rank[m] = Cardinality(below(m))
    BY <1>1
  <2>8. rank[m] < k /\ rank[m] \in Nat
    BY <1>1, <1>2
  <2> HIDE DEF below, rank
  <2>9. /\ IsFiniteSet(below(m) \cup {m})
        /\ Cardinality(below(m) \cup {m}) = Cardinality(below(m)) + 1
    BY <2>7, FS_AddElement
  <2>10. Cardinality(T) =< Cardinality(below(m) \cup {m}) /\ IsFiniteSet(T)
    BY <2>6, <2>9, FS_Subset, Zenon
  <2>11. Cardinality(T) \in Nat
    BY <2>10, FS_CardinalityType
  <2> QED BY <2>7, <2>8, <2>9, <2>10, <2>11
<1> QED BY <1>3, <1>4

\* schedule_next_wave fills the free slots and no more.
LEMMA ScheduleWithinLimit ==
    ASSUME NEW done, NEW us \in SUBSET Units, NEW run \in SUBSET Units,
           Cardinality(run) =< max_workers
    PROVE  Cardinality(run \cup schedule_next_wave(done, us, run)) =< max_workers
<1> DEFINE ready == {u \in us \ (done \cup run) : dependencies[u] \subseteq done}
           T == schedule_next_wave(done, us, run)
           k == max_workers - Cardinality(run)
<1>1. /\ Units \subseteq Nat /\ IsFiniteSet(Units) /\ max_workers \in Nat
  BY FanOutAssumption
<1>2. IsFiniteSet(run) /\ Cardinality(run) \in Nat
  BY <1>1, FS_Subset, FS_CardinalityType, Zenon
<1>3. ready \subseteq Units
  OBVIOUS
<1>4. ready \subseteq Nat /\ IsFiniteSet(ready)
  BY <1>1, <1>3, FS_Subset, Zenon
<1>5. T = {u \in ready : Cardinality({v \in ready : v < u}) + Cardinality(run) < max_workers}
  BY DEF schedule_next_wave
<1> HIDE DEF T, ready
<1>6. T \subseteq ready
  BY <1>5
<1>7. \A u \in T : Cardinality({v \in ready : v < u}) < k
  <2> TAKE u \in T
  <2>1. Cardinality({v \in ready : v < u}) + Cardinality(run) < max_workers
    BY <1>5
  <2>2. Cardinality({v \in ready : v < u}) \in Nat
    <3> DEFINE B == {v \in ready : v < u}
    <3>1. B \subseteq ready
      OBVIOUS
    <3> HIDE DEF B
    <3>2. Cardinality(B) \in Nat
      BY <1>4, <3>1, FS_Subset, FS_CardinalityType, Zenon
    <3> QED BY <3>2 DEF B
  <2> QED BY <1>1, <1>2, <2>1, <2>2
<1>8. k \in Nat
  BY <1>1, <1>2
<1> HIDE DEF k
<1>9. Cardinality(T) =< k
  BY <1>4, <1>6, <1>7, <1>8, FirstOfRanked, Zenon
<1>10. IsFiniteSet(T) /\ Cardinality(T) \in Nat
  BY <1>4, <1>6, FS_Subset, FS_CardinalityType, Zenon
<1>11. Cardinality(run \cup T) =< Cardinality(run) + Cardinality(T)
  <2>1. /\ IsFiniteSet(run \cap T) /\ Cardinality(run \cap T) \in Nat
    BY <1>2, FS_Intersection, FS_CardinalityType, Zenon
  <2>2. Cardinality(run \cup T) = Cardinality(run) + Cardinality(T) - Cardinality(run \cap T)
    BY <1>2, <1>10, FS_Union
  <2> QED BY <1>2, <1>10, <2>1, <2>2
<1>12. Cardinality(run \cup T) \in Nat
  BY <1>2, <1>10, FS_Union, FS_CardinalityType, Zenon
<1> QED BY <1>1, <1>2, <1>9, <1>10, <1>11, <1>12 DEF k, T
-----------------------------------------------------------------------------
(* The inductive invariant: WaveInv with what relates tasks and coordinator *)

\* A live worker is one the coordinator counts; a result comes from one that is
\* neither alive nor waiting to be started.
TasksSound ==
    /\ working \subseteq running
    /\ pending \cap running = {}
    /\ \A i \in 1 .. Len(queue) : queue[i] \notin working \cup pending
    /\ pc # "wave" => queue = <<>> /\ working = {}

WithinLimit == Cardinality(running) =< max_workers

\* No unit waits for a failed one, and the events of a wave leave none running.
Settled(s) ==
    /\ In(s, "running") = {}
    /\ \A u \in In(s, "pending") : dependencies[u] \cap In(s, "failed") = {}

LimitInv == TasksSound /\ WithinLimit /\ Settled(state) /\ Settled(saved)

LEMMA NothingRuns == ASSUME EndOfWave PROVE TasksSound' /\ WithinLimit'
<1>1. pending' = {} /\ running' = {} /\ working' = {} /\ queue' = <<>>
  BY DEF EndOfWave
<1>2. Len(queue') = 0
  BY <1>1
<1>3. TasksSound'
  BY <1>1, <1>2 DEF TasksSound
<1>4. Cardinality(running') = 0 /\ max_workers \in Nat
  BY <1>1, FS_EmptySet, FanOutAssumption
<1>5. WithinLimit'
  BY <1>4 DEF WithinLimit
<1> QED BY <1>3, <1>5

\* Only the workers' statuses matter.
LEMMA SettledByStatus ==
    ASSUME NEW s, NEW t, Settled(s), t.worker_states = s.worker_states
    PROVE  Settled(t)
<1>1. \A status : In(t, status) = In(s, status)
  BY DEF In
<1> QED BY <1>1 DEF Settled

LEMMA ReturnLimit ==
    ASSUME LimitInv, NEW s, Settled(s), Return(s)
    PROVE  LimitInv'
<1>1. state' = s /\ EndOfWave /\ (saved' = s \/ saved' = saved)
  BY DEF Return, _save_checkpoint_or_log
<1>2. Settled(state') /\ Settled(saved')
  BY <1>1 DEF LimitInv
<1>3. Settled(state)' /\ Settled(saved)'
  BY <1>2 DEF Settled, In
<1> QED BY <1>1, <1>3, NothingRuns DEF LimitInv

\* A phase failure touches the phase and the attempts, never a worker.
LEMMA CrashLimit ==
    ASSUME LimitInv, NEW s \in States, Settled(s), Crash(s)
    PROVE  LimitInv'
<1> DEFINE t == handle_phase_failure(s)
<1>1. t.worker_states = s.worker_states
  BY DEF handle_phase_failure, enter_failed_recovery, advance_phase, States
<1>2. Return(t)
  BY DEF Crash
<1> HIDE DEF t
<1>3. Settled(t)
  BY <1>1, SettledByStatus
<1> QED BY <1>2, <1>3, ReturnLimit

\* WORKERS_RESUMED finds no unit running: the events of a wave end each of them.
LEMMA ResumedSettled ==
    ASSUME NEW s \in States, Settled(s)
    PROVE  LET t == handle_workers_resumed([s EXCEPT !.work_units = TRUE]) IN
           t \in States /\ Settled(t) /\ t.worker_states = s.worker_states
<1> DEFINE r == [s EXCEPT !.work_units = TRUE]
           t == handle_workers_resumed(r)
<1>1. r \in States /\ r.worker_states = s.worker_states
  BY Zenon DEF States
<1> HIDE DEF r
<1>2. In(r, "running") = {}
  BY <1>1 DEF Settled, In
<1>3. t = with_status(r, {}, "pending")
  BY <1>2 DEF handle_workers_resumed
<1> HIDE DEF t
<1>4. HasStatus(r, {}, "pending", t)
  <2>1. "pending" \in Statuses
    BY DEF Statuses
  <2> QED BY <1>1, <1>3, <2>1, StatusSet
<1>5. t \in States /\ \A u \in Units : t.worker_states[u] = s.worker_states[u]
  BY <1>1, <1>4 DEF HasStatus
<1>6. t.worker_states \in [Units -> Statuses] /\ s.worker_states \in [Units -> Statuses]
  BY <1>5 DEF States
<1>7. t.worker_states = s.worker_states
  BY <1>5, <1>6
<1>8. Settled(t)
  BY <1>7, SettledByStatus
<1> QED BY <1>5, <1>7, <1>8 DEF t, r
\* The reduction of a wave that fails, with each unit, all that wait for it.
LEMMA ReducedSettled ==
    ASSUME NEW s \in States, Settled(s),
           NEW done \in SUBSET Units, NEW failed \in SUBSET Units,
           \A u \in Units \ (done \cup failed \cup In(s, "succeeded")) :
               dependencies[u] \cap failed = {}
    PROVE  LET t == reduce_worker_events(s, done, failed) IN t \in States /\ Settled(t)
<1> DEFINE a == handle_fan_out_started(s)
           b == with_status(a, done, "succeeded")
           t == with_status(b, failed, "failed")
<1>1. {"pending", "succeeded", "failed"} \subseteq Statuses
  BY DEF Statuses
<1>2. /\ a \in States /\ In(a, "running") = {}
      /\ In(a, "pending") \cap In(s, "succeeded") = {}
      /\ \A u \in In(a, "pending") : dependencies[u] \cap In(a, "failed") = {}
  <2>1. CASE s.worker_states = NoWorkers
    <3>1. a = with_status(s, Units, "pending")
      BY <2>1 DEF handle_fan_out_started
    <3> HIDE DEF a
    <3>2. HasStatus(s, Units, "pending", a)
      BY <1>1, <3>1, StatusSet
    <3>3. a \in States /\ \A u \in Units : a.worker_states[u] = "pending"
      BY <3>2 DEF HasStatus
    <3>4. In(a, "running") = {} /\ In(a, "failed") = {}
      BY <3>3 DEF In
    <3>5. In(s, "succeeded") = {}
      BY <2>1 DEF In, NoWorkers
    <3> QED BY <3>3, <3>4, <3>5
  <2>2. CASE s.worker_states # NoWorkers
    <3>1. a = s
      BY <2>2 DEF handle_fan_out_started
    <3> HIDE DEF a
    <3>2. In(s, "pending") \cap In(s, "succeeded") = {}
      BY DEF In
    <3> QED BY <3>1, <3>2 DEF Settled
  <2> QED BY <2>1, <2>2
<1> HIDE DEF a
<1>3. HasStatus(a, done, "succeeded", b)
  <2>1. b = with_status(a, done, "succeeded")
    OBVIOUS
  <2> HIDE DEF b
  <2> QED BY <1>1, <1>2, <2>1, StatusSet
<1> HIDE DEF b
<1>4. HasStatus(b, failed, "failed", t)
  <2>1. b \in States /\ t = with_status(b, failed, "failed")
    BY <1>3 DEF HasStatus
  <2> HIDE DEF t
  <2> QED BY <1>1, <2>1, StatusSet
<1> HIDE DEF t
<1>5. \A u \in Units : t.worker_states[u] = IF u \in failed THEN "failed"
                                            ELSE IF u \in done THEN "succeeded"
                                            ELSE a.worker_states[u]
  BY <1>3, <1>4 DEF HasStatus
<1>6. /\ In(t, "running") \subseteq In(a, "running")
      /\ In(t, "pending") \subseteq In(a, "pending") \ (done \cup failed)
      /\ In(t, "failed") \subseteq In(a, "failed") \cup failed
  BY <1>5 DEF In
<1>7. ASSUME NEW u \in In(t, "pending")
      PROVE  dependencies[u] \cap In(t, "failed") = {}
  <2>1. u \in In(a, "pending") /\ u \in Units \ (done \cup failed \cup In(s, "succeeded"))
    BY <1>2, <1>6 DEF In
  <2> QED BY <1>2, <1>6, <2>1
<1>8. t \in States /\ Settled(t)
  BY <1>2, <1>4, <1>6, <1>7 DEF Settled, HasStatus
<1>9. reduce_worker_events(s, done, failed) = t
  BY DEF reduce_worker_events, t, b, a
<1> QED BY <1>8, <1>9

\* ALL_WORKERS_COMPLETE moves the phase and may clear the tracking state.
LEMMA CompleteSettled ==
    ASSUME NEW s \in States, Settled(s)
    PROVE  Settled(_cleared_after_successful_wave(handle_all_workers_complete(s)))
<1> DEFINE a == handle_all_workers_complete(s)
           t == _cleared_after_successful_wave(a)
<1>1. a \in States /\ a.worker_states = s.worker_states
  BY Zenon DEF handle_all_workers_complete, enter_failed_recovery, advance_phase, States, Phases
<1> HIDE DEF a
<1>2. CASE In(a, "succeeded") = Units
  <2>1. t = [a EXCEPT !.work_units = FALSE, !.worker_states = NoWorkers]
    BY <1>2 DEF _cleared_after_successful_wave, with_parallel_execution_cleared
  <2> HIDE DEF t
  <2>2. t.worker_states = NoWorkers
    BY <1>1, <2>1 DEF States
  <2>3. In(t, "running") = {} /\ In(t, "pending") = {}
    BY <2>2 DEF In, NoWorkers
  <2> QED BY <2>3 DEF Settled, t, a
<1>3. CASE In(a, "succeeded") # Units
  <2>1. t = a
    BY <1>3 DEF _cleared_after_successful_wave
  <2>2. Settled(a)
    BY <1>1, SettledByStatus
  <2> QED BY <2>1, <2>2 DEF a
<1> QED BY <1>2, <1>3

\* _blocked_pending_failures is closed: what waits for a failed or a blocked unit
\* is blocked.
LEMMA BlockedClosed ==
    ASSUME NEW failed, NEW u \in pending, NEW v \in dependencies[u],
           v \in failed \cup BlockedBy(failed)
    PROVE  u \in BlockedBy(failed)
<1> DEFINE closed(S) == \A w \in pending : dependencies[w] \cap (failed \cup S) # {} => w \in S
<1>1. ASSUME NEW S \in SUBSET pending, closed(S)
      PROVE  u \in S
  <2>1. v \in failed \cup S
    BY <1>1 DEF BlockedBy
  <2> QED BY <1>1, <2>1
<1> QED BY <1>1 DEF BlockedBy
-----------------------------------------------------------------------------
(* One lemma per action *)

LEMMA StartFanOutLimit == WaveInv /\ LimitInv /\ StartFanOut => LimitInv'
<1> SUFFICES ASSUME WaveInv, LimitInv, StartFanOut PROVE LimitInv'
  OBVIOUS
<1> DEFINE s == handle_workers_resumed([state EXCEPT !.work_units = TRUE])
           us == Units \ In(s, "succeeded")
           ready == schedule_next_wave({}, us, {})
<1>1. state \in States /\ Settled(state) /\ Settled(saved) /\ TasksSound
  BY DEF WaveInv, TypeOK, LimitInv
<1>2. s \in States /\ Settled(s)
  BY <1>1, ResumedSettled
<1>3. CASE us = {}
  <2>1. Return(_cleared_after_successful_wave(handle_all_workers_complete(s)))
    BY <1>3 DEF StartFanOut
  <2> HIDE DEF s
  <2> QED BY <1>2, <2>1, CompleteSettled, ReturnLimit
<1>4. CASE us # {} /\ ~validates(us)
  <2>1. Crash(s)
    BY <1>4, Zenon DEF StartFanOut
  <2> HIDE DEF s
  <2> QED BY <1>2, <2>1, CrashLimit
<1>5. CASE us # {} /\ validates(us)
  <2>1. /\ state' = s /\ pc' = "wave" /\ pending' = us \ ready /\ running' = ready
        /\ working' = ready /\ queue' = queue /\ saved' = saved
    BY <1>5, Zenon DEF StartFanOut
  <2> HIDE DEF s
  <2>2. Cardinality({} \cup ready) =< max_workers
    <3>1. us \in SUBSET Units /\ {} \in SUBSET Units
      OBVIOUS
    <3>2. Cardinality({}) =< max_workers
      BY FS_EmptySet, FanOutAssumption
    <3> HIDE DEF us
    <3> QED BY <3>1, <3>2, ScheduleWithinLimit
  <2>3. queue = <<>>
    BY <1>1 DEF StartFanOut, Routing, TasksSound
  <2> HIDE DEF ready
  <2>4. Len(queue') = 0 /\ {} \cup ready = ready
    BY <2>1, <2>3
  <2>5. TasksSound'
    BY <2>1, <2>4 DEF TasksSound
  <2>6. WithinLimit'
    BY <2>1, <2>2, <2>4 DEF WithinLimit
  <2>7. Settled(state)' /\ Settled(saved)'
    BY <1>1, <1>2, <2>1 DEF Settled, In
  <2> QED BY <2>5, <2>6, <2>7 DEF LimitInv
<1> QED BY <1>3, <1>4, <1>5, Zenon

LEMMA TakeResultLimit == WaveInv /\ LimitInv /\ TakeResult => LimitInv'
<1> SUFFICES ASSUME WaveInv, LimitInv, TakeResult PROVE LimitInv'
  OBVIOUS
<1> DEFINE u == Head(queue)
           done == completed \cup {u}
           run == running \ {u}
           us == pending \cup run \cup done
           ready == schedule_next_wave(done, us, run)
           s == reduce_worker_events(state, done, {})
           left == _cleared_after_successful_wave(handle_all_workers_complete(s))
<1>1. /\ pc = "wave" /\ queue # <<>> /\ TypeOK /\ TasksSound /\ WithinLimit
      /\ Settled(state) /\ Settled(saved)
  BY DEF TakeResult, WaveInv, LimitInv
<1>2. /\ queue \in Seq(Units) /\ 1 \in 1 .. Len(queue) /\ u = queue[1] /\ u \in Units
      /\ Len(Tail(queue)) = Len(queue) - 1
  BY <1>1 DEF TypeOK
<1>3. \A i \in 1 .. Len(Tail(queue)) : Tail(queue)[i] = queue[i + 1] /\ i + 1 \in 1 .. Len(queue)
  BY <1>1, <1>2
<1>4. u \notin working \cup pending
  BY <1>1, <1>2 DEF TasksSound
<1> HIDE DEF u
<1>5. us \in SUBSET Units /\ run \in SUBSET Units /\ done \in SUBSET Units
  BY <1>1, <1>2 DEF TypeOK
<1>6. Cardinality(run) =< max_workers
  <2>1. running \subseteq Units /\ IsFiniteSet(Units) /\ max_workers \in Nat
    BY <1>1, FanOutAssumption DEF TypeOK
  <2>2. IsFiniteSet(running) /\ run \subseteq running
    BY <2>1, FS_Subset
  <2>3. IsFiniteSet(run) /\ Cardinality(run) =< Cardinality(running)
    BY <2>2, FS_Subset
  <2>4. Cardinality(run) \in Nat /\ Cardinality(running) \in Nat
    BY <2>2, <2>3, FS_CardinalityType
  <2> QED BY <1>1, <2>1, <2>3, <2>4 DEF WithinLimit
<1>7. ready \subseteq us \ (done \cup run)
  BY ScheduleReady
<1>8. ready \subseteq pending
  BY <1>7
<1>9. CASE run \cup ready # {}
  <2>1. /\ running' = run \cup ready /\ pending' = pending \ ready
        /\ queue' = Tail(queue) /\ working' = working \cup ready
        /\ state' = state /\ saved' = saved /\ pc' = pc
    BY <1>9, Zenon DEF TakeResult, u
  <2>2. Cardinality(run \cup ready) =< max_workers
    BY <1>5, <1>6, ScheduleWithinLimit
  <2> HIDE DEF ready
  <2>3. TasksSound'
    <3>1. working' \subseteq running'
      BY <1>1, <1>4, <2>1 DEF TasksSound
    <3>2. pending' \cap running' = {}
      BY <1>1, <2>1 DEF TasksSound
    <3>3. \A i \in 1 .. Len(queue') : queue'[i] \notin working' \cup pending'
      BY <1>1, <1>3, <1>8, <2>1 DEF TasksSound
    <3> QED BY <1>1, <2>1, <3>1, <3>2, <3>3 DEF TasksSound
  <2>4. WithinLimit'
    BY <2>1, <2>2 DEF WithinLimit
  <2>5. Settled(state)' /\ Settled(saved)'
    BY <1>1, <2>1 DEF Settled, In
  <2> QED BY <2>3, <2>4, <2>5 DEF LimitInv
<1>10. CASE run \cup ready = {}
  <2>1. /\ state' = left /\ EndOfWave /\ (saved' = left \/ saved' = saved)
    BY <1>10, Zenon DEF TakeResult, u, _save_checkpoint_or_log
  <2>2. s \in States /\ Settled(s)
    <3>1. state \in States /\ {} \in SUBSET Units
      BY <1>1 DEF TypeOK
    <3> HIDE DEF done
    <3> QED BY <1>1, <1>5, <3>1, ReducedSettled
  <2> HIDE DEF s
  <2>3. Settled(left)
    BY <2>2, CompleteSettled
  <2> HIDE DEF left
  <2>4. Settled(state') /\ Settled(saved')
    BY <1>1, <2>1, <2>3
  <2>5. Settled(state)' /\ Settled(saved)'
    BY <2>4 DEF Settled, In
  <2> QED BY <2>1, <2>5, NothingRuns DEF LimitInv
<1> QED BY <1>9, <1>10

LEMMA WaveAbortsLimit == WaveInv /\ LimitInv /\ WaveAborts => LimitInv'
<1> SUFFICES ASSUME WaveInv, LimitInv, WaveAborts PROVE LimitInv'
  OBVIOUS
<1>1. pc = "wave" /\ TypeOK /\ InWave /\ Settled(state) /\ state \in States
  BY DEF WaveAborts, WaveInv, LimitInv, TypeOK
<1>2. CASE unexpected
  <2>1. Crash(state)
    BY <1>2 DEF WaveAborts
  <2> QED BY <1>1, <2>1, CrashLimit
<1>3. CASE ~unexpected
  <2> DEFINE failed == running \cup BlockedBy(running)
             s == reduce_worker_events(state, completed, failed)
  <2>1. Return(s)
    BY <1>3 DEF WaveAborts
  <2>2. completed \in SUBSET Units /\ failed \in SUBSET Units
    BY <1>1 DEF TypeOK, BlockedBy
  <2>3. ASSUME NEW u \in Units \ (completed \cup failed \cup In(state, "succeeded"))
        PROVE  dependencies[u] \cap failed = {}
    <3>1. u \in pending
      BY <1>1, <2>3 DEF InWave, Involved
    <3>2. u \notin BlockedBy(running)
      BY <2>3
    <3> QED BY <3>1, <3>2, BlockedClosed
  <2> HIDE DEF failed
  <2>4. Settled(s)
    BY <1>1, <2>2, <2>3, ReducedSettled
  <2> HIDE DEF s
  <2> QED BY <2>1, <2>4, ReturnLimit
<1> QED BY <1>2, <1>3
\* A worker task ends, and may have left its result in the queue.
LEMMA WorkerLimitStep ==
    ASSUME WaveInv, LimitInv, NEW u \in working, working' = working \ {u},
           queue' = queue \/ queue' = Append(queue, u),
           UNCHANGED <<state, saved, pc, pending, running>>
    PROVE  LimitInv'
<1>1. TypeOK /\ TasksSound /\ WithinLimit /\ Settled(state) /\ Settled(saved)
  BY DEF WaveInv, LimitInv
<1>2. u \in Units /\ u \in running /\ u \notin pending /\ pc = "wave"
  BY <1>1 DEF TypeOK, TasksSound
<1>3. \A i \in 1 .. Len(queue') : queue'[i] \notin working' \cup pending'
  <2>1. CASE queue' = queue
    BY <1>1, <2>1 DEF TasksSound
  <2>2. CASE queue' = Append(queue, u)
    <3>1. queue \in Seq(Units) /\ Len(queue') = Len(queue) + 1
      BY <1>1, <1>2, <2>2 DEF TypeOK
    <3>2. \A i \in 1 .. Len(queue') : queue'[i] = IF i =< Len(queue) THEN queue[i] ELSE u
      BY <2>2, <3>1
    <3>3. \A i \in 1 .. Len(queue') : i =< Len(queue) => i \in 1 .. Len(queue)
      BY <3>1
    <3> QED BY <1>1, <1>2, <3>2, <3>3 DEF TasksSound
  <2> QED BY <2>1, <2>2
<1>4. TasksSound'
  BY <1>1, <1>2, <1>3 DEF TasksSound
<1>5. WithinLimit' /\ Settled(state)' /\ Settled(saved)'
  BY <1>1 DEF WithinLimit, Settled, In
<1> QED BY <1>4, <1>5 DEF LimitInv

\* A hop between phases carries the workers along.
LEMMA ReenterLimit == WaveInv /\ LimitInv /\ ReenterFromFailedRoute => LimitInv'
<1> SUFFICES ASSUME WaveInv, LimitInv, ReenterFromFailedRoute PROVE LimitInv'
  OBVIOUS
<1>1. PICK phase : Return([state EXCEPT !.phase = phase, !.attempts = 0])
  BY Zenon DEF ReenterFromFailedRoute
<1> DEFINE t == [state EXCEPT !.phase = phase, !.attempts = 0]
<1>2. t.worker_states = state.worker_states /\ Settled(state)
  BY DEF WaveInv, TypeOK, States, LimitInv
<1>3. Return(t)
  BY <1>1
<1> HIDE DEF t
<1>4. Settled(t)
  BY <1>2, SettledByStatus
<1> QED BY <1>3, <1>4, ReturnLimit

LEMMA VerifyLimit == WaveInv /\ LimitInv /\ Verify => LimitInv'
<1> SUFFICES ASSUME WaveInv, LimitInv, Verify PROVE LimitInv'
  OBVIOUS
<1>1. Settled(state) /\ state \in States
  BY DEF LimitInv, WaveInv, TypeOK
<1>2. enter_failed_recovery(state).worker_states = state.worker_states
  BY <1>1 DEF enter_failed_recovery, advance_phase, States
<1>3. Settled(enter_failed_recovery(state))
  BY <1>1, <1>2, SettledByStatus
<1> QED BY <1>1, <1>3, ReturnLimit DEF Verify

LEMMA KillLimit == LimitInv /\ KillAndResume => LimitInv'
<1> SUFFICES ASSUME LimitInv, KillAndResume PROVE LimitInv'
  OBVIOUS
<1>1. state' = saved /\ saved' = saved /\ EndOfWave /\ Settled(saved)
  BY DEF KillAndResume, LimitInv
<1>2. Settled(state)' /\ Settled(saved)'
  BY <1>1 DEF Settled, In
<1> QED BY <1>1, <1>2, NothingRuns DEF LimitInv

LEMMA ExitLimit == WaveInv /\ LimitInv /\ ExitOnStrayUnits => LimitInv'
<1> SUFFICES ASSUME WaveInv, LimitInv, ExitOnStrayUnits PROVE LimitInv'
  OBVIOUS
<1> DEFINE t == [state EXCEPT !.phase = "exited"]
<1>1. /\ state' = t /\ saved' = saved /\ pc' = pc /\ pending' = pending /\ running' = running
      /\ queue' = queue /\ working' = working
  BY DEF ExitOnStrayUnits, coordinator, tasks
<1>2. t.worker_states = state.worker_states /\ Settled(state) /\ Settled(saved)
  BY DEF WaveInv, TypeOK, States, LimitInv
<1> HIDE DEF t
<1>3. Settled(t)
  BY <1>2, SettledByStatus
<1>4. Settled(state)' /\ Settled(saved)'
  BY <1>1, <1>2, <1>3 DEF Settled, In
<1>5. TasksSound' /\ WithinLimit'
  BY <1>1 DEF LimitInv, TasksSound, WithinLimit
<1> QED BY <1>4, <1>5 DEF LimitInv

LEMMA InitLimit == Init => LimitInv
<1> SUFFICES ASSUME Init PROVE LimitInv
  OBVIOUS
<1>1. /\ pending = {} /\ running = {} /\ working = {} /\ queue = <<>>
      /\ state = InitialState /\ saved = InitialState
  BY DEF Init
<1>2. Len(queue) = 0
  BY <1>1
<1>3. TasksSound
  BY <1>1, <1>2 DEF TasksSound
<1>4. WithinLimit
  BY <1>1, FS_EmptySet, FanOutAssumption DEF WithinLimit
<1>5. Settled(InitialState)
  BY DEF Settled, In, InitialState, NoWorkers
<1> QED BY <1>1, <1>3, <1>4, <1>5 DEF LimitInv

LEMMA StepLimit == WaveInv /\ LimitInv /\ [Next]_vars => LimitInv'
<1> SUFFICES ASSUME WaveInv, LimitInv, [Next]_vars PROVE LimitInv'
  OBVIOUS
<1>1. CASE StartFanOut
  BY <1>1, StartFanOutLimit
<1>2. CASE TakeResult
  BY <1>2, TakeResultLimit
<1>3. CASE WaveAborts
  BY <1>3, WaveAbortsLimit
<1>4. CASE Verify
  BY <1>4, VerifyLimit
<1>5. ASSUME NEW u \in Units, WorkerDelivers(u) \/ WorkerIsCancelled(u)
      PROVE  LimitInv'
  BY <1>5, WorkerLimitStep DEF WorkerDelivers, WorkerIsCancelled, coordinator
<1>6. ASSUME NEW u \in Units, WorkerFails(u) \/ WorkerBreaks(u)
      PROVE  LimitInv'
  BY <1>6, WorkerLimitStep DEF WorkerFails, WorkerBreaks, coordinator
<1>7. CASE ReenterFromFailedRoute
  BY <1>7, ReenterLimit
<1>8. CASE ExitOnStrayUnits
  BY <1>8, ExitLimit
<1>9. CASE PreparationFails \/ Interrupt
  <2>1. Crash(state) /\ state \in States /\ Settled(state)
    BY <1>9 DEF PreparationFails, Interrupt, WaveInv, TypeOK, LimitInv
  <2> QED BY <2>1, CrashLimit
<1>10. CASE KillAndResume
  BY <1>10, KillLimit
<1>11. CASE UNCHANGED vars
  BY <1>11 DEF vars, coordinator, tasks, LimitInv, TasksSound, WithinLimit, Settled, In
<1> QED BY <1>1, <1>2, <1>3, <1>4, <1>5, <1>6, <1>7, <1>8, <1>9, <1>10, <1>11 DEF Next, Wave

-----------------------------------------------------------------------------
(* The theorems *)

\* The second invariant of a wave, on top of WaveInv: its tasks are the ones the
\* coordinator counts, and no recorded unit waits for a failed one.
THEOREM LimitInvariant == Spec => [](WaveInv /\ LimitInv)
<1>1. Init => WaveInv /\ LimitInv
  BY InitInv, InitLimit
<1>2. WaveInv /\ LimitInv /\ [Next]_vars => (WaveInv /\ LimitInv)'
  BY StepInv, StepLimit
<1> QED BY <1>1, <1>2, PTL DEF Spec

\* schedule_next_wave: for every plan and limit, the workers alive at once never
\* exceed max_parallel_workers.
THEOREM WorkersBounded == Spec => []WorkerLimit
<1>1. WaveInv /\ LimitInv => WorkerLimit
  <2> SUFFICES ASSUME WaveInv, LimitInv PROVE WorkerLimit
    OBVIOUS
  <2>1. working \subseteq running /\ running \subseteq Units /\ IsFiniteSet(Units)
        /\ max_workers \in Nat /\ Cardinality(running) =< max_workers
    BY FanOutAssumption DEF WaveInv, TypeOK, LimitInv, TasksSound, WithinLimit
  <2>2. IsFiniteSet(running)
    BY <2>1, FS_Subset
  <2>3. IsFiniteSet(working) /\ Cardinality(working) =< Cardinality(running)
    BY <2>1, <2>2, FS_Subset
  <2>4. Cardinality(working) \in Nat /\ Cardinality(running) \in Nat
    BY <2>2, <2>3, FS_CardinalityType
  <2> QED BY <2>1, <2>3, <2>4 DEF WorkerLimit
<1> QED BY <1>1, LimitInvariant, PTL

\* _blocked_pending_failures: over any sequence of waves, retries and restarts, no
\* unit is left pending behind a failed one.
THEOREM DependentsOfFailedFail == Spec => []BlockedUnitsAreFailed
<1>1. WaveInv /\ LimitInv => BlockedUnitsAreFailed
  BY DEF LimitInv, Settled, BlockedUnitsAreFailed
<1> QED BY <1>1, LimitInvariant, PTL
-----------------------------------------------------------------------------
(* The refinement *)

\* A checkpoint that follows the one before it records more, or advances.
LEMMA CheckpointStep ==
    ASSUME Sound(saved, delivered)', Follows(saved, saved'), delivered' = delivered
    PROVE  Plan!Next
<1>1. CASE BeyondTheWave(saved')
  <2>1. delivered = Units /\ BeyondTheWave(saved)'
    BY <1>1 DEF Sound, BeyondTheWave
  <2> QED BY <2>1 DEF Plan!Next, Plan!Advance
<1>2. CASE ~BeyondTheWave(saved')
  <2>1. ~BeyondTheWave(saved) /\ In(saved, "succeeded") \subseteq In(saved', "succeeded")
    BY <1>2 DEF Follows
  <2>2. ~BeyondTheWave(saved)' /\ In(saved, "succeeded")' = In(saved', "succeeded")
    BY <1>2 DEF BeyondTheWave, In
  <2>3. In(saved', "succeeded") \subseteq delivered
    BY <2>2 DEF Sound
  <2>4. BeyondTheWave(saved)' = BeyondTheWave(saved)
    BY <2>1, <2>2 DEF BeyondTheWave
  <2>5. Plan!Record
    BY <2>1, <2>2, <2>3, <2>4 DEF Plan!Record
  <2> QED BY <2>5 DEF Plan!Next
<1> QED BY <1>1, <1>2

\* A worker delivers: it was started after its dependencies were delivered.
LEMMA DeliveryStep ==
    ASSUME WaveInv, LimitInv, NEW u \in working,
           delivered' = delivered \cup {u}, saved' = saved
    PROVE  Plan!Next
<1>1. u \in Units /\ dependencies[u] \subseteq delivered
  BY DEF WaveInv, TypeOK, CoordinatorSound, LimitInv, TasksSound
<1>2. BeyondTheWave(saved)' = BeyondTheWave(saved) /\ In(saved, "succeeded")' = In(saved, "succeeded")
  BY DEF BeyondTheWave, In
<1>3. Plan!Deliver(u)
  BY <1>1, <1>2 DEF Plan!Deliver
<1> QED BY <1>1, <1>3 DEF Plan!Next

\* The fan-out implements its promise: whatever fails, is interrupted or killed,
\* each step delivers a unit in order, makes durable what was delivered, leaves
\* the phase with everything done, or does not concern the plan.
THEOREM FanOutImplementsPlan == Spec => ImplementsPlan
<1>1. Init => Plan!Init
  <2> SUFFICES ASSUME Init PROVE Plan!Init
    OBVIOUS
  <2>1. saved = InitialState /\ delivered = {}
    BY DEF Init
  <2>2. In(InitialState, "succeeded") = {} /\ ~BeyondTheWave(InitialState)
    BY DEF InitialState, In, NoWorkers, BeyondTheWave
  <2> QED BY <2>1, <2>2 DEF Plan!Init
<1>2. WaveInv /\ LimitInv /\ [Next]_vars => [Plan!Next]_(Plan!vars)
  <2> SUFFICES ASSUME WaveInv, LimitInv, [Next]_vars
               PROVE  Plan!Next
    OBVIOUS
  <2>1. Sound(saved, delivered)' /\ Follows(saved, saved')
    BY StepInv DEF WaveInv
  <2>2. CASE delivered' = delivered
    BY <2>1, <2>2, CheckpointStep
  <2>3. CASE delivered' # delivered
    <3>1. PICK u \in Units : WorkerDelivers(u) \/ WorkerBreaks(u)
      BY <2>3, Zenon DEF Next, Wave, vars, history, StartFanOut, TakeResult, WaveAborts, Verify,
                  WorkerIsCancelled, ReenterFromFailedRoute, ExitOnStrayUnits,
                  PreparationFails, Interrupt, KillAndResume, WorkerFails
    <3>2. u \in working /\ saved' = saved /\ delivered' = delivered \cup {u}
      BY <2>3, <3>1 DEF WorkerDelivers, WorkerBreaks
    <3> QED BY <3>2, DeliveryStep
  <2> QED BY <2>2, <2>3
<1> QED BY <1>1, <1>2, LimitInvariant, PTL DEF Spec, ImplementsPlan, Plan!Spec
=============================================================================
