------------------------------- MODULE FanOut -------------------------------
(***************************************************************************)
(* Ralph-managed fan-out of a plan's work units: the wave that             *)
(* _run_fan_out_async runs (pipeline/fan_out.py), its coordinator and      *)
(* workers (parallel/parallel_coordinator.py, parallel/scheduler.py), the  *)
(* reducer's worker handlers, and the checkpoints in between.              *)
(*                                                                         *)
(* The coordinator and its workers are asyncio tasks: they interleave only *)
(* where the code awaits.  The phases after the wave are "onward", the     *)
(* phase an expired cycle is redirected to is "finalization"; both are     *)
(* phases without a parallelization block.                                 *)
(***************************************************************************)
EXTENDS Naturals, FiniteSets, Sequences

CONSTANTS
    Units,          \* unit ids of the plan, ordered as the scheduler sorts them
    dependencies,   \* WorkUnit.dependencies
    max_workers,    \* max_parallel_workers of the phase
    verification,   \* post_fanout_verification of the phase
    MaxAttempts     \* crashes the phase's agent chain absorbs before it gives up

\* PhaseParallelization and validate_graph; a single unit never fans out.
ASSUME FanOutAssumption ==
    /\ Units \subseteq Nat
    /\ IsFiniteSet(Units)
    /\ Cardinality(Units) >= 2
    /\ dependencies \in [Units -> SUBSET Units]
    /\ max_workers \in Nat \ {0}
    /\ verification \in BOOLEAN
    /\ MaxAttempts \in Nat

\* _validate_acyclic: every nonempty set of units has one that waits for none of them.
ASSUME AcyclicAssumption ==
    \A S \in SUBSET Units : S # {} => \E u \in S : dependencies[u] \cap S = {}

VARIABLES
    state,        \* PipelineState: phase, previous_phase, work_units, worker_states, chain
    saved,        \* the checkpoint
    pc,           \* "route", "wave" (in run_fan_out) or "verify"
    pending,      \* run_fan_out: units not yet started
    running,      \* run_fan_out: units started and not yet taken off the queue
    completed,    \* run_fan_out: units taken off the queue
    queue,        \* completion_queue
    working,      \* worker tasks that have not ended
    failures,     \* worker tasks that raised _WorkerFailureError
    unexpected,   \* a worker task raised something else
    delivered,    \* history: units whose worker exited 0 with its artifact
    interrupted   \* history: the user pressed Ctrl+C

coordinator == <<pending, running, completed, queue>>
tasks == <<working, failures, unexpected>>
history == <<delivered, interrupted>>
vars == <<state, saved, pc, coordinator, tasks, history>>

NoWorkers == [u \in Units |-> "untracked"]

InitialState == [phase |-> "development", previous |-> "planning", work_units |-> FALSE,
                 worker_states |-> NoWorkers, attempts |-> 0]

Init ==
    /\ state = InitialState /\ saved = InitialState
    /\ pc = "route"
    /\ pending = {} /\ running = {} /\ completed = {} /\ queue = <<>>
    /\ working = {} /\ failures = {} /\ unexpected = FALSE
    /\ delivered = {} /\ interrupted = FALSE

-----------------------------------------------------------------------------
(* reducer.py, _reducer_worker_state.py *)

with_status(s, us, status) ==
    [s EXCEPT !.worker_states = [u \in Units |-> IF u \in us THEN status ELSE @[u]]]

In(s, status) == {u \in Units : s.worker_states[u] = status}

handle_fan_out_started(s) ==
    IF s.worker_states = NoWorkers THEN with_status(s, Units, "pending") ELSE s

handle_workers_resumed(s) == with_status(s, In(s, "running"), "pending")

advance_phase(s, target) == [s EXCEPT !.phase = target, !.previous = s.phase]

\* Mutant: the phase that failed is not remembered.
enter_failed_recovery_forgetful(s) == [s EXCEPT !.phase = "failed"]

enter_failed_recovery(s) == advance_phase(s, "failed")

handle_all_workers_complete(s) ==
    IF s.worker_states = NoWorkers THEN s
    ELSE IF In(s, "failed") # {} THEN enter_failed_recovery(s)
    ELSE IF In(s, "succeeded") # Units THEN s
    ELSE advance_phase(s, "onward")

\* A recoverable PhaseFailureEvent reduced without a controller: a retry or the
\* next agent while the chain has one.  "onward" has a chain of its own, fresh.
handle_phase_failure(s) ==
    IF s.phase = "onward" THEN s
    ELSE IF s.attempts < MaxAttempts THEN [s EXCEPT !.attempts = @ + 1]
    ELSE enter_failed_recovery(s)

-----------------------------------------------------------------------------
(* fan_out.py: how a wave leaves the state *)

with_parallel_execution_cleared(s) ==
    [s EXCEPT !.work_units = FALSE, !.worker_states = NoWorkers]

\* Mutant: the tracking state of a finished wave is kept.
_kept_after_successful_wave(s) == s

_cleared_after_successful_wave(s) ==
    IF In(s, "succeeded") = Units THEN with_parallel_execution_cleared(s) ELSE s

\* _save_checkpoint_or_log: an error is logged and the old checkpoint stays.
_save_checkpoint_or_log(s) ==
    \/ saved' = s
    \/ UNCHANGED saved

EndOfWave ==
    /\ pending' = {} /\ running' = {} /\ completed' = {} /\ queue' = <<>>
    /\ working' = {} /\ failures' = {} /\ unexpected' = FALSE

\* The return of _run_fan_out_async with state s.
Return(s) ==
    /\ state' = s
    /\ pc' = "route"
    /\ EndOfWave
    /\ _save_checkpoint_or_log(s)

\* except BaseException: the events of the wave are lost with the exception.
Crash(s) == Return(handle_phase_failure(s))

\* Mutant: a failed worker is recorded like one that returned.
reduce_failures_as_results(s, done, failed) ==
    with_status(handle_fan_out_started(s), done \cup failed, "succeeded")

\* FAN_OUT_STARTED, then the started, completed and failed workers in order.
\* A unit that was started ends in one of the two sets.
reduce_worker_events(s, done, failed) ==
    with_status(with_status(handle_fan_out_started(s), done, "succeeded"), failed, "failed")

-----------------------------------------------------------------------------
(* scheduler.py *)

\* Mutant: a started dependency is taken for a completed one.
schedule_eagerly(done, us, run) ==
    LET ready == {u \in us \ (done \cup run) : dependencies[u] \subseteq done \cup run}
    IN  {u \in ready : Cardinality({v \in ready : v < u}) + Cardinality(run) < max_workers}

\* Mutant: the workers that are running are not counted.
schedule_without_slots(done, us, run) ==
    LET ready == {u \in us \ (done \cup run) : dependencies[u] \subseteq done}
    IN  {u \in ready : Cardinality({v \in ready : v < u}) < max_workers}

\* The ready units with the smallest ids, as many as there are slots.
schedule_next_wave(done, us, run) ==
    LET ready == {u \in us \ (done \cup run) : dependencies[u] \subseteq done}
    IN  {u \in ready : Cardinality({v \in ready : v < u}) + Cardinality(run) < max_workers}

-----------------------------------------------------------------------------
(* fan_out.py: _run_fan_out_async up to the coordinator's first await *)

Routing(phase) == pc = "route" /\ state.phase = phase

\* Mutant: a dependency outside the resumed units is taken to be met.
validates_nothing(us) == TRUE

\* WorkUnitsPlan(work_units=resume_units) refuses a dependency outside the plan.
\* Pydantic wraps that error, so the coordinator's handler does not catch it.
validates(us) == \A u \in us : dependencies[u] \subseteq us

StartFanOut ==
    LET s  == handle_workers_resumed([state EXCEPT !.work_units = TRUE])
        us == Units \ In(s, "succeeded")
        ready == schedule_next_wave({}, us, {})
    IN  /\ Routing("development")
        /\ IF us = {} THEN
              Return(_cleared_after_successful_wave(handle_all_workers_complete(s)))
           ELSE IF ~validates(us) THEN Crash(s)
           ELSE /\ state' = s
                /\ pc' = "wave"
                /\ pending' = us \ ready
                /\ running' = ready
                /\ working' = ready
                /\ UNCHANGED <<completed, queue, failures, unexpected, saved>>
        /\ UNCHANGED history

\* Session plan, manifests or worker context could not be prepared.
PreparationFails ==
    /\ Routing("development")
    /\ Crash(state)
    /\ UNCHANGED history

-----------------------------------------------------------------------------
(* parallel_coordinator.py: _run_worker *)

Aborting == failures # {} \/ unexpected

WorkerDelivers(u) ==
    /\ u \in working /\ ~Aborting
    /\ queue' = Append(queue, u)
    /\ working' = working \ {u}
    /\ delivered' = delivered \cup {u}
    /\ UNCHANGED <<state, saved, pc, pending, running, completed, failures, unexpected,
                   interrupted>>

\* Mutant: the failure is swallowed and its worker simply ends.
WorkerEndsSilently(u) ==
    /\ u \in working
    /\ working' = working \ {u}
    /\ UNCHANGED <<state, saved, pc, coordinator, failures, unexpected, history>>

\* A nonzero exit, an executor error or a missing artifact.
WorkerFails(u) ==
    /\ u \in working
    /\ failures' = failures \cup {u}
    /\ working' = working \ {u}
    /\ UNCHANGED <<state, saved, pc, coordinator, unexpected, history>>

\* _prepare_executor raises before the worker runs, or bundle.close() raises
\* once it has delivered.
WorkerBreaks(u) ==
    /\ u \in working
    /\ unexpected' = TRUE
    /\ working' = working \ {u}
    /\ \/ UNCHANGED <<queue, delivered>>
       \/ ~Aborting /\ queue' = Append(queue, u) /\ delivered' = delivered \cup {u}
    /\ UNCHANGED <<state, saved, pc, pending, running, completed, failures, interrupted>>

\* The TaskGroup cancels the other workers once one has raised.
WorkerIsCancelled(u) ==
    /\ u \in working /\ Aborting
    /\ working' = working \ {u}
    /\ UNCHANGED <<state, saved, pc, coordinator, failures, unexpected, history>>

-----------------------------------------------------------------------------
(* parallel_coordinator.py: run_fan_out *)

\* The coordinator takes a result off the queue and schedules what it freed.
\* With nothing left to await, ALL_WORKERS_COMPLETE ends the wave.
TakeResult ==
    LET u     == Head(queue)
        done  == completed \cup {u}
        run   == running \ {u}
        ready == schedule_next_wave(done, pending \cup run \cup done, run)
        s     == handle_all_workers_complete(reduce_worker_events(state, done, {}))
        left  == _cleared_after_successful_wave(s)
    IN  /\ pc = "wave" /\ queue # <<>> /\ ~Aborting
        /\ \/ /\ run \cup ready # {}
              /\ completed' = done
              /\ running' = run \cup ready
              /\ pending' = pending \ ready
              /\ queue' = Tail(queue)
              /\ working' = working \cup ready
              /\ UNCHANGED <<state, saved, pc, failures, unexpected>>
           \/ /\ run \cup ready = {}
              /\ state' = left
              /\ pc' = IF verification THEN "verify" ELSE "route"
              /\ EndOfWave
              /\ _save_checkpoint_or_log(left)
        /\ UNCHANGED history

\* Mutant: only direct dependents are blocked.
BlockedDirectlyBy(failed) == {u \in pending : dependencies[u] \cap failed # {}}

\* _blocked_pending_failures: pending units that depend, directly or through
\* other pending units, on a failed one.
BlockedBy(failed) ==
    LET closed(S) == \A u \in pending : dependencies[u] \cap (failed \cup S) # {} => u \in S
    IN  {u \in pending : \A S \in SUBSET pending : closed(S) => u \in S}

\* except* Exception, once every task has ended: whatever is still in running
\* has failed, and results left in the queue with it.
WaveAborts ==
    /\ pc = "wave" /\ Aborting /\ working = {}
    /\ IF unexpected THEN Crash(state)
       ELSE Return(reduce_worker_events(state, completed, running \cup BlockedBy(running)))
    /\ UNCHANGED history

-----------------------------------------------------------------------------
(* fan_out.py: after the wave *)

\* _run_verify_phase and the completion callback: the verdict is reduced and
\* saved in the phase the wave advanced to; an exception is that phase's failure.
Verify ==
    /\ pc = "verify"
    /\ \/ Return(state)
       \/ Return(enter_failed_recovery(state))
    /\ UNCHANGED history

\* The first SIGINT cancels the root task; the CancelledError is caught like any
\* other exception, and nothing afterwards asks whether the user interrupted.
Interrupt ==
    /\ pc \in {"wave", "verify"}
    /\ Crash(state)
    /\ interrupted' = TRUE
    /\ UNCHANGED delivered

-----------------------------------------------------------------------------
(* effect_router.py and runner.py: the phases around the wave *)

\* The hop out of the failed route: back to where the run was, with the chain
\* reset, or to the finalization target when the cycle's deadline has passed.
ReenterFromFailedRoute ==
    /\ Routing("failed")
    /\ \E phase \in {state.previous} \cup
                    (IF state.previous = "development" THEN {"finalization"} ELSE {}) :
          Return([state EXCEPT !.phase = phase, !.attempts = 0])
    /\ UNCHANGED history

\* _fan_out_effect: units in a phase that declares no parallelization.
ExitOnStrayUnits ==
    /\ pc = "route" /\ state.phase \in {"onward", "finalization"} /\ state.work_units
    /\ state' = [state EXCEPT !.phase = "exited"]
    /\ UNCHANGED <<saved, pc, coordinator, tasks, history>>

KillAndResume ==
    /\ state.phase # "exited"
    /\ state' = saved
    /\ pc' = "route"
    /\ EndOfWave
    /\ UNCHANGED <<saved, history>>

Wave ==
    \/ StartFanOut \/ TakeResult \/ WaveAborts \/ Verify
    \/ \E u \in Units : WorkerDelivers(u) \/ WorkerIsCancelled(u)

Next ==
    \/ Wave \/ ReenterFromFailedRoute \/ ExitOnStrayUnits
    \/ PreparationFails \/ Interrupt \/ KillAndResume
    \/ \E u \in Units : WorkerFails(u) \/ WorkerBreaks(u)

Spec == Init /\ [][Next]_vars

\* The event loop runs every task that is ready, and an invocation's watchdog
\* ends a worker that hangs.  Failures, kills and interrupts are never owed.
FairSpec == Spec /\ WF_vars(Wave)

-----------------------------------------------------------------------------
Statuses == {"untracked", "pending", "running", "succeeded", "failed"}

Phases == {"planning", "development", "onward", "finalization", "failed", "exited"}

States == [phase : Phases, previous : Phases,
           work_units : BOOLEAN, worker_states : [Units -> Statuses],
           attempts : 0 .. MaxAttempts]

\* PipelineState, its checkpoint and the coordinator's local variables.
TypeOK ==
    /\ state \in States /\ saved \in States
    /\ pc \in {"route", "wave", "verify"}
    /\ pending \subseteq Units /\ running \subseteq Units /\ completed \subseteq Units
    /\ queue \in Seq(Units)
    /\ working \subseteq Units /\ failures \subseteq Units
    /\ unexpected \in BOOLEAN /\ interrupted \in BOOLEAN
    /\ delivered \subseteq Units

\* schedule_next_wave: however a wave was resumed, a unit is only started once
\* the worker of every unit it depends on has delivered.
DependenciesFirst == \A u \in running : dependencies[u] \subseteq delivered

\* max_parallel_workers bounds the workers that run at once.
WorkerLimit == Cardinality(working) =< max_workers

\* worker_states never claims a success that did not happen, in memory or after
\* a restart, although the events of a wave are reduced only at its end.
RecordedMeansDelivered ==
    In(state, "succeeded") \cup In(saved, "succeeded") \subseteq delivered

BeyondTheWave(s) == "onward" \in {s.phase} \cup (IF s.phase = "failed" THEN {s.previous} ELSE {})

\* _handle_all_workers_complete: the phase is only left by success when every
\* unit of the plan was delivered, over all the waves and restarts it took.
OnwardMeansAllDelivered ==
    BeyondTheWave(state) \/ BeyondTheWave(saved) => delivered = Units

\* "Clear tracking BEFORE checkpointing": neither the run nor a restart from any
\* checkpoint routes the advanced phase with work units still in the state.
NoStrayUnitsOnward ==
    \A s \in {state, saved} :
        BeyondTheWave(s) => ~s.work_units /\ s.worker_states = NoWorkers

\* run_fan_out: the wave never ends by its break, with units left that nothing
\* can make ready, so what is verified is always the work of the whole plan.
OnlyCompleteWavesAreVerified == pc = "verify" => BeyondTheWave(state)

\* _blocked_pending_failures: after a failed wave a unit stays pending only if no
\* unit it depends on, at any distance, has failed.
BlockedUnitsAreFailed ==
    \A u \in In(state, "pending") : dependencies[u] \cap In(state, "failed") = {}

\* _cleared_after_successful_wave, WORKERS_RESUMED: a success in the checkpoint
\* is never overwritten by a later wave, failure or interrupt of the same plan.
RecordedSuccessIsKept ==
    [][In(saved, "succeeded") \subseteq In(saved', "succeeded") \/ BeyondTheWave(saved')]_vars

\* Durable progress, as the next process finds it in the checkpoint.
Plan == INSTANCE PlanExecution WITH
            recorded <- IF BeyondTheWave(saved) THEN Units ELSE In(saved, "succeeded"),
            advanced <- BeyondTheWave(saved)

\* _run_fan_out_async with its coordinator, workers, retries, interrupts, kills
\* and lost checkpoints does to the plan only what PlanExecution allows: deliver
\* a unit after its dependencies, record what was delivered, advance when done.
ImplementsPlan == Plan!Spec

\* run_fan_out never waits on the completion queue with no worker left to fill it.
WaveSettles == pc = "wave" ~> pc # "wave"
=============================================================================
