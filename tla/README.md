# TLA+ specifications of Ralph Workflow

Ralph Workflow runs coding agents through a declared graph of phases: plan,
analyse the plan, develop, commit, analyse, commit for good, repeat until the
iteration budget is spent.  A run is meant to go on unattended for hours, over
failing agents, provider cooldowns, crashes and restarts.  These modules
specify the part of the code that decides *what happens next* and the threads
and processes it does so with.  TLC checks every module on a small instance, and
TLAPS proves the safety of all of them for every value of their constants.  Where a
property depends on the shape of the phase graph, the theorem names what the graph
has to satisfy, and TLC evaluates that on the default graph.

All source paths below are relative to `src/ralph-workflow/ralph/`.

## The parts of the system

| Part | Its state | Its operations | What makes it hard |
|---|---|---|---|
| Phase graph (`policy/`) | none: constants of a run | validation at load | every later route relies on it |
| Reducer (`pipeline/reducer.py`, `progress.py`, `cycle_timing.py`, `handoffs.py`) | `PipelineState`: phase, loop and budget counters, verdict, cycle timer | one handler per event | one event crosses deadline, bypass, gate and budget at once |
| Step and run loop (`pipeline/runner.py`, `run_loop.py`, `effect_router.py`) | the held state, the clock sample, the retry delay | choose an effect, run it, reduce, fold the clock, save, sleep | two failure paths, kills between any two updates |
| Checkpoint (`pipeline/checkpoint.py`) | the saved `PipelineState` | save, load | saved before some updates and after others |
| Recovery controller (`recovery/`) | spent agents, cooldowns, backoff, budgets, same-shape record | classify, retry, fall over, wait, give up | its state is process-local, the chain's is checkpointed |
| Fan-out (`pipeline/fan_out.py`, `parallel/`) | worker states of one wave | start, complete, fail, cancel, resume | concurrent workers, partial failure |
| Tool server supervision (`mcp/server/lifecycle.py`, `process/mcp_supervisor.py`) | server process, session files, restart and reset budgets, probe counter | check, restart, reset, stop | a supervisor thread beside every attempt, one lock, one caller that does not take it |
| Interrupts (`interrupt/`, `pipeline/_runner_interrupt.py`) | interrupt flag, shutdown thread, two dispatchers | first press, second press, forced exit | a signal handler, a thread and the clean-up at once |
| Process manager (`process/manager/`) | registry of children | spawn, poll, reap, walk and terminate | several threads judge the same process |
| Idle watchdog (`agents/idle_watchdog/`) | evidence and ceilings | evaluate, fire | decides that an agent is stuck |
| Auto-integration (`pipeline/auto_integrate*.py`, `conflict_resolution/`) | branches, a paused rebase or merge, the durable record | rebase, merge, resolve, land, recover, catch up | several worktrees move one target, and a kill may come between any two git commands |

They meet at few places.  The run loop reduces events; an invocation runs one
agent of the chain with a tool server beside it and reports an outcome, which the
recovery controller turns into a retry, another agent, a wait or a failed phase;
a phase with parallelization runs a wave of invocations instead.  Every child
process is in the process manager's registry, and an interrupt ends all of it.
So the outcomes `RecoveryController` and `FanOut` choose from are what
`McpSupervision` ends with, and the failures `PipelineRun` chooses from are what
`RecoveryController` decides.  `InterruptShutdown` composes the registry with the
threads that end a run.  After a commit, and between phases, the run loop integrates
its branch; `AutoIntegrate` takes the phases as steps that may commit.

`PROJECT.json` lists these and the remaining packages with their status.

## Modules

| Module | Models | Built on |
|---|---|---|
| `PipelinePolicy` | the phase graph and its validators | |
| `PipelineGraph` | what a phase graph has to satisfy, beyond the validators, for timer and exit code to mean what they say | `PipelinePolicy` |
| `PipelineReducer` | routing as operators from state to state | `PipelinePolicy` |
| `PipelineRun` | the step, the run loop, kill and resume | `PipelineReducer` |
| `PipelineHistory` | the same with the real elapsed time and the last closed verdict recorded | `PipelineRun` |
| `PipelineReducerProofs` | lemmas about every handler of the reducer, for every phase graph | `PipelineReducer`, `PipelineGraph` |
| `PipelineProofs` | what a step may do, the invariant of the run loop, types and verdict | `PipelineReducerProofs`, `PipelineHistory` |
| `PipelineCycleProofs` | theorems about the cycle timer, the deadline, resume and the exit code | `PipelineProofs` |
| `PipelineClaims` | statements of docs and tests that the code does not keep | `PipelineRun` |
| `RecoveryController` | the agent chain of one phase | |
| `RecoveryClaims` | statements about the chain that the code does not keep | `RecoveryController` |
| `RecoveryControllerProofs` | its theorems | `RecoveryController` |
| `PlanExecution` | what a fan-out promises, without waves, workers or failures | |
| `FanOut` | a wave of parallel workers, its abort, resume and checkpoints | `PlanExecution` |
| `FanOutClaims` | statements about a wave that the code does not keep | `FanOut` |
| `FanOutProofs` | its theorems, and that `FanOut` implements `PlanExecution` | `FanOut` |
| `ProcessManager` | the registry of children and the walks that terminate them | |
| `InterruptShutdown` | the end of a run: presses, threads, clean-up, exit hooks | `ProcessManager` |
| `InterruptShutdownProofs` | theorems about both | `InterruptShutdown` |
| `McpSupervision` | one agent invocation with its tool server and supervisors | |
| `McpSupervisionProofs` | its theorems | `McpSupervision` |
| `AutoIntegrate` | the seams, the recovery and the catch-up of several worktrees of one repository | |
| `AutoIntegrateProofs` | its theorems | `AutoIntegrate` |
| `MCDefaultPolicy`, `MCPipelineRun`, `MCPipelineHistory`, `MCRecoveryController`, `MCFanOut`, `MCInterruptShutdown`, `MCMcpSupervision`, `MCAutoIntegrate` | instances for TLC | |

### From the code to the pipeline modules

A `PipelineState` record keeps the fields routing reads.  `pending` is
`pending_cycle_outcome`, `charged` is `execution_cycle_charged`, `active` and
`consumed` are the cycle timebox, `worked` is the sum the invocation gate
computes from the timing records, `epoch` and `cycles` are the two recovery
counters.  A counter that the code only compares with a bound is kept saturated
at that bound, so that the state space is finite without changing a decision.

Each handler of `reducer.py` is an operator that returns the next state.  All of
them route through `route`, the seam `_prepare_phase_advance` /
`_advance_phase`: deadline first, then the bypass of an exhausted analysis, then
the deadline again for the phase the bypass led to, then the end of the cycle.

An action of `PipelineRun` is one whole pipeline step: the effect the router
chooses, an event its execution can produce (the environment's choice), the
reduction, the fold of the elapsed seconds, the new clock sample, the
checkpoint and the timing record, in the code's order.  `FinishStep` is the
ordinary end of a step and `FinishUnfolded` the end of inline effects, missing
plan recovery and the crash path, which return without a fold.
`AgentFails` is a failure the reducer sees; `StepCrashes` is an exception that
escapes the step.  The two differ in which clock sample judges them and in what
happens to the exit effect.  `KillAndResume` may happen between any two steps;
a kill inside a step has the same effect, since nothing is saved before its end.

### From the code to RecoveryController

One phase with a chain of `N` agents; the rest of the pipeline is the phase
`"elsewhere"`.  `index` and `retries` are the `AgentChainState`, `waiting` and
`delay` the fields the run loop sleeps on; `spent`, `left` (remaining
cooldown), `backoff`, `consumed` and `broken` are the controller's own
bookkeeping, which a restart loses while `saved` comes back.  `Invoke` lets time
pass and picks how the invocation ends; the action of that outcome then does
everything up to the checkpoint; `NextIteration`, `Sleep` and `SleepFails` are
the run loop between two steps.  Cooldowns are remaining time rather than
deadlines, so that no clock has to be bounded.  `blocked` says that the worktree
holds an unresolved integration: anything may leave or clear one, and the loop reads
it when a cooldown wait has ended and at the top of the iteration
(`_block_unresolved_integration`), where the run goes on once it is resolved or exits.
What the resolution itself does is in `AutoIntegrate`.

The classifier's verdict is an environment choice: every failure the handlers
tell apart is an outcome.  One backoff policy stands for the per-reason ones.
The bound on same-shape session resumes and the event `AGENT_RETRY` are left
out: no path of the program reaches them.

### From the code to FanOut

One plan with its units and dependencies, in a phase that declares
parallelization.  `state` keeps the phase, whether `work_units` is set, the
`worker_states` and the crashes the chain has absorbed; `pending`, `running`,
`completed` and `queue` are the local variables of `run_fan_out`, `working`,
`failures` and `unexpected` its worker tasks.  The tasks are asyncio tasks, so
an action reaches from one await to the next: `StartFanOut` runs from the router
to the coordinator's first wait, `TakeResult` takes one result and schedules what
it freed, and, when nothing is left, does everything up to the checkpoint and the
start of the verification.  A wave can end in five ways, and they differ in what
they keep: all results taken; a worker failed (`WaveAborts`: results still in the
queue are turned into failures); something else was raised (all events of the
wave are lost); the first Ctrl+C (`Interrupt`: taken for a crash); a kill.  Every
save may fail.  `delivered` and `interrupted` are history: what really happened,
to compare the records with.

The phases after the wave are one phase `"onward"`, the phase an expired cycle is
redirected to is `"finalization"`; only that neither declares parallelization
matters here.  The manifests and worker sessions can only fail
(`PreparationFails`).  The integration callback after a verified wave changes no
field the module has.

`PlanExecution` says what all of this is for: units are delivered in the order of
their dependencies, what a restart would take as done only grows and is always
delivered, and the phase is left for good once everything is.  The refinement
mapping reads the *checkpoint*, since that is what a restart starts from:
`recorded` is the set of successes in `saved` (all units, once `saved` is beyond
the wave and its worker states are cleared), `advanced` is that `saved` is beyond
the wave, `delivered` is the history variable itself.  Failures, aborted waves,
interrupts, lost saves and kills are stuttering steps.

### From the code to ProcessManager and InterruptShutdown

`status`, `records` and `procs` are the registry (`ProcessRecord.status`,
`_records`, and the handle maps as one set); `os` is what the operating system
would say, and the properties compare the two.  A spawn is three steps, because a
signal or another thread can come between them: the fork, the registration, the
return to the caller.  A walk (`shutdown_all`, `shutdown_all_for_label`) is one
record per thread whose stages are the points where `_escalate_termination_sync`
and `_terminate_by_pid` look at the system, signal, wait, kill, look again and
write the verdict; other threads, the reaper, the owner of a handle and the
processes themselves move in between.  `Stuck` processes may outlive a SIGKILL,
`Denied` ones may refuse to be read.  `Foreign` ones may refuse the signal: the
`PermissionError` of the handle is no `ProcessTerminationError`, so it ends the walk
(`TerminateRefused`).  The liveness check of `Unknown` ones may fail, which
`_reconcile_stale_entries` takes for death.  A SIGTERM has no effect of its own in the
model: any live process may end at any moment.  Process ids are not reused, trees
are one level deep, and records of asyncio children are not distinguished.

`InterruptShutdown` adds the main thread (`main`), the daemon thread of the first
press, the calls of the dispatcher each of them is in (`call`), the handler of
the command line that catches a second interrupt, and the exit hooks.  `code` is
the exit: `"130"` for the hard exit, `"end"` for any orderly one.

### From the code to McpSupervision

Thread 0 is the invocation, thread `i` the supervisor of attempt `i`.  `at` is
where a thread is inside `check_health_and_restart_if_needed` or
`reset_tool_registry`, one step for each point where the lock is taken, the server
probed, stopped, spawned and found ready; `lock` is a set so that a mutant may
break it.  `server` is the sequence of all servers so far and `inner` the one the
bridge holds.  The invocation's own `shutdown` takes no lock, as in the code.  The
join of a supervisor has a timeout; `late` records that one was still busy when it
ran out.  The supervisor of an attempt is started before its agent: in between
(`main = "launch"`) `invoke_agent` resolves the runtime and builds the command, an
interruption finds no process, and `LaunchAgent` spawns it.

### From the code to AutoIntegrate

Every worktree has a run on its own feature branch; all share the object store and
the target branch.  `commits` is the object store: of a commit it keeps which
commits its history holds (`anc`), whose changes its tree holds (`work`) and whether
it has two parents.  `wt` is a worktree as git sees it: its branch, HEAD, the
operation that is paused there, the other side of a paused merge, whether it stopped
at a conflict and whether a resolver already finished some of its stops.  `rec` is
`auto_integrate_in_progress.json`, `proc` where the process is and what it remembers
(attempt, whether the resolver may be used, the observed target, how the landing
ended), `catchup` what the catch-up thread is about to merge.

An action is one git command or one write of the record, together with the
decisions up to the next one.  `Commit` and `Boundary` enter a seam;
`WriteIntegrating` begins an attempt; `run_rebase_or_merge` to `abort_merge` are the
rebase, its stops, the endpoint merge and the ways they fail; `WriteIntegrated` and
the actions of `fast_forward_target` land, by compare-and-swap or, where the target
is checked out, by `merge --ff-only`; `ClearIntegrated` ends the attempt or begins
the next.  `Start`, `Recover...` and `_land_and_reconcile` are
`recover_incomplete_integration`; `Gate...` is `_block_unresolved_integration`.
`CatchUpObserves` and `CatchUpMerges` are the thread, which looks and merges in two
steps beside all of this.  `Kill` may come anywhere, and any git command may fail.

Which changes conflict, what the conflict budget allows and how a resolver session
ends is left open.  Backup refs are left out, since nothing is decided from them;
so are the remote, `target_reconcile` records, what a reclaim saves and leftovers of
cherry-picks.

## Runs

Passing runs:

| Run | Instance | Shows |
|---|---|---|
| `default_policy` | the default policy, loop caps 1, two iterations, deadline 2, gate 2, two faults, recovery bound 2, real time recorded, fair | counters within caps, timer only inside the cycle, development always timed and never entered late, verdicts kept, resume exact, exit 0 only with the budget spent, deadline never early, the run ends once failures stop |
| `agent_chain` | two agents, all ten outcomes, integrations left unresolved at any time, one kill, fair | bounded retries, return of the first choice when a phase is entered or a wait ends over a resolved worktree, justified give-up; a phase in which only charged failures happen is given up |
| `fan_out` | five units, two workers, any number of failures, interrupts and kills | dependency order, worker limit, successes recorded only when real and then kept, phase left only when complete, blocked units failed, every wave ends, the abstract plan implemented |
| `interrupts` | an agent with a child, a server that may outlive SIGKILL, be unreadable, refuse the signal or hide whether it lives, two presses | the registry agrees with the records and, but for such a server, with the operating system, no walk strands a sibling unless a signal was refused, the first verdict stands, one press saves the checkpoint, an interrupted run ends |
| `mcp_supervision` | three attempts, one restart, one reset, two probes, one failing spawn, preflight or termination | budgets kept, one server on the port, session files outlive their servers, nothing left behind, a supervised agent without server is served again or comes back unless its termination failed, the invocation waits for nobody but its agent |
| `auto_integrate` | two worktrees, one commit each, two attempts, two kills or failing git commands, target checked out elsewhere or not | the mainline only advances, only recorded tips land, no landing is imagined, no committed work leaves a branch except by recovery, a kill inside an attempt is safe, every seam and recovery ends unless a resolver session in it does not |

The graph of the instance is that of `policy/defaults/pipeline.toml`, phase for
phase; only the numbers are small.  A cap of one or two reaches "below", "at"
and "beyond" for every counter; two time units with steps of length 0 and 1
reach "before", "exactly at" and "past" the deadline, with the deadline passing
inside a step, in a sleep and in a crash.  Two agents are enough for "another
one is free", "cooling" and "spent" in every combination; backoff 1 to 2
includes the doubling and its cap.  The plan of `fan_out` has a chain of three (4
after 3 after 1), a second dependent of the same unit (5) and an independent one
(2): enough for a unit that is blocked at a distance, for one result that frees
two units while a worker is still running, and for a resume with and without the
units depended on.  Its faults need no bound, since the module counts nothing
but the crashes the chain absorbs.

Two presses reach every combination of the shutdown thread, the main thread that
waits, the second press that escalates and the one that hits the clean-up; two
spawned processes are enough for "one sibling fails to stop and another is still
to be visited", the child of the agent for a tree that outlives its root.  The
server is the one process that misbehaves, in each of the four ways; the theorems
let any process do so.  No
process is started by a background thread in this instance; the theorems allow any
number of such processes, only `InterruptedRunEnds` is checked without them.  With
three attempts the supervisor of the first may still be inside the bridge while
the second runs and the third is prepared; one restart and one reset let each
budget be the one that is exhausted; two probes separate a miss from a restart.
In both modules deadlock is not an error: a run that has exited and an invocation
that has returned make no further step.

In `auto_integrate` the second worktree is the sibling that lands between an
observation and the swap, and makes the histories diverge; with one commit in each,
a replay and a merge both have something to do.  Two attempts reach "again" and "no
more"; two faults reach a failed abort after a kill, and a kill during recovery.
The theorems have no such bounds.

Six runs expect a violation.  Each checks one sentence of a doc, comment or
test that the code does not keep; the sentence and the place are under
`findings` in `PROJECT.json`:

| Run | What TLC shows |
|---|---|
| `claim_failed_run` | the failed route re-runs the closing commit without its verdict, and the run exits 0 |
| `claim_cycle_cap` | the exit effect of the recovery-cycle cap is dropped on the ordinary failure path |
| `claim_reentry` | a missing plan at the recovery bound concludes the cycle on the way to the failed route, which re-enters it without a deadline |
| `claim_invalid_artifacts` | invalid artifacts never exhaust the chain |
| `claim_interrupt` | Ctrl+C during a wave is retried like a crash |
| `claim_resume` | delivered units are run again after an aborted or interrupted wave |

The models show further behaviours that a comment or the manual describes
otherwise, or that a reader would not expect.  They have no run of their own:

* a skipped final commit is billed to the budget (`pipeline/progress.py:375`);
* the first step after a resume is not charged to the cycle clock
  (`pipeline/runner.py:1378`), and the timing record of a step is written after
  its checkpoint, so a kill in between loses it (`pipeline/runner.py:1547`);
* development is invoked past its deadline after a sleep or a crashed step, since
  only entries ask the clock (`pipeline/run_loop.py:1846`);
* a phase may be given up while an agent only cools down
  (`pipeline/reducer.py:673`), and a wait may end on an agent that still does
  (`pipeline/run_loop.py:1257`);
* the spent agents survive one of the ways through the failed route
  (`pipeline/reducer.py:461`); a wait restored by a restart is sat through by
  whatever phase is current (`pipeline/state.py:200`);
* a cooldown wait that ends over an unresolved integration keeps the agent it had, and
  once the gate has resolved it nobody selects again, so an agent that is cooling down
  or comes second serves although the first choice is free; the docstring at
  `pipeline/run_loop.py:1264` says "select the highest-priority available agent".
  `FirstChoiceReturns` is stated for the other waits;
* a resumed wave with a unit whose dependency has already succeeded is refused as
  an invalid plan, each time; a deadline redirect after a failed wave ends the
  run, because the work units are still in the state; a failed or killed
  verification is not run again (`pipeline/fan_out.py:610`);
* the last analysis pass a gated loop admits is skipped
  (`pipeline/effect_router.py:252`), while `tests/test_gated_analysis_loop_budget.py:1`
  says that such a loop "must run every pass its cap declares";
* a second Ctrl+C does not exit when the shutdown it escalates to raises for a
  process that cannot be killed or read: the exception leaves the handler and the
  checkpoint is not saved (`docs/sphinx/recovery.md:49`: "exit immediately without
  waiting for cleanup").  A single Ctrl+C with a process still tracked past the
  grace period exits hard with 130 before the checkpoint is saved;
* a Ctrl+C between the fork of a child and its registration leaves a child that
  no shutdown knows (`process/manager/_process_manager.py:552`);
* a process that Ralph may not signal ends the walk with a `PermissionError`, and its
  siblings are left running; the docstring of `shutdown_all`
  (`process/manager/_process_manager.py:996`) says that a failing escalation "does not
  strand the remaining siblings".  `NoSiblingIsStranded` allows exactly this;
* a live process whose liveness check fails is recorded as killed and no later walk
  visits it (`process/manager/_process_manager.py:830`); `RecordsTellTheTruth` exempts
  the processes this may happen to;
* every walk stops the zombie reaper, the one at the end of a phase included, and
  a spawn starts it again only while the manager has neither records nor history
  (`process/manager/_process_manager.py:575`), so it runs in the first phase only;
  `docs/agents/memory-lifecycle.md:141` says that "the tracking state never drifts";
* a zombie among the descendants settles a record as killed, and
  `_termination_outcomes` is not cleared on shutdown, as the comment at line 94 says;
* a supervisor that is still inside a restart when the join times out
  (`process/mcp_supervisor.py:131`) installs a server that survives the invocation,
  since the last `shutdown` takes no lock (`mcp/server/lifecycle.py:241`);
  `NothingLeftBehind` is stated for invocations without such a supervisor;
* a supervisor that fails terminally while its agent is still being launched finds no
  process to interrupt and ends; the agent then starts without a server, and nobody
  looks after either (`process/mcp_supervisor.py:148`).  A termination that fails is
  only logged.  `AgentIsServedOrReturned` is stated for an agent whose supervisor has
  not ended, and names the failed termination;
* a restart that fails its preflight ends the supervision as an exhausted budget
  although budget remains, and one that fails with another exception is not
  charged to it; a reset of the tool registry keeps the probe misses of the server
  it replaced;
* an "integrating" record does not prove that the rebase never completed, as
  `pipeline/auto_integrate_recovery.py:715` says: an exhausted resolver leaves the
  record and the paused rebase, the gate of the next iteration finishes the rebase,
  the seam after it may be skipped and the record stays.  If a phase then commits and
  the process is killed before its seam writes a new record, recovery resets the
  branch to the old tip, and the commit is only left in the reflog.  This needs two
  commits in one worktree; `OnlyRecoveryTakesBack` allows it, and
  `CrashInsideAttemptIsSafe` is stated for the inside of an attempt for this reason;
* a seam that raises while its rebase is paused clears the record (`SeamRaises`),
  although `pipeline/auto_integrate_rebase_merge.py:653` says that clearing it then
  "ORPHANS that state".  The next gate or startup finds the rebase without a record;
* after a landing that a sibling overtook, recovery retains the record
  (`post_attempt_verify`: HEAD is the integrated tip, not the one before the
  attempt), while the comment at `pipeline/auto_integrate_recovery.py:615` says that
  an "advanced concurrently" refusal matches the recorded tip and passes;
* recovery deletes all backup refs of the repository, also those of siblings that are
  in an attempt, and nothing reads the ref that
  `pipeline/auto_integrate.py:474` calls "uniquely named" and retained for recovery.

## Fairness

`PipelineRun`: the loop takes its next step until it has exited, and every
invocation returns (the idle watchdog bounds it).  Faults are bounded, which
says that failures stop; with failures forever the run need not end, and
`claim_cycle_cap` shows that the cap does not end it.
`RecoveryController`: weak fairness of the loop, and strong fairness of a sleep
that succeeds, since an error in a sleep is transient.
`FanOut`: weak fairness of the event loop as a whole (`Wave`): a task that is
ready runs, and the watchdog of an invocation ends a worker that hangs.  Failures,
interrupts and kills are never owed.
`InterruptShutdown`: weak fairness of the threads taken together, because each of
their waits has a timeout; nothing is assumed of the processes, which may ignore
every signal.
`McpSupervision`: weak fairness of the main thread and of each supervisor (they
are operating-system threads), and a terminated agent is seen to have ended.  An
agent that nobody terminates may run forever.
`AutoIntegrate`: weak fairness of each process inside a seam, at the gate or in
recovery, since every git command has a timeout, except inside a resolver session: the total cap
of a session is off by default (`config/conflict_resolution_config.py:36`) and an agent
that stays active is not stopped, so a session may last for ever, and
`SeamsAndRecoveriesEnd` says so.  Nothing makes a phase commit, the catch-up thread run or a stopped run start again.

## Proofs

`RecoveryControllerProofs` proves, for every chain length, allowance, backoff
policy and subset of outcomes (`ChainAssumption`, `BackoffAssumption`: the
bounds the configuration models enforce):

* `TypeCorrect`: `TypeOK` is inductive as it stands; one lemma per group of
  variables, one step per action.
* `RetriesBounded`: the bound on `retries` alone is not inductive, because each
  allowance is tested against `retries` but paid for elsewhere.  `RetryInv` adds
  what was paid: `retries` is at most the larger of the two counters' caps plus a
  budget per kill plus what the *current* agent has consumed, and the checkpoint
  obeys the same bound with one kill more.
* `FirstChoiceServes`: from the type invariant and the existence of a least
  element in a nonempty set of agents (`Smallest`, by well-foundedness of the
  natural order).  A wait that ends with `blocked'` selects nobody and is not in the
  statement.
* `GiveUpIsJustified`: needs that a restart into the active phase is no give-up
  (`SavedPhase`) and that the selection is total.

`FanOutProofs` proves, for every finite acyclic plan, worker limit and chain
(`FanOutAssumption`, `AcyclicAssumption`: what `WorkUnitsPlan` and the policy
models validate), all the safety properties of the module:

* `WaveInvariant` is the inductive invariant.  `Sound` says of *every* state that
  can be in memory or on disk that its successes are real and that it is complete
  and cleared once it is beyond the wave; `Follows(saved, state)` says that
  memory is never behind the checkpoint, which is what makes a kill harmless;
  `InWave` says that the running wave covers every unit without a recorded
  success and that a pending unit depends only on units of the wave.
* Each reducer operator gets one lemma (it keeps `Sound` and `Follows`), and each
  way a wave can end is then an instance of `ReturnInv` or `CrashInv`.
* `NoUnitIsLeftOver` needs the scheduler to make progress (`ScheduleProgress`):
  a nonempty set of unfinished units has one that waits for none of them, the
  smallest ready unit is always within the free slots, so a wave with nothing
  running and nothing to start has nothing pending.
* `FanOutTypes`, `UnitsStartInOrder`, `SuccessesAreReal`, `OnwardOnlyComplete`,
  `OnwardIsCleared` and `SuccessesAreKept` follow from the invariant.

* `WorkersBounded` counts: the tasks alive are among the coordinator's `running`
  (`TasksSound`), and `ScheduleWithinLimit` shows that taking the first free
  slots of a ranked set never exceeds the limit.
* `DependentsOfFailedFail`: the set of failed units is closed under "depends on"
  in every state a wave leaves (`Settled`), in memory and on disk, because the
  closure `BlockedClosed` is applied before either is written.
* `FanOutImplementsPlan`: every step is a step of `PlanExecution` or a stutter.
  Two kinds of steps are visible: a worker that delivers (`DeliveryStep`) and a save
  (`CheckpointStep`), which records what was delivered or leaves the phase.

`InterruptShutdownProofs` proves `ShutdownTypes`, `RecordsMatchStatus`,
`VerdictsAreTrue`, `SiblingsAreReached`, `VerdictStands` and `OnePressSaves` for
every set of processes, every choice of the stuck, the unreadable, the foreign and the
unknown ones and any number of presses (`ProcessAssumption`, `InterruptAssumption`).  The invariant
`ManagerInv` says what a walk has established at each of its stages (`WalkOK`):
everything seen is still to do or settled unless a signal was refused, which only
happens to a foreign process among them, and after the kill only stuck processes
are left of a tree.  That is stable under the other threads because of `Keeps`: the
dead stay dead and a verdict stands.  `ControlInv` is about the threads alone.

`McpSupervisionProofs` proves `SupervisionTypes`, `PortHasOneServer`,
`SessionFileIsKept` and `InvocationCleansUp` for any budgets and number of
attempts (`McpAssumption`).  The invariant has the mutual exclusion of the bridge
(`LockInv`), where a thread may be (`PlaceInv`), that nobody but the current
supervisor is active unless one was late (`QuietInv`), what is left of the budget
between its check and its use (`BudgetInv`), and that the installed server is down
before another is spawned (`PortInv`).

`AutoIntegrateProofs` proves `TypeCorrect`, `MainlineAdvances`, `RecordedTipsLand`,
`BranchesKeepTheirWork`, `ReportedLandings` and `AttemptCrashSafety`, all the safety
of its module, for any number of worktrees, attempts, commits and faults
(`IntegrateAssumption`):

* The invariant `IInv` says of the history that a tree holds the work of its
  ancestors (`Hist`), and of one worktree, given the history and the target
  (`Local`): HEAD is the branch unless a rebase is paused (`GoodTree`); an
  "integrated" record names a tip that holds what the recorded one held
  (`GoodRecord`); inside an attempt the record is "integrating" and the branch holds
  the recorded tip's work and at most the target's besides, and the target observed
  before the swap is an ancestor of the tip to land (`GoodPlace`); the catch-up thread
  merges only what the target holds (`GoodCatchUp`).
* `LocalIsStable` carries the interference of the siblings: `Local` outlives the
  growth of the history and the advance of the target, and these are all a step of
  another worktree does (`OnlyOf`).  So each action is examined for its own worktree
  only.
* Each action gets a lemma that it is a `Step`: it keeps `Local`, moves the target
  forward or not at all, to what the record names, and keeps the work of its branch
  or is recovery's reset.  The lemmas of the actions rest on a few about kinds of
  steps: leaving a seam, checking out a commit, a step inside an attempt, a step of
  `fast_forward_target`.  The theorems are read off `Step`.

The three pipeline modules prove all the safety properties of the run loop, with no
particular phase graph in mind: for every graph the validators of `PipelinePolicy`
accept (`PhaseGraphAssumption`, `CounterAssumption`, `TimeboxAssumption`) and that
meets the hypotheses named with a theorem below.  `RunAssumption` also says that "no
exit code yet" is not an exit code.

`PipelineReducerProofs` has one lemma per handler, in terms of a few relations
between the state before and after:

* `Routes`: the new state is `Bounded`, the seconds of the cycle do not grow and a
  new cycle starts at zero (`ClockKept`), a recorded verdict stays.  The relation is
  transitive, so the lemma of a handler follows its composition.  Analysis decisions
  and closing commits are only `Reduces` steps: they may change the verdict.
* `TimerActs`: the four things the deadline seam can do on a route (stop the timer,
  start it, redirect, or leave it).  `RouteLands` takes these through the bypass of
  an exhausted analysis and the second look at the deadline, and gives `Routed`:
  where a route ends, whether the timer runs there, and that an entry into the
  guarded phase was in time.
* `MovesOn`, `Fails`, `Redirects`, `Recovers`, `Reenters`: the five ways a handler
  can leave the phase, for the ordinary events, a failure, an expired deadline, a
  missing plan and the hop out of the failed route.

`PipelineProofs` shows that every step `Moves` (ends with the fold, by one of these
ways, or without it, by a detour) or `Stays`.  `RunInv` is the inductive invariant:
the types, `SavedAgrees` (the checkpoint has the verdict of the running state, and a
cycle it times is timed in memory too, at least as far) and that a pending override
is one some phase declares.  `RunTypeCorrect` and `VerdictIsKept` follow.

`PipelineCycleProofs` adds what each property needs, of the graph and of the state:

* `TimerRunsInsideCycle` assumes that the cycle's entries are not terminal phases
  (`CycleEntriesRun`).  `TimerInsideCycle` alone is not inductive: the hop out of the
  failed route goes to the phase it remembers.  `DetourOnly` adds that a running
  timer at the failed route remembers a phase of the cycle or of the detour itself,
  in memory and on disk.
* `SuccessSpendsTheBudget` assumes `SuccessIsRouted`: the terminal phase is the
  target of post-commit routes for a spent budget only.  `Earned` adds that a state
  at the terminal phase has its budget spent and that no failed route leads back to
  it, in memory and on disk.
* `GuardedPhaseIsAlwaysTimed`, `ResumeRestores` and `GuardedEntryIsInTime` assume
  that the start edge is the only way into the cycle (`CycleHasOneEntry`), that the
  phases of the cycle reach the failed route by failing only
  (`FailedRouteMeansFailure`), and `MaxFaults <= cycle_cap`.  The last one is needed:
  beyond it a missing plan stops the timer of a cycle that goes on, which
  `claim_reentry` shows.  `GuardInv` adds that the checkpoint is the running state but
  for the gate seconds, that the failed route remembers whether the phase that failed
  was timed (`Timed`), and that the recovery epoch and the faults still to come stay
  within the bound.
* `ClockIsNeverFast` adds `ClockStep`, how a step splits time between the folded
  seconds and the sample box, and assumes that a cycle does not start at the failed
  route.  The hop out of that route neither folds nor samples, so a cycle started
  there would inherit an old sample; the default policy starts it at
  `planning_analysis`.

The hypotheses on the graph are stated in `PipelineGraph`; `MCDefaultPolicy` has
them as an assumption (`DefaultPolicyIsCovered`), so every run of the default policy
evaluates them.  `default_policy` runs at `MaxFaults = cycle_cap`, the largest
number of faults the theorems allow, `claim_reentry` one beyond it.

Only model-checked: liveness (`RunTerminates`, `PersistentFailureGivesUp`,
`WaveSettles`, `InterruptedRunEnds`, `AgentIsServedOrReturned`,
`MainComesThrough`, `SeamsAndRecoveriesEnd`), which this prover does not do.

Proved and in no run: `TypeOK` of `FanOut`, `InterruptShutdown` and `AutoIntegrate`;
`OnwardMeansAllDelivered` and `RecordedSuccessIsKept`, whose form for the checkpoint is
part of `ImplementsPlan`.

## What is not modelled

The package has about 258,000 lines of Python.  The definitions here stand for
about 10,000 of them, some 4%: the ones that decide what a run does next, that start
and stop its processes and that move its branches.  Most of the rest is tool server, agent
output parsing, display and policy text.

* Of the modelled parts: the connectivity pause (it changes no pipeline state), asyncio children and event
  listeners of the process manager, the installation of the asyncio signal
  handlers, the early-escalation poll (nothing calls it), `reset_session_budget`.
* Of auto-integration: synchronisation with a remote, records of kind
  `target_reconcile`, what a reclaim saves of local changes, the backup refs, the
  counting of the conflict budget and the inside of a resolver session, whose
  commands act on file contents.
* The idle watchdog: a function of a dozen clocks and ceilings.  The other modules
  use only that it ends an invocation that hangs.
* A second policy instance with an override, a workflow fallback and two budget
  counters; the pipeline theorems do cover such graphs.
* Text, rendering, provider command lines, request handling of the tool server and
  git itself.
