-------------------------- MODULE RecoveryController --------------------------
(***************************************************************************)
(* The agent chain of one pipeline phase: how the RecoveryController and   *)
(* the reducer choose the next agent after a failure (retry, fall over,    *)
(* wait for a cooldown, or give the phase up), and what the run loop does  *)
(* between two steps (sleep, reselect, stop for an unresolved              *)
(* integration).                                                           *)
(*                                                                         *)
(* The position of an agent in the chain is its priority: 1 is the         *)
(* operator's first choice.  Cooldowns are remaining time, so a step that  *)
(* takes time lowers them; the other phases of the pipeline are the single *)
(* phase "elsewhere".                                                      *)
(***************************************************************************)
EXTENDS Naturals, FiniteSets

CONSTANTS
    N,                    \* agents in the chain
    TechnicalCap,         \* general.max_same_agent_retries
    ChainRetries,         \* max_retries of the chain: the seeded budget
    AgentFailureRetries,  \* the reducer's own max_retries
    BrokenLimit,          \* agent_max_broken_agent_same_shape_resumes
    BrokenReasons,        \* the reasons a BrokenAgentExitError may carry
    NoReason,             \* no broken-agent failure recorded yet
    BaseBackoff,          \* base_backoff_ms
    MaxBackoff,           \* max_backoff_ms
    RetryDelay,           \* delay before the same agent is tried again
    SleepErrorDelay,      \* delay set after a sleep that raised
    Durations,            \* how long an invocation or an oversleep may take
    Outcomes,             \* how an invocation may end
    MaxKills              \* bound on process kills

Agents == 1 .. N

AllOutcomes == {"success", "invalid_artifact", "technical", "agent",
                "unavailable", "broken", "user_config", "agent_failure",
                "skip_agent", "expired"}

ASSUME ChainAssumption ==
    /\ N \in Nat \ {0}
    /\ TechnicalCap \in Nat
    /\ ChainRetries \in Nat
    /\ AgentFailureRetries \in Nat
    /\ BrokenLimit \in Nat \ {0}
    /\ NoReason \notin BrokenReasons
    /\ Outcomes \subseteq AllOutcomes
    /\ MaxKills \in Nat

\* ReasonBackoffPolicy.__post_init__ demands base > 0 and max > base.
ASSUME BackoffAssumption ==
    /\ BaseBackoff \in Nat \ {0}
    /\ MaxBackoff \in Nat
    /\ MaxBackoff > BaseBackoff
    /\ RetryDelay \in Nat
    /\ SleepErrorDelay \in Nat \ {0}
    /\ Durations \subseteq Nat
    /\ Durations # {}

VARIABLES
    phase,     \* "active", "failed" (the failed route) or "elsewhere"
    captured,  \* the phase at the top of the run loop's current iteration
    pc,        \* "invoke", how the invocation ended, "settled", or "exited"
    index,     \* AgentChainState.current_index
    retries,   \* AgentChainState.retries
    waiting,   \* PipelineState.is_waiting_state
    delay,     \* PipelineState.last_retry_delay_ms
    spent,     \* RecoveryController._spent_agents[phase]
    left,      \* time until the cooldown of each agent expires
    backoff,   \* the cooldown each agent gets next: min(base * 2^attempt, max)
    consumed,  \* BudgetState.consumed of each agent
    broken,    \* _broken_agent_same_shape_state[phase] of a sole agent
    blocked,   \* not dispatch_allowed: the worktree holds an unresolved integration
    saved,     \* the checkpoint: what a restarted process reads back
    kills

chain == <<index, retries>>
wait == <<waiting, delay>>
tracker == <<left, backoff>>
controller == <<spent, left, backoff, consumed, broken>>
vars == <<phase, captured, pc, chain, wait, controller, blocked, saved, kills>>

NoBroken == [reason |-> NoReason, count |-> 0]

Min2(a, b) == IF a =< b THEN a ELSE b

Init ==
    /\ phase = "active" /\ captured = "active" /\ pc = "invoke"
    /\ index = 1 /\ retries = 0
    /\ waiting = FALSE /\ delay = 0
    /\ spent = {}
    /\ left = [a \in Agents |-> 0]
    /\ backoff = [a \in Agents |-> BaseBackoff]
    /\ consumed = [a \in Agents |-> 0]
    /\ broken = NoBroken
    /\ blocked \in BOOLEAN
    /\ saved = [phase |-> "active", index |-> 1, retries |-> 0,
                waiting |-> FALSE, delay |-> 0]
    /\ kills = 0

-----------------------------------------------------------------------------
\* Unavailability tracker and agent selection.

elapsed(d) == [a \in Agents |-> IF left[a] =< d THEN 0 ELSE left[a] - d]

selectable(cool, sp) == {a \in Agents : cool[a] = 0 /\ a \notin sp}

preferred_agent_forward_only(cool, sp) ==
    LET able == {a \in selectable(cool, sp) : a >= index}
    IN  {i \in able : \A j \in able : i =< j}

\* AgentSelection.index: the one preferred agent, or none.
preferred_agent_index(cool, sp) ==
    LET able == selectable(cool, sp)
    IN  {i \in able : \A j \in able : i =< j}

agents_now_available(cool) == {a \in Agents : cool[a] = 0}

\* The shortest remaining cooldown, as the set of its one value.
earliest_available_wait(cool) ==
    {cool[a] : a \in {b \in Agents : \A c \in Agents : cool[b] =< cool[c]}}

mark_unavailable_uncapped(a) ==
    /\ left' = [left EXCEPT ![a] = backoff[a]]
    /\ backoff' = [backoff EXCEPT ![a] = 2 * @]

mark_unavailable(a) ==
    /\ left' = [left EXCEPT ![a] = backoff[a]]
    /\ backoff' = [backoff EXCEPT ![a] = Min2(2 * @, MaxBackoff)]

reset_backoff(a) ==
    /\ left' = [left EXCEPT ![a] = 0]
    /\ backoff' = [backoff EXCEPT ![a] = BaseBackoff]

-----------------------------------------------------------------------------
\* How a step ends: the checkpoint is saved, the run loop takes over.

Checkpoint ==
    /\ pc' = "settled"
    /\ captured' = phase
    /\ saved' = [phase |-> phase', index |-> index', retries |-> retries',
                 waiting |-> waiting', delay |-> delay']
    /\ UNCHANGED <<blocked, kills>>

\* Every way to give a phase up leaves its chain where it was.
LeaveFor(target) == phase' = target /\ UNCHANGED chain

RetrySameAgent(pref, dl) ==
    /\ index \in pref
    /\ retries' = retries + 1
    /\ waiting' = FALSE /\ delay' = dl
    /\ UNCHANGED <<phase, index>>

FallOver(pref, dl) ==
    /\ index' \in pref \ {index}
    /\ retries' = 0
    /\ waiting' = FALSE /\ delay' = dl
    /\ UNCHANGED phase

WaitForCooldown(pref, cool) ==
    /\ pref = {} /\ agents_now_available(cool) = {}
    /\ waiting' = TRUE /\ delay' \in earliest_available_wait(cool)
    /\ UNCHANGED <<phase, chain>>

ChainExhausted(pref, cool) == pref = {} /\ agents_now_available(cool) # {}

-----------------------------------------------------------------------------
\* RecoveryController: sp is the spent set the failure starts from, dl the
\* delay of a same-agent retry; the caller has set left' and backoff'.

_enter_phase_failed ==
    /\ LeaveFor("failed")
    /\ spent' = {}
    /\ waiting' = FALSE /\ delay' = 0

_handle_retry_progression(sp, allowance_spent, dl) ==
    LET now == IF allowance_spent THEN sp \union {index} ELSE sp
        pref == preferred_agent_index(left', now)
    IN  \/ /\ \/ RetrySameAgent(pref, dl)
              \/ FallOver(pref, 0)
              \/ WaitForCooldown(pref, left')
           /\ spent' = now
        \/ /\ ChainExhausted(pref, left')
           /\ _enter_phase_failed

Judged(outcome) == pc = outcome

\* ENVIRONMENTAL and AMBIGUOUS failures.
TechnicalFailure ==
    /\ Judged("technical")
    /\ UNCHANGED <<tracker, consumed, broken>>
    /\ _handle_retry_progression(spent, retries >= TechnicalCap, 0)
    /\ Checkpoint

\* The agent returned, so its backoff and the spent set are reset; then the
\* phase handler rejects its artifact: an ARTIFACT_VALIDATION failure.
InvalidArtifact ==
    /\ Judged("invalid_artifact")
    /\ reset_backoff(index)
    /\ UNCHANGED <<consumed, broken>>
    /\ _handle_retry_progression({}, retries >= TechnicalCap, 0)
    /\ Checkpoint

UserConfigFailure ==
    /\ Judged("user_config")
    /\ UNCHANGED <<tracker, consumed, broken>>
    /\ _enter_phase_failed
    /\ Checkpoint

AgentFaultUndebited ==
    /\ Judged("agent")
    /\ UNCHANGED <<tracker, broken, consumed>>
    /\ _handle_retry_progression(spent, consumed[index] >= ChainRetries,
                                 RetryDelay)
    /\ Checkpoint

\* An AGENT failure that counts against the agent's budget.
AgentFault ==
    /\ Judged("agent")
    /\ UNCHANGED <<tracker, broken>>
    /\ consumed' = [consumed EXCEPT ![index] = Min2(@ + 1, ChainRetries)]
    /\ _handle_retry_progression(spent, consumed[index] + 1 >= ChainRetries,
                                 RetryDelay)
    /\ Checkpoint

\* An AGENT failure that says the agent is unavailable: a cooldown, no debit.
AgentUnavailable ==
    /\ Judged("unavailable")
    /\ mark_unavailable(index)
    /\ UNCHANGED <<consumed, broken>>
    /\ _handle_retry_progression(spent, consumed[index] >= ChainRetries, 0)
    /\ Checkpoint

record_failure(r) ==
    [reason |-> r, count |-> IF r = broken.reason THEN broken.count + 1 ELSE 1]

\* BrokenAgentExitError; a sole agent that breaks the same way too often fails
\* the phase instead of cooling down, and the record stays as it was.
BrokenAgent(r) ==
    /\ Judged("broken")
    /\ mark_unavailable(index)
    /\ UNCHANGED consumed
    /\ IF N = 1 /\ record_failure(r).count >= BrokenLimit
       THEN /\ _enter_phase_failed
            /\ UNCHANGED broken
       ELSE /\ broken' = IF N = 1 THEN record_failure(r) ELSE broken
            /\ _handle_retry_progression(
                   spent, consumed[index] >= ChainRetries, 0)
    /\ Checkpoint

-----------------------------------------------------------------------------
\* The reducer's own AGENT_FAILURE path, which asks the controller only for
\* the selection.

_enter_failed_recovery == LeaveFor("failed") /\ UNCHANGED wait

_handle_agent_failure_unnoted ==
    /\ Judged("agent_failure")
    /\ UNCHANGED <<tracker, consumed, broken>>
    /\ LET allowance_spent == retries >= AgentFailureRetries
           now == IF allowance_spent THEN spent \union {index} ELSE spent
           pref == preferred_agent_index(left, now)
       IN  /\ spent' = spent
           /\ \/ RetrySameAgent(pref, delay)
              \/ FallOver(pref, delay)
              \/ WaitForCooldown(pref, left)
              \/ ChainExhausted(pref, left) /\ _enter_failed_recovery
    /\ Checkpoint

_handle_agent_failure ==
    /\ Judged("agent_failure")
    /\ UNCHANGED <<tracker, consumed, broken>>
    /\ LET allowance_spent == retries >= AgentFailureRetries
           now == IF allowance_spent THEN spent \union {index} ELSE spent
           pref == preferred_agent_index(left, now)
       IN  /\ spent' = now
           /\ \/ RetrySameAgent(pref, delay)
              \/ FallOver(pref, delay)
              \/ WaitForCooldown(pref, left)
              \/ ChainExhausted(pref, left) /\ _enter_failed_recovery
    /\ Checkpoint

_handle_skip_same_agent_retries ==
    /\ Judged("skip_agent")
    /\ UNCHANGED <<tracker, consumed, broken>>
    /\ LET now == spent \union {index}
           pref == preferred_agent_index(left, now)
       IN  /\ spent' = now
           /\ \/ FallOver(pref, delay)
              \/ WaitForCooldown(pref, left)
              \/ /\ ChainExhausted(pref, left) /\ index < N
                 /\ index' = index + 1 /\ retries' = 0
                 /\ UNCHANGED <<phase, wait>>
              \/ /\ ChainExhausted(pref, left) /\ index = N
                 /\ _enter_failed_recovery
    /\ Checkpoint

-----------------------------------------------------------------------------
\* Invocations, phase changes and what the run loop does between two steps.

\* The gate at the top of an iteration: nothing is dispatched over an unresolved
\* integration.  The resolver and the startup seam take their time; the run goes
\* on if they clear it, and otherwise ends with exit code 1.
_block_unresolved_integration(d) ==
    /\ pc = "invoke" /\ blocked
    /\ left' = elapsed(d)
    /\ saved' = [phase |-> phase, index |-> index, retries |-> retries,
                 waiting |-> waiting, delay |-> delay]
    /\ \/ blocked' = FALSE /\ UNCHANGED pc
       \/ pc' = "exited" /\ UNCHANGED blocked
    /\ UNCHANGED <<phase, captured, chain, wait, spent, backoff, consumed,
                   broken, kills>>

Dispatch == pc = "invoke" /\ ~blocked

Invoke(d) ==
    /\ Dispatch /\ phase = "active"
    /\ left' = elapsed(d)
    /\ pc' \in Outcomes
    /\ UNCHANGED <<phase, captured, chain, wait, spent, backoff, consumed,
                   broken, blocked, saved, kills>>

\* AGENT_SUCCESS clears the pending delay; a decision or a result event, which
\* other roles report instead, does not.
Succeeds ==
    /\ Judged("success")
    /\ reset_backoff(index)
    /\ spent' = {}
    /\ delay' \in {0, delay}
    /\ LeaveFor("elsewhere")
    /\ UNCHANGED <<waiting, consumed, broken>>
    /\ Checkpoint

\* redirect_expired_cycle_in_place: the deadline takes the run out of the phase.
RedirectExpired ==
    /\ Judged("expired")
    /\ LeaveFor("elsewhere")
    /\ UNCHANGED <<wait, controller>>
    /\ Checkpoint

\* The other phases run for a while; their last success may clear the delay.
ComeBack(d) ==
    /\ Dispatch /\ phase = "elsewhere"
    /\ phase' = "active"
    /\ left' = elapsed(d)
    /\ delay' \in {0, delay}
    /\ UNCHANGED <<chain, waiting, spent, backoff, consumed, broken>>
    /\ Checkpoint

\* The failed route re-enters the phase with its chain reset.
ReenterFromFailedRoute ==
    /\ Dispatch /\ phase = "failed"
    /\ phase' = "active"
    /\ index' = 1 /\ retries' = 0
    /\ UNCHANGED <<wait, controller>>
    /\ Checkpoint

_reselect_never(due, cool) == UNCHANGED chain

_reselect_preferred_agent(due, cool) ==
    LET pref == IF due /\ phase = "active"
                THEN preferred_agent_index(cool, spent) \ {index}
                ELSE {}
    IN  \/ index' \in pref /\ retries' = 0
        \/ pref = {} /\ UNCHANGED chain

\* An agent, a seam, the catch-up thread or the operator may have left an
\* integration unresolved, or cleared it; the loop reads the worktree only here
\* (after a cooldown wait, and in the gate that follows).
Settled == pc = "settled" /\ pc' = "invoke" /\ blocked' \in BOOLEAN

NextIteration ==
    /\ Settled /\ delay = 0
    /\ _reselect_preferred_agent(phase # captured, left)
    /\ UNCHANGED <<phase, captured, wait, controller, saved, kills>>

\* The sleep takes at least the delay; after a cooldown wait the preferred
\* agent is selected again, unless an integration is unresolved by then.
Sleep(d) ==
    /\ Settled /\ delay > 0
    /\ left' = elapsed(delay + d)
    /\ delay' = 0
    /\ waiting' = FALSE
    /\ _reselect_preferred_agent((waiting /\ ~blocked') \/ phase # captured, left')
    /\ UNCHANGED <<phase, captured, spent, backoff, consumed, broken, saved,
                   kills>>

\* The sleep, or the status lines around it, raised.
SleepFails(d) ==
    /\ Settled /\ delay > 0
    /\ left' = elapsed(d)
    /\ delay' = SleepErrorDelay
    /\ _reselect_preferred_agent(phase # captured, left')
    /\ UNCHANGED <<phase, captured, waiting, spent, backoff, consumed, broken,
                   saved, kills>>

\* The process dies, or has ended, and is resumed: the chain comes back from the
\* checkpoint, the controller starts empty.
KillAndResume ==
    /\ kills < MaxKills
    /\ kills' = kills + 1
    /\ pc' = "invoke"
    /\ phase' = saved.phase /\ captured' = saved.phase
    /\ index' = saved.index /\ retries' = saved.retries
    /\ waiting' = saved.waiting /\ delay' = saved.delay
    /\ spent' = {}
    /\ left' = [a \in Agents |-> 0]
    /\ backoff' = [a \in Agents |-> BaseBackoff]
    /\ consumed' = [a \in Agents |-> 0]
    /\ broken' = NoBroken
    /\ blocked' \in BOOLEAN
    /\ UNCHANGED saved

Exited == pc = "exited" /\ UNCHANGED vars

Outcome ==
    \/ TechnicalFailure \/ InvalidArtifact \/ UserConfigFailure
    \/ AgentFault \/ AgentUnavailable
    \/ \E r \in BrokenReasons : BrokenAgent(r)
    \/ _handle_agent_failure \/ _handle_skip_same_agent_retries
    \/ Succeeds \/ RedirectExpired

Loop ==
    \/ ReenterFromFailedRoute \/ NextIteration
    \/ \E d \in Durations : Invoke(d) \/ ComeBack(d) \/ Sleep(d)

Next ==
    \/ Outcome \/ Loop \/ KillAndResume \/ Exited
    \/ \E d \in Durations : SleepFails(d) \/ _block_unresolved_integration(d)

Spec == Init /\ [][Next]_vars

-----------------------------------------------------------------------------
Phases == {"active", "failed", "elsewhere"}

Checkpoints == [phase : Phases, index : Agents, retries : Nat,
                waiting : BOOLEAN, delay : Nat]

BrokenRecords == [reason : BrokenReasons \union {NoReason},
                  count : 0 .. BrokenLimit]

\* The state's types: a current agent of the chain, cooldowns within the cap.
\* AgentChainState, AgentUnavailabilityTracker and the checkpointed fields.
TypeOK ==
    /\ phase \in Phases /\ captured \in Phases
    /\ pc \in {"invoke", "settled", "exited"} \union AllOutcomes
    /\ index \in Agents /\ retries \in Nat
    /\ waiting \in BOOLEAN /\ delay \in Nat
    /\ spent \subseteq Agents
    /\ left \in [Agents -> 0 .. MaxBackoff]
    /\ backoff \in [Agents -> 1 .. MaxBackoff]
    /\ consumed \in [Agents -> 0 .. ChainRetries]
    /\ broken \in BrokenRecords
    /\ blocked \in BOOLEAN
    /\ saved \in Checkpoints
    /\ kills \in 0 .. MaxKills

Max2(a, b) == IF a >= b THEN a ELSE b

\* The same agent is tried again only so often in a row, whatever mixture of
\* failures it has: the technical allowance, the reducer's own allowance and
\* the budget of the chain each add at most their share, and a restart, which
\* forgets the budget but not chain.retries, adds one more budget.
SameAgentRetriesBounded ==
    retries =< Max2(TechnicalCap, AgentFailureRetries)
                 + ChainRetries * (kills + 1)

Serves(i, cool) ==
    selectable(cool, spent) # {} =>
        /\ i \in selectable(cool, spent)
        /\ \A j \in selectable(cool, spent) : i =< j

\* Whenever the phase is entered, and whenever a cooldown wait ends over a
\* worktree without an unresolved integration, the agent that serves next is the
\* first choice among those that can serve: a run that fell over to a
\* lower-priority agent returns to the first one that is back.  (A wait that ends
\* over an unresolved integration reselects nobody, and the agent that was
\* current goes on serving once the gate has cleared the integration.)
FirstChoiceReturns ==
    [][/\ pc = "settled" /\ pc' = "invoke" /\ phase' = "active"
       /\ kills' = kills
       /\ phase # captured \/ (waiting /\ ~waiting' /\ ~blocked')
       => Serves(index', left')]_vars

\* A failure that is charged to the agent gives the phase up only when no other
\* agent of the chain could have taken over.
GivesUpOnlyExhausted ==
    [][phase = "active" /\ phase' = "failed" /\ ~Judged("user_config")
         => \A a \in Agents \ {index} : a \in spent \/ left[a] > 0]_vars

-----------------------------------------------------------------------------
\* The run loop keeps iterating, every invocation ends (the runner's timeouts and
\* the watchdog bound it), and an error during a sleep is transient.  How long the
\* gate's resolver takes is not bounded, so nothing is assumed of it.
Fairness ==
    /\ WF_vars(Outcome \/ Loop)
    /\ SF_vars(\E d \in Durations : Sleep(d))

FairSpec == Spec /\ Fairness

\* The failures that are charged to an agent's allowances.
Charged == {"technical", "agent", "agent_failure", "skip_agent"}

\* Once every invocation fails at its agent's charge and leaves no integration
\* unresolved, whatever happened before, the phase is given up: the agents use up
\* their allowances one after the other and the failed route takes over.
PersistentFailureGivesUp ==
    <>[](~blocked /\ pc \in {"invoke", "settled"} \union Charged) =>
        (phase = "active" ~> phase = "failed")
=============================================================================
