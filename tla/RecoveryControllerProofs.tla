----------------------- MODULE RecoveryControllerProofs -----------------------
(* Theorems about the agent chain, for every chain length, allowance, backoff *)
(* policy and set of outcomes.                                                *)
EXTENDS RecoveryController, NaturalsInduction, WellFoundedInduction, TLAPS

\* A nonempty set of naturals has a smallest element: what preferred_agent_index relies on
\* when it takes the first of its candidates.
LEMMA Smallest ==
    ASSUME NEW T, T \subseteq Nat, T # {}
    PROVE  \E x \in T : \A y \in T : x =< y
<1> DEFINE R == OpToRel(<, Nat)
<1>1. IsWellFoundedOn(R, Nat)
  BY NatLessThanWellFounded, Zenon
<1>2. PICK x \in T : \A y \in T : <<y, x>> \notin R
  <2> HIDE DEF R
  <2> QED BY <1>1, WFMin, Zenon
<1>3. \A y \in T : y < x => <<y, x>> \in R
  BY DEF OpToRel
<1>4. \A y \in T : x =< y
  <2>1. \A y \in T : ~ (y < x)
    <3> HIDE DEF R
    <3> QED BY <1>2, <1>3, Zenon
  <2> QED BY <2>1
<1> QED BY <1>4

\* What a failure may leave of the chain and the wait.
ChainTyped ==
    /\ phase' \in Phases
    /\ index' \in Agents /\ retries' \in Nat
    /\ waiting' \in BOOLEAN /\ delay' \in Nat

TrackerTyped ==
    /\ left' \in [Agents -> 0 .. MaxBackoff]
    /\ backoff' \in [Agents -> 1 .. MaxBackoff]

LEMMA TypeInit == Init => TypeOK
<1> SUFFICES ASSUME Init PROVE TypeOK
  OBVIOUS
<1>1. 1 \in Agents
  BY ChainAssumption DEF Agents
<1>2. left \in [Agents -> 0 .. MaxBackoff] /\ backoff \in [Agents -> 1 .. MaxBackoff]
  BY BackoffAssumption DEF Init
<1>3. consumed \in [Agents -> 0 .. ChainRetries]
  BY ChainAssumption DEF Init
<1>4. broken \in BrokenRecords
  BY ChainAssumption DEF Init, NoBroken, BrokenRecords
<1>5. saved \in Checkpoints
  BY <1>1 DEF Init, Phases, Checkpoints
<1>6. phase \in Phases /\ captured \in Phases /\ waiting \in BOOLEAN
  BY Zenon DEF Init, Phases
<1>7. retries \in Nat /\ delay \in Nat /\ kills \in 0 .. MaxKills
  BY ChainAssumption DEF Init
<1> QED BY <1>1, <1>2, <1>3, <1>4, <1>5, <1>6, <1>7, Zenon DEF Init, TypeOK

\* The selected agent is one that can serve.
LEMMA PreferredCanServe ==
    ASSUME NEW cool, NEW sp
    PROVE  /\ preferred_agent_index(cool, sp) \subseteq selectable(cool, sp)
           /\ preferred_agent_index(cool, sp) \subseteq Agents
BY DEF preferred_agent_index, selectable

\* Time only shortens a cooldown.
LEMMA ElapsedTyped ==
    ASSUME TypeOK, NEW d \in Nat
    PROVE  elapsed(d) \in [Agents -> 0 .. MaxBackoff]
BY BackoffAssumption DEF TypeOK, elapsed

LEMMA MarkTyped ==
    ASSUME TypeOK, mark_unavailable(index)
    PROVE  TrackerTyped
BY BackoffAssumption DEF TypeOK, mark_unavailable, Min2, TrackerTyped

LEMMA ResetTyped ==
    ASSUME TypeOK, reset_backoff(index)
    PROVE  TrackerTyped
BY BackoffAssumption DEF TypeOK, reset_backoff, TrackerTyped

\* A wait is as long as one of the cooldowns it waits for.
LEMMA EarliestWaitTyped ==
    ASSUME NEW cool \in [Agents -> 0 .. MaxBackoff]
    PROVE  earliest_available_wait(cool) \subseteq Nat
BY BackoffAssumption DEF earliest_available_wait

LEMMA RetryTyped ==
    ASSUME TypeOK, NEW pref, NEW dl \in Nat, RetrySameAgent(pref, dl)
    PROVE  ChainTyped
<1>1. retries' = retries + 1
  BY DEF RetrySameAgent
<1>2. retries' \in Nat
  BY <1>1 DEF TypeOK
<1>3. waiting' \in BOOLEAN /\ delay' = dl /\ phase' = phase /\ index' = index
  BY Zenon DEF RetrySameAgent
<1> QED BY <1>2, <1>3, Zenon DEF TypeOK, ChainTyped

LEMMA FallOverTyped ==
    ASSUME TypeOK, NEW pref \in SUBSET Agents, NEW dl \in Nat, FallOver(pref, dl)
    PROVE  ChainTyped
BY Zenon DEF TypeOK, FallOver, ChainTyped

LEMMA WaitTyped ==
    ASSUME TypeOK, NEW pref, NEW cool \in [Agents -> 0 .. MaxBackoff],
           WaitForCooldown(pref, cool)
    PROVE  ChainTyped
<1>1. delay' \in Nat
  BY EarliestWaitTyped DEF WaitForCooldown
<1> QED BY <1>1, Zenon DEF TypeOK, WaitForCooldown, ChainTyped, chain

LEMMA FailedTyped ==
    ASSUME TypeOK, _enter_phase_failed
    PROVE  ChainTyped /\ spent' \subseteq Agents
<1>1. delay' \in Nat
  BY DEF _enter_phase_failed
<1> QED BY <1>1, Zenon DEF TypeOK, _enter_phase_failed, LeaveFor, ChainTyped, Phases, chain

\* What the controller's and the reducer's progressions leave behind.
LEMMA ProgressionTyped ==
    ASSUME TypeOK, TrackerTyped,
           NEW sp \in SUBSET Agents, NEW done \in BOOLEAN, NEW dl \in Nat,
           _handle_retry_progression(sp, done, dl)
    PROVE  ChainTyped /\ spent' \subseteq Agents
<1> DEFINE now == IF done THEN sp \union {index} ELSE sp
           pref == preferred_agent_index(left', now)
<1>1. now \subseteq Agents
  BY DEF TypeOK
<1>2. pref \in SUBSET Agents
  BY PreferredCanServe
<1>3. CASE spent' = now /\ (RetrySameAgent(pref, dl) \/ FallOver(pref, 0)
                              \/ WaitForCooldown(pref, left'))
  BY <1>1, <1>2, <1>3, RetryTyped, FallOverTyped, WaitTyped DEF TrackerTyped
<1>4. CASE _enter_phase_failed
  BY <1>4, FailedTyped
<1> QED BY <1>3, <1>4 DEF _handle_retry_progression

LEMMA ReducerTyped ==
    ASSUME TypeOK, NEW sp,
           LET pref == preferred_agent_index(left, sp)
           IN  \/ RetrySameAgent(pref, delay) \/ FallOver(pref, delay)
               \/ WaitForCooldown(pref, left) \/ _enter_failed_recovery
    PROVE  ChainTyped
<1> DEFINE pref == preferred_agent_index(left, sp)
<1>1. pref \in SUBSET Agents /\ delay \in Nat /\ left \in [Agents -> 0 .. MaxBackoff]
  BY PreferredCanServe DEF TypeOK
<1>2. CASE _enter_failed_recovery
  BY <1>2, Zenon DEF TypeOK, _enter_failed_recovery, LeaveFor, ChainTyped, Phases, chain, wait
<1> QED BY <1>1, <1>2, RetryTyped, FallOverTyped, WaitTyped

\* The checkpoint holds what the step left behind.
LEMMA CheckpointTyped ==
    ASSUME TypeOK, Checkpoint, ChainTyped, TrackerTyped,
           spent' \subseteq Agents,
           consumed' \in [Agents -> 0 .. ChainRetries],
           broken' \in BrokenRecords
    PROVE  TypeOK'
BY DEF TypeOK, Checkpoint, ChainTyped, TrackerTyped, Checkpoints

-----------------------------------------------------------------------------
\* Every step keeps the types.

LEMMA OutcomeTyped ==
    ASSUME TypeOK, Outcome
    PROVE  TypeOK'
<1> USE ChainAssumption, BackoffAssumption
<1>1. CASE TechnicalFailure
  <2>1. /\ TrackerTyped /\ consumed' \in [Agents -> 0 .. ChainRetries]
        /\ broken' \in BrokenRecords
    BY <1>1 DEF TechnicalFailure, TypeOK, TrackerTyped, tracker
  <2>2. _handle_retry_progression(spent, retries >= TechnicalCap, 0)
    BY <1>1 DEF TechnicalFailure
  <2>3. spent \in SUBSET Agents /\ (retries >= TechnicalCap) \in BOOLEAN /\ 0 \in Nat
    BY DEF TypeOK
  <2>4. ChainTyped /\ spent' \subseteq Agents
    BY <2>1, <2>2, <2>3, ProgressionTyped, Zenon
  <2> QED BY <1>1, <2>1, <2>4, CheckpointTyped DEF TechnicalFailure
<1>2. CASE InvalidArtifact
  <2>1. TrackerTyped
    BY <1>2, ResetTyped DEF InvalidArtifact
  <2>2. consumed' \in [Agents -> 0 .. ChainRetries] /\ broken' \in BrokenRecords
    BY <1>2 DEF InvalidArtifact, TypeOK
  <2>3. _handle_retry_progression({}, retries >= TechnicalCap, 0)
    BY <1>2 DEF InvalidArtifact
  <2>4. {} \in SUBSET Agents /\ (retries >= TechnicalCap) \in BOOLEAN /\ 0 \in Nat
    BY DEF TypeOK
  <2>5. ChainTyped /\ spent' \subseteq Agents
    BY <2>1, <2>3, <2>4, ProgressionTyped, Zenon
  <2> QED BY <1>2, <2>1, <2>2, <2>5, CheckpointTyped DEF InvalidArtifact
<1>3. CASE UserConfigFailure
  <2>1. /\ TrackerTyped /\ consumed' \in [Agents -> 0 .. ChainRetries]
        /\ broken' \in BrokenRecords
    BY <1>3 DEF UserConfigFailure, TypeOK, TrackerTyped, tracker
  <2>2. ChainTyped /\ spent' \subseteq Agents
    BY <1>3, FailedTyped DEF UserConfigFailure
  <2> QED BY <1>3, <2>1, <2>2, CheckpointTyped DEF UserConfigFailure
<1>4. CASE AgentFault
  <2>1. TrackerTyped /\ broken' \in BrokenRecords
    BY <1>4 DEF AgentFault, TypeOK, TrackerTyped, tracker
  <2>2. consumed' \in [Agents -> 0 .. ChainRetries]
    BY <1>4 DEF AgentFault, TypeOK, Min2
  <2>3. _handle_retry_progression(spent, consumed[index] + 1 >= ChainRetries,
                                  RetryDelay)
    BY <1>4 DEF AgentFault
  <2>4. /\ spent \in SUBSET Agents
        /\ (consumed[index] + 1 >= ChainRetries) \in BOOLEAN
        /\ RetryDelay \in Nat
    BY DEF TypeOK
  <2>5. ChainTyped /\ spent' \subseteq Agents
    BY <2>1, <2>3, <2>4, ProgressionTyped, Zenon
  <2> QED BY <1>4, <2>1, <2>2, <2>5, CheckpointTyped DEF AgentFault
<1>5. CASE AgentUnavailable
  <2>1. TrackerTyped
    BY <1>5, MarkTyped DEF AgentUnavailable
  <2>2. consumed' \in [Agents -> 0 .. ChainRetries] /\ broken' \in BrokenRecords
    BY <1>5 DEF AgentUnavailable, TypeOK
  <2>3. _handle_retry_progression(spent, consumed[index] >= ChainRetries, 0)
    BY <1>5 DEF AgentUnavailable
  <2>4. /\ spent \in SUBSET Agents /\ 0 \in Nat
        /\ (consumed[index] >= ChainRetries) \in BOOLEAN
    BY DEF TypeOK
  <2>5. ChainTyped /\ spent' \subseteq Agents
    BY <2>1, <2>3, <2>4, ProgressionTyped, Zenon
  <2> QED BY <1>5, <2>1, <2>2, <2>5, CheckpointTyped DEF AgentUnavailable
<1>6. ASSUME NEW r \in BrokenReasons, BrokenAgent(r) PROVE TypeOK'
  <2>1. TrackerTyped
    BY <1>6, MarkTyped DEF BrokenAgent
  <2>2. consumed' \in [Agents -> 0 .. ChainRetries]
    BY <1>6 DEF BrokenAgent, TypeOK
  <2>3. /\ spent \in SUBSET Agents /\ 0 \in Nat
        /\ (consumed[index] >= ChainRetries) \in BOOLEAN
    BY DEF TypeOK
  <2>4. CASE N = 1 /\ record_failure(r).count >= BrokenLimit
    <3>1. _enter_phase_failed /\ broken' = broken
      BY <1>6, <2>4 DEF BrokenAgent
    <3>2. ChainTyped /\ spent' \subseteq Agents
      BY <3>1, FailedTyped
    <3>3. broken' \in BrokenRecords
      BY <3>1 DEF TypeOK
    <3> QED BY <1>6, <2>1, <2>2, <3>2, <3>3, CheckpointTyped DEF BrokenAgent
  <2>5. CASE ~ (N = 1 /\ record_failure(r).count >= BrokenLimit)
    <3>1. _handle_retry_progression(spent, consumed[index] >= ChainRetries, 0)
      BY <1>6, <2>5 DEF BrokenAgent
    <3>2. ChainTyped /\ spent' \subseteq Agents
      BY <2>1, <2>3, <3>1, ProgressionTyped, Zenon
    <3>3. broken' = IF N = 1 THEN record_failure(r) ELSE broken
      BY <1>6, <2>5 DEF BrokenAgent
    <3>4. N = 1 => record_failure(r) \in BrokenRecords
      BY <1>6, <2>5 DEF TypeOK, record_failure, BrokenRecords
    <3>5. broken' \in BrokenRecords
      BY <3>3, <3>4 DEF TypeOK
    <3> QED BY <1>6, <2>1, <2>2, <3>2, <3>5, CheckpointTyped DEF BrokenAgent
  <2> QED BY <2>4, <2>5
<1>7. CASE _handle_agent_failure
  <2> DEFINE now == IF retries >= AgentFailureRetries
                    THEN spent \union {index} ELSE spent
             pref == preferred_agent_index(left, now)
  <2>1. /\ TrackerTyped /\ consumed' \in [Agents -> 0 .. ChainRetries]
        /\ broken' \in BrokenRecords
    BY <1>7 DEF _handle_agent_failure, TypeOK, TrackerTyped, tracker
  <2>2. now \subseteq Agents
    BY DEF TypeOK
  <2>3. spent' \subseteq Agents
    BY <1>7, <2>2 DEF _handle_agent_failure
  <2>4. \/ RetrySameAgent(pref, delay) \/ FallOver(pref, delay)
        \/ WaitForCooldown(pref, left) \/ _enter_failed_recovery
    BY <1>7 DEF _handle_agent_failure
  <2>5. ChainTyped
    BY <2>4, ReducerTyped
  <2> QED BY <1>7, <2>1, <2>3, <2>5, CheckpointTyped DEF _handle_agent_failure
<1>8. CASE _handle_skip_same_agent_retries
  <2> DEFINE now == spent \union {index}
             pref == preferred_agent_index(left, now)
  <2>1. /\ TrackerTyped /\ consumed' \in [Agents -> 0 .. ChainRetries]
        /\ broken' \in BrokenRecords
    BY <1>8 DEF _handle_skip_same_agent_retries, TypeOK, TrackerTyped, tracker
  <2>2. spent' \subseteq Agents
    BY <1>8 DEF _handle_skip_same_agent_retries, TypeOK
  <2>3. \/ FallOver(pref, delay) \/ WaitForCooldown(pref, left)
        \/ _enter_failed_recovery
        \/ /\ index < N /\ index' = index + 1 /\ retries' = 0
           /\ UNCHANGED <<phase, wait>>
    BY <1>8 DEF _handle_skip_same_agent_retries
  <2>4. ASSUME index < N, index' = index + 1, retries' = 0, UNCHANGED <<phase, wait>>
        PROVE  ChainTyped
    <3>1. index' \in Agents /\ retries' \in Nat
      BY <2>4 DEF TypeOK, Agents
    <3>2. phase' = phase /\ waiting' = waiting /\ delay' = delay
      BY <2>4 DEF wait
    <3> QED BY <3>1, <3>2, Zenon DEF TypeOK, ChainTyped
  <2>5. ChainTyped
    BY <2>3, <2>4, ReducerTyped
  <2> QED BY <1>8, <2>1, <2>2, <2>5, CheckpointTyped
          DEF _handle_skip_same_agent_retries
<1>9. CASE Succeeds
  <2>1. TrackerTyped
    BY <1>9, ResetTyped DEF Succeeds
  <2>2. /\ consumed' \in [Agents -> 0 .. ChainRetries] /\ broken' \in BrokenRecords
        /\ spent' \subseteq Agents
    BY <1>9 DEF Succeeds, TypeOK
  <2>3. delay' \in Nat
    BY <1>9 DEF Succeeds, TypeOK
  <2>4. ChainTyped
    BY <1>9, <2>3, Zenon DEF Succeeds, TypeOK, ChainTyped, LeaveFor, Phases, chain
  <2> QED BY <1>9, <2>1, <2>2, <2>4, CheckpointTyped DEF Succeeds
<1>10. CASE RedirectExpired
  <2>1. /\ TrackerTyped /\ spent' \subseteq Agents
        /\ consumed' \in [Agents -> 0 .. ChainRetries] /\ broken' \in BrokenRecords
    BY <1>10 DEF RedirectExpired, TypeOK, TrackerTyped, controller
  <2>2. ChainTyped
    BY <1>10, Zenon DEF RedirectExpired, TypeOK, ChainTyped, LeaveFor, Phases, chain, wait
  <2> QED BY <1>10, <2>1, <2>2, CheckpointTyped DEF RedirectExpired
<1> QED BY <1>1, <1>2, <1>3, <1>4, <1>5, <1>6, <1>7, <1>8, <1>9, <1>10 DEF Outcome

LEMMA ReselectTyped ==
    ASSUME TypeOK, NEW due, NEW cool, _reselect_preferred_agent(due, cool)
    PROVE  index' \in Agents /\ retries' \in Nat
<1> DEFINE pref == IF due /\ phase = "active"
                   THEN preferred_agent_index(cool, spent) \ {index} ELSE {}
<1>1. pref \subseteq Agents
  BY PreferredCanServe
<1>2. CASE index' \in pref /\ retries' = 0
  BY <1>1, <1>2
<1>3. CASE UNCHANGED chain
  BY <1>3 DEF chain, TypeOK
<1> QED BY <1>2, <1>3 DEF _reselect_preferred_agent

\* The run loop, a sleep that raises and a restart keep the types.
LEMMA LoopTyped ==
    ASSUME TypeOK, Loop \/ KillAndResume \/ \E d \in Durations : SleepFails(d)
    PROVE  TypeOK'
<1> USE ChainAssumption, BackoffAssumption
<1>1. CASE ReenterFromFailedRoute
  <2>1. /\ TrackerTyped /\ spent' \subseteq Agents
        /\ consumed' \in [Agents -> 0 .. ChainRetries] /\ broken' \in BrokenRecords
    BY <1>1 DEF ReenterFromFailedRoute, TypeOK, TrackerTyped, controller
  <2>2. index' \in Agents /\ retries' \in Nat
    BY <1>1 DEF ReenterFromFailedRoute, Agents
  <2>3. ChainTyped
    BY <1>1, <2>2, Zenon DEF ReenterFromFailedRoute, TypeOK, ChainTyped, Phases, wait
  <2> QED BY <1>1, <2>1, <2>3, CheckpointTyped DEF ReenterFromFailedRoute
<1>2. CASE NextIteration
  <2>1. index' \in Agents /\ retries' \in Nat
    BY <1>2, ReselectTyped DEF NextIteration
  <2> QED BY <1>2, <2>1, Zenon DEF NextIteration, Settled, TypeOK, wait, controller
<1>3. ASSUME NEW d \in Durations, Invoke(d) PROVE TypeOK'
  <2>1. left' \in [Agents -> 0 .. MaxBackoff]
    BY <1>3, ElapsedTyped DEF Invoke
  <2> QED BY <1>3, <2>1, Zenon DEF Invoke, TypeOK, chain, wait
<1>4. ASSUME NEW d \in Durations, ComeBack(d) PROVE TypeOK'
  <2>1. left' \in [Agents -> 0 .. MaxBackoff]
    BY <1>4, ElapsedTyped DEF ComeBack
  <2>2. TrackerTyped
    BY <1>4, <2>1, Zenon DEF ComeBack, TypeOK, TrackerTyped
  <2>3. delay' \in Nat
    BY <1>4 DEF ComeBack, TypeOK
  <2>4. ChainTyped
    BY <1>4, <2>3, Zenon DEF ComeBack, TypeOK, ChainTyped, Phases, chain
  <2>5. /\ spent' \subseteq Agents /\ consumed' \in [Agents -> 0 .. ChainRetries]
        /\ broken' \in BrokenRecords
    BY <1>4, Zenon DEF ComeBack, TypeOK
  <2> QED BY <1>4, <2>2, <2>4, <2>5, CheckpointTyped DEF ComeBack
<1>5. ASSUME NEW d \in Durations, Sleep(d) PROVE TypeOK'
  <2>1. delay + d \in Nat
    BY DEF TypeOK
  <2>2. left' \in [Agents -> 0 .. MaxBackoff]
    BY <1>5, <2>1, ElapsedTyped DEF Sleep
  <2>3. index' \in Agents /\ retries' \in Nat
    BY <1>5, ReselectTyped DEF Sleep
  <2>4. delay' \in Nat
    BY <1>5 DEF Sleep
  <2> QED BY <1>5, <2>2, <2>3, <2>4, Zenon DEF Sleep, Settled, TypeOK
<1>6. ASSUME NEW d \in Durations, SleepFails(d) PROVE TypeOK'
  <2>1. left' \in [Agents -> 0 .. MaxBackoff]
    BY <1>6, ElapsedTyped DEF SleepFails
  <2>2. index' \in Agents /\ retries' \in Nat
    BY <1>6, ReselectTyped DEF SleepFails
  <2>3. delay' \in Nat
    BY <1>6 DEF SleepFails
  <2> QED BY <1>6, <2>1, <2>2, <2>3, Zenon DEF SleepFails, Settled, TypeOK
<1>7. CASE KillAndResume
  <2>1. /\ saved.phase \in Phases /\ saved.index \in Agents /\ saved.retries \in Nat
        /\ saved.waiting \in BOOLEAN /\ saved.delay \in Nat
    BY DEF TypeOK, Checkpoints
  <2>2. /\ left' \in [Agents -> 0 .. MaxBackoff] /\ backoff' \in [Agents -> 1 .. MaxBackoff]
        /\ consumed' \in [Agents -> 0 .. ChainRetries]
    BY <1>7 DEF KillAndResume
  <2>3. broken' \in BrokenRecords
    BY <1>7 DEF KillAndResume, NoBroken, BrokenRecords
  <2>4. kills' \in 0 .. MaxKills
    BY <1>7 DEF KillAndResume, TypeOK
  <2> QED BY <1>7, <2>1, <2>2, <2>3, <2>4, Zenon DEF KillAndResume, TypeOK
<1> QED BY <1>1, <1>2, <1>3, <1>4, <1>5, <1>6, <1>7 DEF Loop

\* So does the gate, which saves the state as it is.
LEMMA GateTyped ==
    ASSUME TypeOK, NEW d \in Durations, _block_unresolved_integration(d)
    PROVE  TypeOK'
<1>1. left' \in [Agents -> 0 .. MaxBackoff]
  BY ElapsedTyped, BackoffAssumption DEF _block_unresolved_integration
<1>2. saved' \in Checkpoints
  BY DEF _block_unresolved_integration, TypeOK, Checkpoints
<1>3. /\ pc' \in {"invoke", "settled", "exited"} \union AllOutcomes
      /\ blocked' \in BOOLEAN
  BY Zenon DEF _block_unresolved_integration, TypeOK
<1> QED BY <1>1, <1>2, <1>3, Zenon DEF _block_unresolved_integration, TypeOK, chain, wait

LEMMA StepTyped == TypeOK /\ [Next]_vars => TypeOK'
<1>1. ASSUME TypeOK, Next PROVE TypeOK'
  <2>1. CASE Exited
    BY <1>1, <2>1, Zenon DEF Exited, vars, chain, wait, controller, TypeOK
  <2> QED BY <1>1, <2>1, OutcomeTyped, LoopTyped, GateTyped DEF Next
<1>2. ASSUME TypeOK, UNCHANGED vars PROVE TypeOK'
  BY <1>2, Zenon DEF vars, chain, wait, controller, TypeOK
<1> QED BY <1>1, <1>2

\* The type invariant, for every chain: the current agent stays in the chain,
\* no cooldown exceeds max_backoff_ms, and the budgets stay within the seeds.
THEOREM TypeCorrect == Spec => []TypeOK
BY TypeInit, StepTyped, PTL DEF Spec

-----------------------------------------------------------------------------
\* The selection finds an agent whenever one can serve.
LEMMA SelectionTotal ==
    ASSUME NEW cool, NEW sp, selectable(cool, sp) # {}
    PROVE  preferred_agent_index(cool, sp) # {}
<1>1. selectable(cool, sp) \subseteq Nat
  BY ChainAssumption DEF selectable, Agents
<1>2. PICK i \in selectable(cool, sp) : \A j \in selectable(cool, sp) : i =< j
  BY <1>1, Smallest
<1> QED BY <1>2 DEF preferred_agent_index

\* An exhausted chain has nobody else: what the controller's progression needs
\* to give the phase up.
LEMMA ExhaustedMeansNobody ==
    ASSUME NEW cool, NEW sp, preferred_agent_index(cool, sp) = {},
           NEW a \in Agents, a # index, sp \subseteq spent \union {index}
    PROVE  a \in spent \/ cool[a] # 0
<1>1. selectable(cool, sp) = {}
  BY SelectionTotal
<1> QED BY <1>1 DEF selectable

\* The checkpoint always names the current phase, so a restart changes none.
SavedPhase == saved.phase = phase

GivesUp == phase = "active" /\ phase' = "failed" /\ ~Judged("user_config")

OthersUnable == \A a \in Agents \ {index} : a \in spent \/ left[a] > 0

LEMMA ProgressionGivesUp ==
    ASSUME TypeOK, NEW sp \in SUBSET spent, NEW done, NEW dl,
           \A a \in Agents \ {index} : left'[a] = left[a],
           _handle_retry_progression(sp, done, dl), GivesUp
    PROVE  OthersUnable
<1> DEFINE now == IF done THEN sp \union {index} ELSE sp
<1>1. ChainExhausted(preferred_agent_index(left', now), left')
  BY DEF _handle_retry_progression, RetrySameAgent, FallOver, WaitForCooldown, GivesUp
<1>2. preferred_agent_index(left', now) = {} /\ now \subseteq spent \union {index}
  BY <1>1 DEF ChainExhausted
<1>3. \A a \in Agents \ {index} : a \in spent \/ left'[a] # 0
  <2> HIDE DEF now
  <2> QED BY <1>2, ExhaustedMeansNobody
<1> QED BY <1>3 DEF TypeOK, OthersUnable

LEMMA ReducerGivesUp ==
    ASSUME TypeOK, NEW sp, sp \subseteq spent \union {index},
           preferred_agent_index(left, sp) = {}
    PROVE  OthersUnable
<1>1. \A a \in Agents \ {index} : a \in spent \/ left[a] # 0
  BY ExhaustedMeansNobody
<1> QED BY <1>1 DEF TypeOK, OthersUnable

LEMMA OutcomeGivesUp ==
    ASSUME TypeOK, Outcome, GivesUp
    PROVE  OthersUnable
<1>1. CASE TechnicalFailure
  <2>1. left' = left
    BY <1>1 DEF TechnicalFailure, tracker
  <2> QED BY <1>1, <2>1, ProgressionGivesUp DEF TechnicalFailure
<1>2. CASE InvalidArtifact
  <2>1. \A a \in Agents \ {index} : left'[a] = left[a]
    BY <1>2 DEF InvalidArtifact, reset_backoff, TypeOK
  <2>2. {} \in SUBSET spent
    OBVIOUS
  <2> QED BY <1>2, <2>1, <2>2, ProgressionGivesUp DEF InvalidArtifact
<1>3. CASE UserConfigFailure
  BY <1>3 DEF UserConfigFailure, GivesUp
<1>4. CASE AgentFault
  <2>1. left' = left
    BY <1>4 DEF AgentFault, tracker
  <2> QED BY <1>4, <2>1, ProgressionGivesUp DEF AgentFault
<1>5. CASE AgentUnavailable
  <2>1. \A a \in Agents \ {index} : left'[a] = left[a]
    BY <1>5 DEF AgentUnavailable, mark_unavailable, TypeOK
  <2> QED BY <1>5, <2>1, ProgressionGivesUp DEF AgentUnavailable
<1>6. ASSUME NEW r \in BrokenReasons, BrokenAgent(r) PROVE OthersUnable
  <2>1. \A a \in Agents \ {index} : left'[a] = left[a]
    BY <1>6 DEF BrokenAgent, mark_unavailable, TypeOK
  <2>2. CASE N = 1
    BY <2>2 DEF TypeOK, Agents, OthersUnable
  <2>3. CASE N # 1
    BY <1>6, <2>1, <2>3, ProgressionGivesUp DEF BrokenAgent
  <2> QED BY <2>2, <2>3
<1>7. CASE _handle_agent_failure
  BY <1>7, ReducerGivesUp DEF _handle_agent_failure, ChainExhausted, RetrySameAgent,
     FallOver, WaitForCooldown, GivesUp
<1>8. CASE _handle_skip_same_agent_retries
  BY <1>8, ReducerGivesUp DEF _handle_skip_same_agent_retries, ChainExhausted,
     FallOver, WaitForCooldown, GivesUp
<1>9. CASE Succeeds \/ RedirectExpired
  BY <1>9, Zenon DEF Succeeds, RedirectExpired, LeaveFor, GivesUp
<1> QED BY <1>1, <1>2, <1>3, <1>4, <1>5, <1>6, <1>7, <1>8, <1>9 DEF Outcome

LEMMA CheckpointNamesPhase ==
    ASSUME TypeOK, SavedPhase, [Next]_vars
    PROVE  SavedPhase'
<1>1. CASE Checkpoint
  BY <1>1 DEF Checkpoint, SavedPhase
<1>2. CASE UNCHANGED <<phase, saved>>
  BY <1>2 DEF SavedPhase
<1>3. CASE KillAndResume
  BY <1>3 DEF KillAndResume, SavedPhase
<1>4. CASE \E d \in Durations : _block_unresolved_integration(d)
  BY <1>4 DEF _block_unresolved_integration, SavedPhase
<1> QED BY <1>1, <1>2, <1>3, <1>4 DEF Next, Outcome, Loop, TechnicalFailure, InvalidArtifact,
        UserConfigFailure, AgentFault, AgentUnavailable, BrokenAgent, _handle_agent_failure,
        _handle_skip_same_agent_retries, Succeeds, RedirectExpired, ReenterFromFailedRoute,
        NextIteration, Invoke, ComeBack, Sleep, SleepFails, Exited, vars

\* Only an exhausted chain is given up, for every chain and every mixture of
\* failures.  The selection is total (SelectionTotal), and a restart cannot
\* smuggle in a failure because the checkpoint names the current phase.
THEOREM GiveUpIsJustified == Spec => GivesUpOnlyExhausted
<1>1. Init => SavedPhase
  BY DEF Init, SavedPhase
<1>2. ASSUME TypeOK, SavedPhase, [Next]_vars
      PROVE  GivesUp => OthersUnable
  <2>1. CASE Outcome
    BY <1>2, <2>1, OutcomeGivesUp
  <2>2. CASE Loop \/ KillAndResume \/ (\E d \in Durations : SleepFails(d)) \/ UNCHANGED vars
    BY <1>2, <2>2 DEF Loop, ReenterFromFailedRoute, NextIteration, Invoke, ComeBack, Sleep,
       SleepFails, KillAndResume, SavedPhase, GivesUp, vars
  <2>3. CASE Exited \/ \E d \in Durations : _block_unresolved_integration(d)
    BY <2>3 DEF Exited, _block_unresolved_integration, GivesUp, vars
  <2> QED BY <1>2, <2>1, <2>2, <2>3 DEF Next
<1>3. ASSUME TypeOK, SavedPhase, [Next]_vars
      PROVE  [GivesUp => OthersUnable]_vars
  BY <1>2, <1>3
<1>4. Spec => [][GivesUp => OthersUnable]_vars
  BY TypeCorrect, <1>1, <1>3, CheckpointNamesPhase, PTL DEF Spec
<1> QED BY <1>4 DEF GivesUpOnlyExhausted, GivesUp, OthersUnable

-----------------------------------------------------------------------------
LEMMA ReselectServes ==
    ASSUME phase = "active", NEW cool, _reselect_preferred_agent(TRUE, cool)
    PROVE  Serves(index', cool)
<1> SUFFICES ASSUME selectable(cool, spent) # {}
             PROVE  index' \in preferred_agent_index(cool, spent)
  BY DEF Serves, preferred_agent_index
<1>1. preferred_agent_index(cool, spent) # {}
  BY SelectionTotal
<1> QED BY <1>1 DEF _reselect_preferred_agent, chain

\* The first choice returns, for every chain: entering the phase and the end of
\* a cooldown wait over a worktree without an unresolved integration both select
\* the best agent that can serve.
THEOREM FirstChoiceServes == Spec => FirstChoiceReturns
<1> DEFINE Resumes == /\ pc = "settled" /\ pc' = "invoke" /\ phase' = "active"
                      /\ kills' = kills
                      /\ phase # captured \/ (waiting /\ ~waiting' /\ ~blocked')
<1>1. ASSUME TypeOK, Next, Resumes PROVE Serves(index', left')
  <2>1. CASE NextIteration
    <3>1. phase = "active" /\ left' = left /\ waiting' = waiting
      BY <1>1, <2>1 DEF NextIteration, controller, wait
    <3>2. (phase # captured) = TRUE
      BY <1>1, <3>1
    <3> QED BY <2>1, <3>1, <3>2, ReselectServes, Zenon DEF NextIteration
  <2>2. ASSUME NEW d \in Durations, Sleep(d) PROVE Serves(index', left')
    <3>1. phase = "active"
      BY <1>1, <2>2 DEF Sleep
    <3>2. ((waiting /\ ~blocked') \/ phase # captured) = TRUE
      BY <1>1, Zenon
    <3> QED BY <2>2, <3>1, <3>2, ReselectServes, Zenon DEF Sleep
  <2>3. ASSUME NEW d \in Durations, SleepFails(d) PROVE Serves(index', left')
    <3>1. phase = "active" /\ waiting' = waiting
      BY <1>1, <2>3 DEF SleepFails
    <3>2. (phase # captured) = TRUE
      BY <1>1, <3>1
    <3> QED BY <2>3, <3>1, <3>2, ReselectServes, Zenon DEF SleepFails
  <2>4. CASE Outcome
    <3>1. pc' = "settled"
      BY <2>4 DEF Outcome, TechnicalFailure, InvalidArtifact, UserConfigFailure, AgentFault,
         AgentUnavailable, BrokenAgent, _handle_agent_failure,
         _handle_skip_same_agent_retries, Succeeds, RedirectExpired, Checkpoint
    <3> QED BY <1>1, <3>1, Zenon
  <2>5. CASE ReenterFromFailedRoute \/ \E d \in Durations : Invoke(d) \/ ComeBack(d)
    BY <1>1, <2>5 DEF ReenterFromFailedRoute, Invoke, ComeBack, Dispatch
  <2>6. CASE KillAndResume
    BY <1>1, <2>6 DEF KillAndResume, TypeOK
  <2>7. CASE Exited \/ \E d \in Durations : _block_unresolved_integration(d)
    BY <1>1, <2>7 DEF Exited, _block_unresolved_integration
  <2> QED BY <1>1, <2>1, <2>2, <2>3, <2>4, <2>5, <2>6, <2>7 DEF Next, Loop
<1>2. ASSUME TypeOK, [Next]_vars PROVE [Resumes => Serves(index', left')]_vars
  BY <1>1, <1>2
<1>3. Spec => [][Resumes => Serves(index', left')]_vars
  BY TypeCorrect, <1>2, PTL DEF Spec
<1> QED BY <1>3 DEF FirstChoiceReturns

-----------------------------------------------------------------------------
\* The most retries in a row after k restarts with no budget consumed since.
RetryCap(k) == Max2(TechnicalCap, AgentFailureRetries) + ChainRetries * k

\* The inductive strengthening of SameAgentRetriesBounded: what the current agent
\* has consumed of its budget pays for its retries beyond the plain allowances,
\* and the checkpoint, read back with a fresh budget, is within the next cap.
RetryInv ==
    /\ retries =< RetryCap(kills) + consumed[index]
    /\ saved.retries =< RetryCap(kills + 1)

LEMMA RetryCapStep ==
    ASSUME NEW k \in Nat
    PROVE  /\ RetryCap(k) \in Nat
           /\ RetryCap(k + 1) = RetryCap(k) + ChainRetries
           /\ TechnicalCap =< RetryCap(k) /\ AgentFailureRetries =< RetryCap(k)
<1>1. ChainRetries * k \in Nat /\ ChainRetries * (k + 1) = ChainRetries * k + ChainRetries
  BY ChainAssumption
<1> QED BY <1>1, ChainAssumption DEF RetryCap, Max2

\* A step that ends in a checkpoint keeps RetryInv when the retries it leaves are
\* paid for.
LEMMA CheckpointPays ==
    ASSUME TypeOK, TypeOK', Checkpoint, retries' =< RetryCap(kills) + consumed'[index']
    PROVE  RetryInv'
<1>1. kills' = kills /\ saved'.retries = retries' /\ kills \in Nat
  BY ChainAssumption DEF Checkpoint, TypeOK
<1>2. consumed'[index'] =< ChainRetries /\ consumed'[index'] \in Nat /\ retries' \in Nat
  BY ChainAssumption DEF TypeOK
<1>3. saved'.retries =< RetryCap(kills + 1)
  BY <1>1, <1>2, RetryCapStep, ChainAssumption, SMTT(20)
<1> QED BY <1>1, <1>3 DEF RetryInv

\* The three ways a progression leaves the retries.
ChainKept == index' = index /\ retries' = retries
Restarted == retries' = 0

LEMMA ProgressionRetries ==
    ASSUME NEW sp, NEW done \in BOOLEAN, NEW dl, _handle_retry_progression(sp, done, dl)
    PROVE  \/ ChainKept \/ Restarted
           \/ ~done /\ index' = index /\ retries' = retries + 1 /\ left'[index] = 0
<1> DEFINE now == IF done THEN sp \union {index} ELSE sp
           pref == preferred_agent_index(left', now)
<1>1. CASE RetrySameAgent(pref, dl)
  <2>1. index \in selectable(left', now)
    BY <1>1, PreferredCanServe DEF RetrySameAgent
  <2>2. ~done /\ left'[index] = 0
    BY <2>1 DEF selectable
  <2> QED BY <1>1, <2>2 DEF RetrySameAgent
<1>2. CASE FallOver(pref, 0)
  BY <1>2 DEF FallOver, Restarted
<1>3. CASE WaitForCooldown(pref, left') \/ _enter_phase_failed
  BY <1>3 DEF WaitForCooldown, _enter_phase_failed, LeaveFor, ChainKept, chain
<1> QED BY <1>1, <1>2, <1>3 DEF _handle_retry_progression

LEMMA KeptOrRestartedPays ==
    ASSUME TypeOK, TypeOK', RetryInv, ChainKept \/ Restarted,
           consumed'[index] >= consumed[index]
    PROVE  retries' =< RetryCap(kills) + consumed'[index']
<1>1. kills \in Nat /\ RetryCap(kills) \in Nat
  BY RetryCapStep, ChainAssumption DEF TypeOK
<1>2. consumed'[index'] \in Nat /\ consumed[index] \in Nat /\ consumed'[index] \in Nat
  BY ChainAssumption DEF TypeOK
<1>3. CASE Restarted
  BY <1>1, <1>2, <1>3 DEF Restarted
<1>4. CASE ChainKept
  BY <1>1, <1>2, <1>4 DEF ChainKept, RetryInv, TypeOK
<1> QED BY <1>3, <1>4

LEMMA OutcomePays ==
    ASSUME TypeOK, TypeOK', RetryInv, Outcome
    PROVE  RetryInv'
<1> USE ChainAssumption
<1> DEFINE Paid == retries' =< RetryCap(kills) + consumed'[index']
<1>1. kills \in Nat /\ RetryCap(kills) \in Nat /\ retries \in Nat
      /\ TechnicalCap =< RetryCap(kills) /\ AgentFailureRetries =< RetryCap(kills)
      /\ consumed'[index'] \in Nat /\ consumed[index] \in Nat
  BY RetryCapStep DEF TypeOK
<1>2. CASE TechnicalFailure \/ InvalidArtifact
  <2>1. PICK sp : _handle_retry_progression(sp, retries >= TechnicalCap, 0)
    BY <1>2 DEF TechnicalFailure, InvalidArtifact
  <2>2. (retries >= TechnicalCap) \in BOOLEAN
    OBVIOUS
  <2>3. \/ ChainKept \/ Restarted
        \/ ~ (retries >= TechnicalCap) /\ retries' = retries + 1
    BY <2>1, <2>2, ProgressionRetries, Zenon
  <2>4. consumed' = consumed
    BY <1>2 DEF TechnicalFailure, InvalidArtifact
  <2>5. Paid
    <3>1. CASE ChainKept \/ Restarted
      BY <1>1, <2>4, <3>1, KeptOrRestartedPays
    <3>2. CASE ~ (retries >= TechnicalCap) /\ retries' = retries + 1
      BY <1>1, <3>2
    <3> QED BY <2>3, <3>1, <3>2
  <2> QED BY <1>2, <2>5, CheckpointPays DEF TechnicalFailure, InvalidArtifact
<1>3. CASE AgentFault
  <2> DEFINE done == consumed[index] + 1 >= ChainRetries
  <2>1. done \in BOOLEAN
    OBVIOUS
  <2>2. \/ ChainKept \/ Restarted
        \/ ~done /\ index' = index /\ retries' = retries + 1
    BY <1>3, <2>1, ProgressionRetries, Zenon DEF AgentFault
  <2>3. consumed'[index] = Min2(consumed[index] + 1, ChainRetries)
    BY <1>3 DEF AgentFault, TypeOK
  <2>4. consumed[index] =< ChainRetries
    BY DEF TypeOK
  <2>5. Paid
    <3>1. CASE ChainKept \/ Restarted
      BY <1>1, <2>3, <2>4, <3>1, KeptOrRestartedPays DEF Min2
    <3>2. CASE ~done /\ index' = index /\ retries' = retries + 1
      <4>1. consumed'[index'] = consumed[index] + 1
        BY <1>1, <2>3, <3>2 DEF Min2
      <4> QED BY <1>1, <4>1, <3>2 DEF RetryInv
    <3> QED BY <2>2, <3>1, <3>2
  <2> QED BY <1>3, <2>5, CheckpointPays DEF AgentFault
<1>4. ASSUME AgentUnavailable \/ \E r \in BrokenReasons : BrokenAgent(r)
      PROVE  RetryInv'
  <2>1. left'[index] # 0 /\ consumed' = consumed
    BY <1>4 DEF AgentUnavailable, BrokenAgent, mark_unavailable, TypeOK
  <2>2. (consumed[index] >= ChainRetries) \in BOOLEAN
    OBVIOUS
  <2>3. \/ _handle_retry_progression(spent, consumed[index] >= ChainRetries, 0)
        \/ _enter_phase_failed
    BY <1>4 DEF AgentUnavailable, BrokenAgent
  <2>4. ChainKept \/ Restarted
    <3>1. CASE _enter_phase_failed
      BY <3>1 DEF _enter_phase_failed, LeaveFor, ChainKept, chain
    <3> QED BY <2>1, <2>2, <2>3, <3>1, ProgressionRetries, Zenon
  <2>5. Paid
    BY <1>1, <2>1, <2>4, KeptOrRestartedPays
  <2> QED BY <1>4, <2>5, CheckpointPays DEF AgentUnavailable, BrokenAgent
<1>5. CASE _handle_agent_failure
  <2> DEFINE now == IF retries >= AgentFailureRetries THEN spent \union {index} ELSE spent
             pref == preferred_agent_index(left, now)
  <2>1. consumed' = consumed
    BY <1>5 DEF _handle_agent_failure
  <2>2. CASE RetrySameAgent(pref, delay)
    <3>1. index \notin now
      BY <2>2, PreferredCanServe DEF RetrySameAgent, selectable
    <3>2. ~ (retries >= AgentFailureRetries)
      BY <3>1
    <3>3. Paid
      BY <1>1, <2>2, <3>2 DEF RetrySameAgent
    <3> QED BY <1>5, <3>3, CheckpointPays DEF _handle_agent_failure
  <2>3. CASE FallOver(pref, delay) \/ WaitForCooldown(pref, left) \/ _enter_failed_recovery
    <3>1. ChainKept \/ Restarted
      BY <2>3 DEF FallOver, WaitForCooldown, _enter_failed_recovery, LeaveFor, ChainKept,
         Restarted, chain
    <3>2. Paid
      BY <1>1, <2>1, <3>1, KeptOrRestartedPays
    <3> QED BY <1>5, <3>2, CheckpointPays DEF _handle_agent_failure
  <2> QED BY <1>5, <2>2, <2>3 DEF _handle_agent_failure
<1>6. CASE \/ _handle_skip_same_agent_retries \/ UserConfigFailure
           \/ Succeeds \/ RedirectExpired
  <2>1. consumed' = consumed
    BY <1>6, ZenonT(60) DEF _handle_skip_same_agent_retries, UserConfigFailure, Succeeds, RedirectExpired,
       controller
  <2>2. ChainKept \/ Restarted
    BY <1>6 DEF _handle_skip_same_agent_retries, UserConfigFailure, Succeeds, RedirectExpired,
       FallOver, WaitForCooldown, _enter_failed_recovery, _enter_phase_failed, LeaveFor,
       ChainKept, Restarted, chain
  <2>3. Paid
    BY <1>1, <2>1, <2>2, KeptOrRestartedPays
  <2> QED BY <1>6, <2>3, CheckpointPays
         , ZenonT(60) DEF _handle_skip_same_agent_retries, UserConfigFailure, Succeeds, RedirectExpired
<1> QED BY <1>2, <1>3, <1>4, <1>5, <1>6 DEF Outcome

LEMMA LoopPays ==
    ASSUME TypeOK, TypeOK', RetryInv, Loop \/ \E d \in Durations : SleepFails(d)
    PROVE  RetryInv'
<1>1. consumed' = consumed /\ kills' = kills
  BY DEF Loop, ReenterFromFailedRoute, NextIteration, Invoke, ComeBack, Sleep, SleepFails,
     controller, Checkpoint
<1>2. ChainKept \/ Restarted
  BY DEF Loop, ReenterFromFailedRoute, NextIteration, Invoke, ComeBack, Sleep, SleepFails,
     _reselect_preferred_agent, ChainKept, Restarted, chain
<1>3. consumed[index] \in Nat
  BY ChainAssumption DEF TypeOK
<1>4. retries' =< RetryCap(kills) + consumed'[index']
  BY <1>1, <1>2, <1>3, KeptOrRestartedPays
<1>5. CASE Checkpoint
  BY <1>4, <1>5, CheckpointPays
<1>6. CASE saved' = saved
  BY <1>1, <1>4, <1>6 DEF RetryInv
<1> QED BY <1>5, <1>6 DEF Loop, ReenterFromFailedRoute, NextIteration, Invoke, ComeBack, Sleep,
        SleepFails

\* The gate saves a state whose retries are paid for.
LEMMA GatePays ==
    ASSUME TypeOK, RetryInv, NEW d \in Durations, _block_unresolved_integration(d)
    PROVE  RetryInv'
<1>1. /\ kills' = kills /\ consumed' = consumed /\ index' = index
      /\ retries' = retries /\ saved'.retries = retries
  BY DEF _block_unresolved_integration, chain
<1>2. /\ kills \in Nat /\ retries \in Nat
      /\ consumed[index] \in Nat /\ consumed[index] =< ChainRetries
  BY ChainAssumption DEF TypeOK
<1>3. retries =< RetryCap(kills + 1)
  BY <1>2, RetryCapStep, ChainAssumption DEF RetryInv
<1> QED BY <1>1, <1>3 DEF RetryInv

LEMMA RestartPays ==
    ASSUME TypeOK, RetryInv, KillAndResume
    PROVE  RetryInv'
<1> USE ChainAssumption
<1>1. kills \in Nat /\ kills' = kills + 1 /\ saved' = saved /\ retries' = saved.retries
  BY DEF KillAndResume, TypeOK
<1>2. consumed'[index'] = 0 /\ saved.retries \in Nat
  BY DEF KillAndResume, TypeOK, Checkpoints
<1>3. RetryCap(kills') \in Nat /\ RetryCap(kills' + 1) = RetryCap(kills') + ChainRetries
  BY <1>1, RetryCapStep
<1> QED BY <1>1, <1>2, <1>3 DEF RetryInv

\* The same agent is retried a bounded number of times in a row, for every chain
\* and every setting of the three allowances, restarts included.
THEOREM RetriesBounded == Spec => []SameAgentRetriesBounded
<1>1. Init => RetryInv
  <2> SUFFICES ASSUME Init PROVE RetryInv
    OBVIOUS
  <2>1. RetryCap(0) \in Nat /\ RetryCap(0 + 1) \in Nat
    BY RetryCapStep
  <2>2. kills = 0 /\ retries = 0 /\ saved.retries = 0 /\ consumed[index] = 0
    BY ChainAssumption DEF Init, Agents
  <2> QED BY <2>1, <2>2 DEF RetryInv
<1>2. TypeOK /\ RetryInv /\ [Next]_vars => RetryInv'
  <2>1. ASSUME TypeOK, TypeOK', RetryInv, Next PROVE RetryInv'
    <3>1. CASE Exited
      BY <2>1, <3>1 DEF Exited, RetryInv, vars, chain, controller
    <3> QED BY <2>1, <3>1, OutcomePays, LoopPays, GatePays, RestartPays DEF Next
  <2>2. ASSUME RetryInv, UNCHANGED vars PROVE RetryInv'
    BY <2>2 DEF RetryInv, vars, chain, controller
  <2> QED BY <2>1, <2>2, StepTyped
<1>3. TypeOK /\ RetryInv => SameAgentRetriesBounded
  <2> SUFFICES ASSUME TypeOK, RetryInv PROVE SameAgentRetriesBounded
    OBVIOUS
  <2>1. /\ kills \in Nat /\ RetryCap(kills) \in Nat /\ retries \in Nat
        /\ consumed[index] \in Nat /\ consumed[index] =< ChainRetries
    BY RetryCapStep, ChainAssumption DEF TypeOK
  <2>2. retries =< RetryCap(kills + 1)
    BY <2>1, RetryCapStep, ChainAssumption DEF RetryInv
  <2> QED BY <2>2 DEF SameAgentRetriesBounded, RetryCap
<1> QED BY <1>1, <1>2, <1>3, TypeCorrect, PTL DEF Spec
=============================================================================
