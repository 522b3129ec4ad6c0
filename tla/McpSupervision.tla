--------------------------- MODULE McpSupervision ---------------------------
(***************************************************************************)
(* One agent invocation with its MCP server: the restarting bridge         *)
(* (mcp/server/lifecycle.py), the supervisor thread of every attempt       *)
(* (process/mcp_supervisor.py), and the attempts, retries and final        *)
(* shutdown of the invocation (pipeline/effect_executor.py and             *)
(* agents/invoke/_direct_mcp_recovery.py).                                 *)
(*                                                                         *)
(* Thread 0 is the main thread, thread i the supervisor of attempt i.  A   *)
(* call of the bridge is one step per point where the lock is taken, the   *)
(* server is looked at, stopped, spawned, or found ready.                  *)
(***************************************************************************)
EXTENDS Naturals, Sequences

CONSTANTS
    MaxRestarts,    \* McpRestartPolicy.max_restarts
    MaxResets,      \* _TOOL_REGISTRY_MAX_RESETS
    ProbeFailures,  \* _PROBE_FAILURES_BEFORE_RESTART
    MaxRetries,     \* max_recovery_attempts
    MaxFaults       \* bound: spawns, preflights and terminations that fail

ASSUME McpAssumption ==
    /\ {MaxRestarts, MaxResets, MaxRetries, MaxFaults} \subseteq Nat
    /\ ProbeFailures \in Nat \ {0}

Attempts == 1 .. MaxRetries + 1
Threads == {0} \cup Attempts

VARIABLES
    server,    \* every server so far: "up", "hung", "stuck" (outlived its termination), "dead"
    session,   \* servers whose session file exists
    inner,     \* _inner
    misses,    \* _consecutive_probe_failures
    restarts,  \* _restart_count
    resets,    \* _tool_registry_resets
    lock,      \* threads that hold _lock
    at,        \* per thread: progress of its call of the bridge
    main,      \* where the invocation is
    attempt,   \* number of the current attempt, retries_used + 1
    exc,       \* the exception the main thread handles
    agent,     \* the agent process
    sup,       \* per attempt: the supervisor thread
    done,      \* per attempt: _done is set
    error,     \* per attempt: _mcp_error
    late,      \* some supervisor was still busy when its attempt stopped waiting for it
    faults

bridge == <<server, session, inner, misses, restarts, resets, lock, at>>
invocation == <<main, attempt, exc, agent>>
supervision == <<sup, done, error, late>>
vars == <<bridge, invocation, supervision, faults>>

Init ==
    /\ server = <<"up">>
    /\ session = {1}
    /\ inner = 1
    /\ misses = 0
    /\ restarts = 0
    /\ resets = 0
    /\ lock = {}
    /\ at = [t \in Threads |-> IF t = 0 THEN "lock" ELSE "idle"]
    /\ main = "check"
    /\ attempt = 1
    /\ exc = "none"
    /\ agent = "none"
    /\ sup = [i \in Attempts |-> "off"]
    /\ done = [i \in Attempts |-> FALSE]
    /\ error = [i \in Attempts |-> "none"]
    /\ late = FALSE
    /\ faults = 0

Alive == {"up", "hung", "stuck"}

\* The server that was spawned last.
Newest == Len(server)

Fault == faults < MaxFaults /\ faults' = faults + 1

Resetting(t) == t = 0 /\ main = "reset"

-----------------------------------------------------------------------------
(* The end of a bridge call of thread t, and what its caller makes of it.  *)

Release(t, next) ==
    /\ lock' = lock \ {t}
    /\ at' = [at EXCEPT ![t] = next]

\* The supervisor is started before the agent is.
StartAttempt ==
    /\ main' = "launch"
    /\ sup' = [sup EXCEPT ![attempt] = "waiting"]
    /\ UNCHANGED <<attempt, exc, agent, done, error, late>>

NextAttempt ==
    /\ main' = "check"
    /\ attempt' = attempt + 1
    /\ exc' = "none"

\* check_health_and_restart_if_needed or reset_tool_registry returns.
Return(t) ==
    \/ /\ t = 0 /\ main = "check"
       /\ StartAttempt
       /\ Release(t, "idle")
    \/ /\ t = 0 /\ main = "reset"
       /\ NextAttempt
       /\ Release(t, "lock")
       /\ UNCHANGED <<agent, supervision>>
    \/ /\ t # 0
       /\ sup' = [sup EXCEPT ![t] = "waiting"]
       /\ Release(t, "idle")
       /\ UNCHANGED <<invocation, done, error, late>>

\* McpServerError ("exhausted" or "mcp") ends the supervisor, any other exception is
\* logged and supervision goes on.
Caught(t, kind) ==
    \/ /\ t = 0 /\ main = "check"
       /\ main' = "failed"
       /\ exc' = kind
       /\ UNCHANGED <<attempt, agent, supervision>>
    \/ /\ t = 0 /\ main = "reset"
       /\ main' = "close"
       /\ UNCHANGED <<attempt, exc, agent, supervision>>
    \/ /\ t # 0
       /\ error' = [error EXCEPT ![t] = IF kind = "other" THEN @ ELSE kind]
       /\ sup' = [sup EXCEPT ![t] = IF kind = "other" THEN "waiting" ELSE "interrupting"]
       /\ UNCHANGED <<invocation, done, late>>

RaiseLocked(t, kind) ==
    /\ at' = [at EXCEPT ![t] = "idle"]
    /\ UNCHANGED lock
    /\ Caught(t, kind)

Raise(t, kind) == Release(t, "idle") /\ Caught(t, kind)

Continue(t, next) ==
    /\ at' = [at EXCEPT ![t] = next]
    /\ UNCHANGED <<lock, invocation, supervision>>
-----------------------------------------------------------------------------
(* check_health_and_restart_if_needed, and reset_tool_registry.            *)

AcquireUnlocked(t) ==
    /\ at[t] = "lock"
    /\ lock' = lock \cup {t}
    /\ at' = [at EXCEPT ![t] = IF Resetting(t) THEN "count" ELSE "probe"]
    /\ UNCHANGED <<server, session, inner, misses, restarts, resets, invocation, supervision, faults>>

Acquire(t) ==
    /\ at[t] = "lock"
    /\ lock = {}
    /\ lock' = {t}
    /\ at' = [at EXCEPT ![t] = IF Resetting(t) THEN "count" ELSE "probe"]
    /\ UNCHANGED <<server, session, inner, misses, restarts, resets, invocation, supervision, faults>>

ExhaustedOneLate == restarts > MaxRestarts

Exhausted == restarts >= MaxRestarts

\* A live server that answers may miss the probe all the same.
Probe(t) ==
    LET exited == server[inner] = "dead" IN
    /\ at[t] = "probe"
    /\ \E missed \in BOOLEAN :
          /\ exited => ~missed
          /\ server[inner] \in {"hung", "stuck"} => missed
          /\ misses' = IF missed THEN misses + 1 ELSE 0
    /\ IF ~exited /\ misses' < ProbeFailures THEN Return(t)
       ELSE IF Exhausted THEN Raise(t, "exhausted")
       ELSE Continue(t, "stop")
    /\ UNCHANGED <<server, session, inner, restarts, resets, faults>>

\* The reset is counted before anything is done.
CountReset(t) ==
    /\ at[t] = "count"
    /\ IF resets >= MaxResets
       THEN Raise(t, "exhausted") /\ UNCHANGED resets
       ELSE Continue(t, "stop") /\ resets' = resets + 1
    /\ UNCHANGED <<server, session, inner, misses, restarts, faults>>

\* StandaloneMcpProcess.shutdown of server n: the session file goes when the process is
\* proved dead.
Stopped(n) ==
    /\ server[n] # "stuck"
    /\ server' = [server EXCEPT ![n] = "dead"]
    /\ session' = session \ {n}
    /\ UNCHANGED faults

\* The first termination that fails raises ProcessTerminationError; the record then is
\* terminal, and later calls run into the timeout of their wait.
StopFailsUnlinking(n, kind) ==
    /\ \/ server[n] \in {"up", "hung"} /\ kind = "other" /\ Fault
       \/ server[n] = "stuck" /\ kind = "mcp" /\ UNCHANGED faults
    /\ server' = [server EXCEPT ![n] = "stuck"]
    /\ session' = session \ {n}

StopFails(n, kind) ==
    /\ \/ server[n] \in {"up", "hung"} /\ kind = "other" /\ Fault
       \/ server[n] = "stuck" /\ kind = "mcp" /\ UNCHANGED faults
    /\ server' = [server EXCEPT ![n] = "stuck"]
    /\ UNCHANGED session

StopInner(t) ==
    /\ at[t] = "stop"
    /\ \/ Stopped(inner) /\ Continue(t, "spawn")
       \/ \E kind \in {"other", "mcp"} : StopFails(inner, kind) /\ Raise(t, kind)
    /\ UNCHANGED <<inner, misses, restarts, resets>>

\* _spawn_mcp_process: the session file is removed again when there is no process.
SpawnServer(t) ==
    /\ at[t] = "spawn"
    /\ \/ /\ server' = Append(server, "up")
          /\ session' = session \cup {Newest + 1}
          /\ Continue(t, "preflight")
          /\ UNCHANGED faults
       \/ /\ Fault
          /\ Raise(t, "other")
          /\ UNCHANGED <<server, session>>
    /\ UNCHANGED <<inner, misses, restarts, resets>>

\* The caller installs the new server; only a health check counts a restart and starts
\* the probes afresh.
Ready(t) ==
    /\ at[t] = "preflight"
    /\ inner' = Newest
    /\ IF Resetting(t)
       THEN Continue(t, "verify") /\ UNCHANGED <<misses, restarts>>
       ELSE Return(t) /\ misses' = 0 /\ restarts' = restarts + 1
    /\ UNCHANGED <<server, session, resets, faults>>

NotReadyLeaking(t) ==
    /\ at[t] = "preflight"
    /\ Fault
    /\ Raise(t, "mcp")
    /\ UNCHANGED <<server, session, inner, misses, restarts, resets>>

\* A server that is not ready in time, or exited before, is shut down.
NotReady(t) ==
    /\ at[t] = "preflight"
    /\ \/ /\ Fault
          /\ server' = [server EXCEPT ![Newest] = "dead"]
          /\ session' = session \ {Newest}
          /\ Raise(t, "mcp")
       \/ StopFails(Newest, "other") /\ Raise(t, "other")
    /\ UNCHANGED <<inner, misses, restarts, resets>>

\* _verify_alias_present
Verify(t) ==
    /\ at[t] = "verify"
    /\ \/ server[inner] = "up" /\ Return(t) /\ UNCHANGED faults
       \/ server[inner] # "up" /\ Raise(t, "mcp") /\ UNCHANGED faults
       \/ Fault /\ Raise(t, "mcp")
    /\ UNCHANGED <<server, session, inner, misses, restarts, resets>>

BridgeStep(t) ==
    \/ Acquire(t)
    \/ Probe(t)
    \/ CountReset(t)
    \/ StopInner(t)
    \/ SpawnServer(t)
    \/ Ready(t)
    \/ NotReady(t)
    \/ Verify(t)

\* A server crashes, or stops answering.  One that is not ready yet is NotReady's.
ServerFails(n) ==
    /\ server[n] \in Alive
    /\ ~\E t \in Threads : at[t] = "preflight" /\ n = Newest
    /\ \/ server' = [server EXCEPT ![n] = "dead"]
       \/ server[n] = "up" /\ server' = [server EXCEPT ![n] = "hung"]
    /\ UNCHANGED <<session, inner, misses, restarts, resets, lock, at, invocation, supervision, faults>>
-----------------------------------------------------------------------------
(* The supervisor of attempt i: McpSupervisor._run.                        *)

Wakes(i) ==
    /\ sup[i] = "waiting"
    /\ ~done[i]
    /\ sup' = [sup EXCEPT ![i] = "checking"]
    /\ at' = [at EXCEPT ![i] = "lock"]
    /\ UNCHANGED <<server, session, inner, misses, restarts, resets, lock>>
    /\ UNCHANGED <<invocation, done, error, late, faults>>

Leaves(i) ==
    /\ sup[i] = "waiting"
    /\ done[i]
    /\ sup' = [sup EXCEPT ![i] = "ended"]
    /\ UNCHANGED <<bridge, invocation, done, error, late, faults>>

InterruptNobody(i) ==
    /\ sup[i] = "interrupting"
    /\ sup' = [sup EXCEPT ![i] = "ended"]
    /\ UNCHANGED <<bridge, invocation, done, error, late, faults>>

\* _interrupt_blocked_invocation terminates whatever agent runs now.
InterruptAgent(i) ==
    /\ sup[i] = "interrupting"
    /\ sup' = [sup EXCEPT ![i] = "ended"]
    /\ \/ agent' = (IF agent = "running" THEN "killed" ELSE agent) /\ UNCHANGED faults
       \/ agent = "running" /\ agent' = "stuck" /\ Fault
    /\ UNCHANGED <<bridge, main, attempt, exc, done, error, late>>

SupervisorStep(i) ==
    \/ Wakes(i)
    \/ Leaves(i)
    \/ InterruptAgent(i)
    \/ BridgeStep(i)

-----------------------------------------------------------------------------
(* The main thread: _invoke_agent_with_recovery, whose calls of the bridge *)
(* are BridgeStep(0).                                                      *)

\* invoke_agent has resolved the runtime, built the command and spawns the process.  A
\* supervisor that interrupted before this found no process, and nobody looks again.
LaunchAgent ==
    /\ main = "launch"
    /\ main' = "agent"
    /\ agent' = "running"
    /\ UNCHANGED <<bridge, attempt, exc, supervision, faults>>

\* The agent returns, fails, or was terminated, or its launch failed before there was a
\* process; __exit__ sets _done.
AgentEnds ==
    /\ main \in {"launch", "agent"}
    /\ main' = "join"
    /\ exc' \in (IF agent \in {"none", "killed"} THEN {"agent"} ELSE {"none", "agent"})
    /\ agent' = "none"
    /\ done' = [done EXCEPT ![attempt] = TRUE]
    /\ UNCHANGED <<bridge, attempt, sup, error, late, faults>>

\* The join times out on a supervisor in the middle of a check.  A stored error takes
\* the place of the agent's.
Join ==
    /\ main = "join"
    /\ sup[attempt] # "waiting"
    /\ late' = (late \/ sup[attempt] # "ended")
    /\ exc' = IF error[attempt] # "none" THEN error[attempt] ELSE exc
    /\ main' = IF exc' = "none" THEN "close" ELSE "failed"
    /\ UNCHANGED <<bridge, attempt, agent, sup, done, error, faults>>

\* run_with_direct_mcp_recovery: an exhausted budget is not retried, any other failure
\* may be, with or without a rebuilt tool registry.
Retry ==
    /\ main = "failed"
    /\ attempt <= MaxRetries
    /\ exc # "exhausted"
    /\ at' = [at EXCEPT ![0] = "lock"]
    /\ \/ NextAttempt
       \/ main' = "reset" /\ UNCHANGED <<attempt, exc>>
    /\ UNCHANGED <<server, session, inner, misses, restarts, resets, lock>>
    /\ UNCHANGED <<agent, supervision, faults>>

GiveUp ==
    /\ main = "failed"
    /\ main' = "close"
    /\ UNCHANGED <<bridge, attempt, exc, agent, supervision, faults>>

\* RestartAwareMcpBridge.shutdown does not take the lock.
Close ==
    /\ main = "close"
    /\ main' = "returned"
    /\ Stopped(inner) \/ \E kind \in {"other", "mcp"} : StopFails(inner, kind)
    /\ UNCHANGED <<inner, misses, restarts, resets, lock, at, attempt, exc, agent, supervision>>

MainStep ==
    \/ LaunchAgent
    \/ Join
    \/ Retry
    \/ GiveUp
    \/ Close
    \/ BridgeStep(0)

Next ==
    \/ MainStep
    \/ AgentEnds
    \/ \E i \in Attempts : SupervisorStep(i)
    \/ \E n \in DOMAIN server : ServerFails(n)

Spec == Init /\ [][Next]_vars

\* Threads are scheduled, the wait between two checks ends, and a terminated agent is
\* seen to have ended.  Nothing makes an agent end that was left alone.
FairSpec ==
    /\ Spec
    /\ WF_vars(MainStep \/ (agent = "killed" /\ AgentEnds))
    /\ \A i \in Attempts : WF_vars(SupervisorStep(i))

-----------------------------------------------------------------------------
(* What supervision promises.                                              *)

\* Counters keep to their caps, and threads to their places.
TypeOK ==
    /\ server \in Seq({"up", "hung", "stuck", "dead"})
    /\ session \subseteq DOMAIN server
    /\ inner \in DOMAIN server
    /\ misses \in Nat
    /\ restarts \in 0 .. MaxRestarts
    /\ resets \in 0 .. MaxResets
    /\ lock \subseteq Threads
    /\ at \in [Threads -> {"idle", "lock", "probe", "count", "stop", "spawn", "preflight", "verify"}]
    /\ main \in {"check", "launch", "agent", "join", "failed", "reset", "close", "returned"}
    /\ attempt \in Attempts
    /\ exc \in {"none", "agent", "other", "mcp", "exhausted"}
    /\ agent \in {"none", "running", "killed", "stuck"}
    /\ sup \in [Attempts -> {"off", "waiting", "checking", "interrupting", "ended"}]
    /\ done \in [Attempts -> BOOLEAN]
    /\ error \in [Attempts -> {"none", "mcp", "exhausted"}]
    /\ late \in BOOLEAN
    /\ faults \in 0 .. MaxFaults

\* Every restart reuses the port: two threads that find the server dead, or one that
\* restarts and one that resets, never have two servers running, except one that
\* outlived its termination.
OneServerOnThePort ==
    \A n, k \in DOMAIN server : {server[n], server[k]} \subseteq {"up", "hung"} => n = k

\* The session file of a server that may still run is never released, whichever of the
\* shutdowns of the bridge failed and however often it is tried.
SessionFileOutlivesServer == \A n \in DOMAIN server : server[n] \in Alive => n \in session

\* An invocation that waited for all its supervisors leaves no server behind, except one
\* that outlived its termination.
NothingLeftBehind ==
    main = "returned" /\ ~late => \A n \in DOMAIN server : server[n] \in {"dead", "stuck"}

\* The termination of the agent was tried and failed, which the supervisor only logs.
InterruptFailed == agent = "stuck"

\* While its supervisor has not ended, an agent whose server crashed or hangs gets a server
\* again, or the invocation gets it back: it does not wait for answers forever.  The one
\* exception is an agent whose termination failed.
AgentIsServedOrReturned ==
    (agent = "running" /\ sup[attempt] # "ended" /\ server[inner] # "up")
        ~> (server[inner] = "up" \/ main # "agent" \/ InterruptFailed)

\* The main thread waits for nobody but its agent: no restart, reset or failed check of a
\* supervisor keeps it from the next attempt or from returning.
MainComesThrough == (main # "agent") ~> (main \in {"agent", "returned"})
=============================================================================
