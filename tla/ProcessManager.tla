--------------------------- MODULE ProcessManager ---------------------------
(***************************************************************************)
(* The registry of child processes and its termination escalation          *)
(* (process/manager/_process_manager.py), as threads use them              *)
(* concurrently: spawning, polling a handle, the zombie reaper, and the    *)
(* walks shutdown_all and shutdown_all_for_label.                          *)
(*                                                                         *)
(* A walk is one variable per thread; its steps are the points where the   *)
(* escalation reads the operating system, signals, waits and records.  A   *)
(* SIGTERM has no effect of its own here: a live process may end at any    *)
(* moment.  Trees are one level deep, process ids are not reused, and the  *)
(* order in which a walk takes its records is left open.                   *)
(***************************************************************************)
EXTENDS Naturals

CONSTANTS
    Procs,     \* every process: the ones Ralph spawns and their children
    Parent,    \* process -> the process that started it, or Ralph
    Ralph,
    Agents,    \* spawned processes whose label starts with "invoke:"
    Pty,       \* spawned processes attached to a pseudo terminal
    Stuck,     \* processes that may outlive a SIGKILL (uninterruptible sleep)
    Denied,    \* spawned processes whose tree psutil may be denied to read
    Foreign,   \* processes of spawn that Ralph may not be permitted to signal
    Unknown,   \* spawned processes whose liveness check may fail
    Threads    \* threads of Ralph that may run a walk

Roots == {p \in Procs : Parent[p] = Ralph}

ASSUME ProcessAssumption ==
    /\ Ralph \notin Procs
    /\ Parent \in [Procs -> Roots \cup {Ralph}]
    /\ Agents \subseteq Roots
    /\ Pty \subseteq Roots
    /\ Stuck \subseteq Procs
    /\ Denied \subseteq Roots
    /\ Foreign \subseteq (Roots \ Pty) \cap Stuck
    /\ Unknown \subseteq Roots

VARIABLES
    os,        \* what the operating system knows of a process
    status,    \* ProcessRecord.status, "none" before the record exists
    records,   \* keys of _records
    procs,     \* keys of _sync_procs, _pty_procs and _async_procs
    spawning,  \* how far the call that spawns a process got
    reaper,    \* the zombie reaper thread is running
    walk       \* per thread: the walk in progress

registry == <<status, records, procs>>
manager == <<os, registry, spawning, reaper, walk>>

_TERMINAL_STATUSES == {"exited", "killed", "failed"}

NoWalk == [stage |-> "idle", todo |-> {}, seen |-> {}, target |-> Ralph, owned |-> FALSE,
           tree |-> {}, error |-> FALSE, refused |-> FALSE]

ManagerInit ==
    /\ os = [p \in Procs |-> "none"]
    /\ status = [p \in Roots |-> "none"]
    /\ records = {}
    /\ procs = {}
    /\ spawning = [p \in Roots |-> "none"]
    /\ reaper = FALSE
    /\ walk = [t \in Threads |-> NoWalk]

-----------------------------------------------------------------------------
(* The operating system.                                                   *)

\* verify_process_liveness tells these two from a live process.
Dead == {"zombie", "gone"}

\* The processes in S die: a live parent keeps a zombie, init keeps none.
died(S) ==
    [p \in Procs |->
        CASE p \in S -> IF Parent[p] = Ralph \/ (os[Parent[p]] = "alive" /\ Parent[p] \notin S)
                        THEN "zombie" ELSE "gone"
          [] os[p] = "zombie" /\ Parent[p] \in S -> "gone"
          [] OTHER -> os[p]]

\* waitpid on the processes in S: Ralph collects its own children only.
reaped(S) == [p \in Procs |-> IF p \in S \cap Roots /\ os[p] = "zombie" THEN "gone" ELSE os[p]]

\* root.children(recursive=True): a dead root has no children left.
Tree(p) ==
    {p} \cup {c \in Procs : os[p] = "alive" /\ Parent[c] = p /\ os[c] \in {"alive", "zombie"}}

\* A process ends by itself, or because it was asked to.
ProcessExits(p) ==
    /\ os[p] = "alive"
    /\ os' = died({p})
    /\ UNCHANGED <<registry, spawning, reaper, walk>>

\* A live process starts a child, and collects it when it ended.
ProcessForks(c) ==
    /\ c \in Procs \ Roots
    /\ os[c] = "none"
    /\ os[Parent[c]] = "alive"
    /\ os' = [os EXCEPT ![c] = "alive"]
    /\ UNCHANGED <<registry, spawning, reaper, walk>>

ProcessCollects(c) ==
    /\ c \in Procs \ Roots
    /\ os[c] = "zombie"
    /\ Parent[c] \notin Stuck
    /\ os' = [os EXCEPT ![c] = "gone"]
    /\ UNCHANGED <<registry, spawning, reaper, walk>>

-----------------------------------------------------------------------------
(* The registry.                                                           *)

MarkUnchecked(p, verdict) ==
    /\ status' = [status EXCEPT ![p] = verdict]
    /\ records' = records \ {p}
    /\ procs' = procs \ {p}

\* _mark_exited, _mark_killed, _mark_termination_failed: the first verdict stands.
Mark(p, verdict) ==
    IF status[p] \in _TERMINAL_STATUSES
    THEN UNCHANGED registry
    ELSE /\ status' = [status EXCEPT ![p] = verdict]
         /\ records' = records \ {p}
         /\ procs' = procs \ {p}

list_active == {p \in records : status[p] = "running"}

\* spawn, spawn_pty, spawn_async: the child exists from the factory call on; its
\* record follows, then its handle.
Fork(p) ==
    /\ spawning[p] = "none"
    /\ spawning' = [spawning EXCEPT ![p] = "forked"]
    /\ os' = [os EXCEPT ![p] = "alive"]
    /\ UNCHANGED <<registry, reaper, walk>>

\* The reaper is started for the first tracked process only.
Register(p) ==
    /\ spawning[p] = "forked"
    /\ spawning' = [spawning EXCEPT ![p] = "registered"]
    /\ reaper' = (reaper \/ (records = {} /\ \A q \in Roots : status[q] \notin _TERMINAL_STATUSES))
    /\ status' = [status EXCEPT ![p] = "running"]
    /\ records' = records \cup {p}
    /\ UNCHANGED <<os, procs, walk>>

Track(p) ==
    /\ spawning[p] = "registered"
    /\ spawning' = [spawning EXCEPT ![p] = "returned"]
    /\ procs' = procs \cup {p}
    /\ UNCHANGED <<os, status, records, reaper, walk>>

\* ManagedProcess.poll, wait and communicate: the handle's owner sees the end.
poll(p) ==
    /\ spawning[p] = "returned"
    /\ os[p] \in Dead
    /\ status[p] \notin _TERMINAL_STATUSES
    /\ os' = reaped({p})
    /\ Mark(p, "exited")
    /\ UNCHANGED <<spawning, reaper, walk>>

\* _reconcile_stale_entries: every dead process with an active record is marked, and
\* collected if its handle is known.  A process whose liveness check fails (UNKNOWN) is
\* marked as well, alive or not.
Stale == {p \in list_active : os[p] \in Dead}

ReconcileKeepingRecords ==
    \E unknown \in SUBSET (list_active \cap Unknown) : LET stale == Stale \cup unknown IN
        /\ os' = reaped((stale \ unknown) \cap procs)
        /\ status' = [p \in Roots |-> IF p \in stale THEN "killed" ELSE status[p]]
        /\ procs' = procs \ stale
        /\ UNCHANGED records

Reconcile ==
    \E unknown \in SUBSET (list_active \cap Unknown) : LET stale == Stale \cup unknown IN
        /\ os' = reaped((stale \ unknown) \cap procs)
        /\ status' = [p \in Roots |-> IF p \in stale THEN "killed" ELSE status[p]]
        /\ records' = records \ stale
        /\ procs' = procs \ stale

_zombie_reaper_loop ==
    /\ reaper
    /\ Reconcile
    /\ UNCHANGED <<spawning, reaper, walk>>

-----------------------------------------------------------------------------
(* shutdown_all and shutdown_all_for_label: one walk over a snapshot.      *)

Walking(t, stage) == walk[t].stage = stage

\* The snapshot is taken right after the stale entries were reconciled.
StartWalk(t, agents_only) ==
    /\ Reconcile
    /\ LET todo == IF agents_only THEN records' \cap Agents ELSE records'
       IN walk' = [walk EXCEPT ![t] = [NoWalk EXCEPT !.stage = "next", !.todo = todo, !.seen = todo]]

Turn(t, stage) == walk' = [walk EXCEPT ![t].stage = stage]

Proceed(t, todo, error) ==
    walk' = [walk EXCEPT ![t].stage = "next", ![t].todo = todo, ![t].target = Ralph,
                         ![t].owned = FALSE, ![t].tree = {}, ![t].error = @ \/ error]

\* The loop goes on with the next record, whatever became of this one.
NextRecord(t, p) == Proceed(t, walk[t].todo \ {p}, FALSE)

NextRecordFailed(t, p) == Proceed(t, walk[t].todo \ {p}, TRUE)

AbandonRecords(t, p) == Proceed(t, {}, TRUE)

\* Terminal records are skipped; a process that is gone is marked without a signal.
Skip(t, p) ==
    /\ Walking(t, "next")
    /\ p \in walk[t].todo
    /\ \/ status[p] \in _TERMINAL_STATUSES /\ UNCHANGED registry
       \/ os[p] = "gone" /\ Mark(p, "killed")
    /\ NextRecord(t, p)
    /\ UNCHANGED <<os, spawning, reaper>>

\* _raise_access_denied_termination
AccessDenied(t, p) ==
    /\ Walking(t, "next")
    /\ p \in walk[t].todo \cap Denied
    /\ status[p] \notin _TERMINAL_STATUSES
    /\ os[p] # "gone"
    /\ Mark(p, "failed")
    /\ NextRecordFailed(t, p)
    /\ UNCHANGED <<os, spawning, reaper>>

SnapshotTree(t, p) ==
    /\ Walking(t, "next")
    /\ p \in walk[t].todo
    /\ status[p] \notin _TERMINAL_STATUSES
    /\ os[p] # "gone"
    /\ walk' = [walk EXCEPT ![t].stage = "terminate", ![t].target = p, ![t].tree = Tree(p),
                            ![t].owned = p \in procs]
    /\ UNCHANGED <<os, registry, spawning, reaper>>

\* proc.terminate() polls the handle first; an agent that turns out to have ended
\* is marked at once and its tree is left alone.
Terminate(t) ==
    LET p == walk[t].target
        ended == walk[t].owned /\ os[p] \in Dead
    IN
    /\ Walking(t, "terminate")
    /\ os' = IF walk[t].owned THEN reaped({p}) ELSE os
    /\ IF ended /\ p \in Agents \ Pty
       THEN Mark(p, "killed") /\ NextRecord(t, p)
       ELSE UNCHANGED registry /\ Turn(t, "grace")
    /\ UNCHANGED <<spawning, reaper>>

\* The signal is refused: a PermissionError, which the walk does not catch.  It ends
\* there, and neither this record nor the ones after it are settled.
TerminateRefused(t) ==
    LET p == walk[t].target IN
    /\ Walking(t, "terminate")
    /\ walk[t].owned /\ p \in Foreign /\ os[p] = "alive"
    /\ walk' = [walk EXCEPT ![t] = [NoWalk EXCEPT !.stage = "next", !.seen = walk[t].seen,
                                                  !.error = TRUE, !.refused = TRUE]]
    /\ UNCHANGED <<os, registry, spawning, reaper>>

\* _safe_wait_procs: who is still there when the wait ends, zombies of others included.
WaitProcs(t, stage) ==
    /\ os' = reaped(walk[t].tree)
    /\ walk' = [walk EXCEPT ![t].stage = stage,
                            ![t].tree = {p \in @ : os'[p] \in {"alive", "zombie"}}]
    /\ UNCHANGED <<registry, spawning, reaper>>

GracePeriod(t) ==
    /\ Walking(t, "grace")
    /\ WaitProcs(t, "kill")

KillNobody(t) ==
    /\ Walking(t, "kill")
    /\ Turn(t, "follow_up")
    /\ UNCHANGED <<os, registry, spawning, reaper>>

\* SIGKILL to the survivors: only a stuck process outlives it.
Kill(t) ==
    /\ Walking(t, "kill")
    /\ \E S \in SUBSET (walk[t].tree \cap Stuck) :
          os' = died({p \in walk[t].tree \ S : os[p] = "alive"})
    /\ Turn(t, "follow_up")
    /\ UNCHANGED <<registry, spawning, reaper>>

FollowUp(t) ==
    /\ Walking(t, "follow_up")
    /\ WaitProcs(t, "verdict")

VerdictRaising(t) ==
    LET p == walk[t].target
        survivors == walk[t].tree
        zombie == \E q \in survivors : os[q] = "zombie"
    IN
    /\ Walking(t, "verdict")
    /\ os' = IF zombie THEN reaped({p}) ELSE os
    /\ IF survivors = {} \/ zombie
       THEN Mark(p, "killed") /\ NextRecord(t, p)
       ELSE Mark(p, "failed") /\ AbandonRecords(t, p)
    /\ UNCHANGED <<spawning, reaper>>

\* A zombie among the survivors settles the record as killed; otherwise a survivor
\* makes it failed, and the walk remembers the ProcessTerminationError.
Verdict(t) ==
    LET p == walk[t].target
        survivors == walk[t].tree
        zombie == \E q \in survivors : os[q] = "zombie"
    IN
    /\ Walking(t, "verdict")
    /\ os' = IF zombie THEN reaped({p}) ELSE os
    /\ IF survivors = {} \/ zombie
       THEN Mark(p, "killed") /\ NextRecord(t, p)
       ELSE Mark(p, "failed") /\ NextRecordFailed(t, p)
    /\ UNCHANGED <<spawning, reaper>>

\* Every walk stops the reaper when it ends; the caller sees walk[t].error raised.
EndWalk(t) ==
    /\ Walking(t, "next")
    /\ walk[t].todo = {}
    /\ reaper' = FALSE
    /\ Turn(t, "ended")
    /\ UNCHANGED <<os, registry, spawning>>

WalkStep(t) ==
    \/ \E p \in Roots : Skip(t, p) \/ AccessDenied(t, p) \/ SnapshotTree(t, p)
    \/ Terminate(t)
    \/ TerminateRefused(t)
    \/ GracePeriod(t)
    \/ Kill(t)
    \/ FollowUp(t)
    \/ Verdict(t)
    \/ EndWalk(t)

ProcessStep(p) == ProcessExits(p) \/ ProcessForks(p) \/ ProcessCollects(p)
=============================================================================
