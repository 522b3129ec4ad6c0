------------------------- MODULE InterruptShutdown --------------------------
(***************************************************************************)
(* The end of a run: Ctrl+C while it works, while it shuts down and while  *)
(* it cleans up, or its normal end.  Composes the process registry with    *)
(* the interrupt dispatcher and controller (interrupt/dispatcher.py,       *)
(* interrupt/controller.py), the signal handlers of handle_keyboard_       *)
(* interrupt (pipeline/_runner_interrupt.py), the cleanup of the run loop, *)
(* the CLI's own handler and the atexit teardown.                          *)
(*                                                                         *)
(* Three threads matter: "main" (which also runs the signal handlers),     *)
(* "interrupt" (the daemon thread of the first Ctrl+C) and "background",   *)
(* any other thread that still spawns, such as a supervisor restarting a   *)
(* server.                                                                 *)
(***************************************************************************)
EXTENDS ProcessManager

CONSTANTS
    MaxPresses,   \* bound: interrupts the user sends
    Background    \* spawned processes that a background thread starts

ASSUME InterruptAssumption ==
    /\ Threads = {"main", "interrupt"}
    /\ MaxPresses \in Nat
    /\ Background \subseteq Roots

VARIABLES
    main,          \* where the main thread is
    call,          \* per thread: progress of dispatcher.begin_interrupt or force_exit
    force_called,  \* _force_exit_called of the run loop's dispatcher and of the CLI's
    presses,       \* interrupts so far
    escaping,      \* a KeyboardInterrupt is on its way to the CLI
    saved,         \* the interrupted checkpoint was written
    code           \* exit code, "none" while Ralph runs

control == <<main, call, force_called, presses, escaping, saved, code>>
vars == <<manager, control>>

Init ==
    /\ ManagerInit
    /\ main = "running"
    /\ call = [t \in Threads |-> "none"]
    /\ force_called = [d \in {"loop", "cli"} |-> FALSE]
    /\ presses = 0
    /\ escaping = FALSE
    /\ saved = FALSE
    /\ code = "none"

Up == code = "none"

\* handle_keyboard_interrupt builds one dispatcher, the CLI's catch another.
dispatcher(t) == IF t = "main" /\ main = "cli" THEN "cli" ELSE "loop"

Ended(t) == walk[t].stage = "ended"

-----------------------------------------------------------------------------
(* The dispatcher, called by thread t.                                     *)

\* controller.begin_interrupt: record it, then shutdown_all_for_label("invoke:").
\* begin_interrupt does not wait for the others when that raised.
LabelWalkEnds(t) ==
    /\ Up
    /\ call[t] = "label"
    /\ Ended(t)
    /\ call' = [call EXCEPT ![t] = IF walk[t].error THEN "raised" ELSE "drain"]
    /\ UNCHANGED <<manager, main, force_called, presses, escaping, saved, code>>

\* _wait_for_list_active_empty
Drained(t) ==
    /\ Up
    /\ call[t] = "drain"
    /\ list_active = {}
    /\ call' = [call EXCEPT ![t] = "returned"]
    /\ UNCHANGED <<manager, main, force_called, presses, escaping, saved, code>>

\* force_exit: the first caller walks over everything, any other returns.
force_exit(t, otherwise) ==
    LET d == dispatcher(t) IN
    IF force_called[d]
    THEN /\ call' = [call EXCEPT ![t] = otherwise]
         /\ UNCHANGED <<os, registry, walk, force_called>>
    ELSE /\ force_called' = [force_called EXCEPT ![d] = TRUE]
         /\ call' = [call EXCEPT ![t] = "force"]
         /\ StartWalk(t, FALSE)

DrainForever(t) == FALSE

\* The grace period elapses with records still active.
DrainDeadline(t) ==
    /\ Up
    /\ call[t] = "drain"
    /\ list_active # {}
    /\ force_exit(t, "returned")
    /\ UNCHANGED <<spawning, reaper, main, presses, escaping, saved, code>>

\* force_interrupt raised: force_exit never reaches the exit callable.
ForceFails(t) ==
    /\ Up
    /\ call[t] \in {"force", "exit"}
    /\ Ended(t)
    /\ walk[t].error
    /\ call' = [call EXCEPT ![t] = "raised"]
    /\ UNCHANGED <<manager, main, force_called, presses, escaping, saved, code>>

\* controller.force_exit walks once more before it exits.
ForceAgain(t) ==
    /\ Up
    /\ call[t] = "force"
    /\ Ended(t)
    /\ ~walk[t].error
    /\ call' = [call EXCEPT ![t] = "exit"]
    /\ StartWalk(t, FALSE)
    /\ UNCHANGED <<spawning, reaper, main, force_called, presses, escaping, saved, code>>

HardExit(t) ==
    /\ Up
    /\ call[t] = "exit"
    /\ Ended(t)
    /\ ~walk[t].error
    /\ code' = "130"
    /\ UNCHANGED <<manager, main, call, force_called, presses, escaping, saved>>

DispatcherStep(t) ==
    \/ LabelWalkEnds(t)
    \/ Drained(t)
    \/ DrainDeadline(t)
    \/ ForceFails(t)
    \/ ForceAgain(t)
    \/ HardExit(t)

-----------------------------------------------------------------------------
(* The main thread.                                                        *)

\* A Ctrl+C in the run loop.  Whatever main was doing is abandoned, a spawn between
\* two of its steps included.
FirstPress ==
    /\ Up
    /\ main = "running"
    /\ presses < MaxPresses
    /\ presses' = presses + 1
    /\ main' = "interrupted"
    /\ UNCHANGED <<manager, call, force_called, escaping, saved, code>>

\* The force handlers are installed, the interrupt thread starts, main waits for it.
handle_keyboard_interrupt ==
    /\ Up
    /\ main = "interrupted"
    /\ main' = "waiting"
    /\ call' = [call EXCEPT !["interrupt"] = "label"]
    /\ StartWalk("interrupt", TRUE)
    /\ UNCHANGED <<spawning, reaper, force_called, presses, escaping, saved, code>>

\* The handler that install_force_kill_handler put in place runs on the main thread.
PressWhileWaiting ==
    /\ Up
    /\ main = "waiting"
    /\ call["main"] = "none"
    /\ presses < MaxPresses
    /\ presses' = presses + 1
    /\ force_exit("main", "none")
    /\ UNCHANGED <<spawning, reaper, main, escaping, saved, code>>

\* The handler raised: the exception leaves handle_keyboard_interrupt and the run loop.
HandlerRaises ==
    /\ Up
    /\ main = "waiting"
    /\ call["main"] = "raised"
    /\ main' = "cleanup"
    /\ call' = [call EXCEPT !["main"] = "none"]
    /\ StartWalk("main", FALSE)
    /\ UNCHANGED <<spawning, reaper, force_called, presses, escaping, saved, code>>

StopWaitingRaising ==
    /\ Up
    /\ main = "waiting"
    /\ call["main"] = "none"
    /\ call["interrupt"] \in {"returned", "raised"}
    /\ IF call["interrupt"] = "returned"
       THEN main' = "save" /\ UNCHANGED <<os, registry, walk>>
       ELSE main' = "cleanup" /\ StartWalk("main", FALSE)
    /\ UNCHANGED <<spawning, reaper, call, force_called, presses, escaping, saved, code>>

\* interrupt_done is set whether the shutdown block returned or raised.
StopWaiting ==
    /\ Up
    /\ main = "waiting"
    /\ call["main"] = "none"
    /\ call["interrupt"] \in {"returned", "raised"}
    /\ main' = "save"
    /\ UNCHANGED <<manager, call, force_called, presses, escaping, saved, code>>

Save ==
    /\ Up
    /\ main = "save"
    /\ saved' = TRUE
    /\ main' = "cleanup"
    /\ StartWalk("main", FALSE)
    /\ UNCHANGED <<spawning, reaper, call, force_called, presses, escaping, code>>

MainSpawns == \E p \in Roots \ Background : spawning[p] \in {"forked", "registered"}

\* process_phase_scope: a walk over the processes labelled with the phase, of which
\* there are none here, after every phase.
PhaseEnds ==
    /\ Up
    /\ main = "running"
    /\ ~MainSpawns
    /\ Reconcile
    /\ reaper' = FALSE
    /\ UNCHANGED <<spawning, walk, control>>

\* The run ends by itself.
Finish ==
    /\ Up
    /\ main = "running"
    /\ ~MainSpawns
    /\ main' = "cleanup"
    /\ StartWalk("main", FALSE)
    /\ UNCHANGED <<spawning, reaper, call, force_called, presses, escaping, saved, code>>

\* Without the force handlers Ctrl+C raises KeyboardInterrupt again: it reaches the CLI
\* after the cleanup, or at once when the cleanup itself was interrupted.
PressUnhandled ==
    /\ Up
    /\ main \in {"interrupted", "save"}
    /\ presses < MaxPresses
    /\ presses' = presses + 1
    /\ escaping' = TRUE
    /\ main' = "cleanup"
    /\ StartWalk("main", FALSE)
    /\ UNCHANGED <<spawning, reaper, call, force_called, saved, code>>

AtCli ==
    /\ main' = "cli"
    /\ call' = [call EXCEPT !["main"] = "label"]
    /\ StartWalk("main", TRUE)

PressWhileCleaning ==
    /\ Up
    /\ main = "cleanup"
    /\ presses < MaxPresses
    /\ presses' = presses + 1
    /\ AtCli
    /\ reaper' = FALSE
    /\ escaping' = FALSE
    /\ UNCHANGED <<spawning, force_called, saved, code>>

\* _cleanup_pipeline logs what its last step raised.
CleanupEnds ==
    /\ Up
    /\ main = "cleanup"
    /\ Ended("main")
    /\ IF escaping
       THEN AtCli
       ELSE main' = "atexit" /\ StartWalk("main", FALSE) /\ UNCHANGED call
    /\ escaping' = FALSE
    /\ UNCHANGED <<spawning, reaper, force_called, presses, saved, code>>

\* handle_keyboard_interrupt_at_cli returned or raised an Exception.
CliEnds ==
    /\ Up
    /\ main = "cli"
    /\ call["main"] \in {"returned", "raised"}
    /\ main' = "atexit"
    /\ StartWalk("main", FALSE)
    /\ UNCHANGED <<spawning, reaper, call, force_called, presses, escaping, saved, code>>

\* A KeyboardInterrupt inside the CLI's own handler is not caught.
PressAtCli ==
    /\ Up
    /\ main = "cli"
    /\ call["main"] \notin {"returned", "raised"}
    /\ presses < MaxPresses
    /\ presses' = presses + 1
    /\ main' = "atexit"
    /\ call' = [call EXCEPT !["main"] = "raised"]
    /\ StartWalk("main", FALSE)
    /\ reaper' = (reaper /\ call["main"] = "drain")
    /\ UNCHANGED <<spawning, force_called, escaping, saved, code>>

\* _atexit_shutdown swallows everything, and the interpreter is gone.
Exit ==
    /\ Up
    /\ main = "atexit"
    /\ Ended("main")
    /\ code' = "end"
    /\ UNCHANGED <<manager, main, call, force_called, presses, escaping, saved>>

PressAtExit ==
    /\ Up
    /\ main = "atexit"
    /\ presses < MaxPresses
    /\ presses' = presses + 1
    /\ code' = "end"
    /\ UNCHANGED <<manager, main, call, force_called, escaping, saved>>

MainStep ==
    \/ handle_keyboard_interrupt
    \/ HandlerRaises
    \/ StopWaiting
    \/ Save
    \/ CleanupEnds
    \/ CliEnds
    \/ Exit

Press ==
    \/ FirstPress
    \/ PressWhileWaiting
    \/ PressUnhandled
    \/ PressWhileCleaning
    \/ PressAtCli
    \/ PressAtExit

\* The main thread spawns while the run works, a background thread at any time.
Spawns(p) == Up /\ (p \in Background \/ main = "running")

Spawn(p) ==
    /\ Spawns(p)
    /\ Fork(p) \/ Register(p) \/ Track(p)
    /\ UNCHANGED control

WalkOn(t) == Up /\ WalkStep(t) /\ UNCHANGED control

ThreadStep == MainStep \/ \E t \in Threads : WalkOn(t) \/ DispatcherStep(t)

Reap == Up /\ _zombie_reaper_loop /\ UNCHANGED control

Next ==
    \/ ThreadStep
    \/ Press
    \/ PhaseEnds
    \/ Finish
    \/ \E p \in Roots :
          \/ Spawn(p)
          \/ Up /\ poll(p) /\ UNCHANGED control
    \/ Reap
    \/ \E p \in Procs : Up /\ ProcessStep(p) /\ UNCHANGED control

Spec == Init /\ [][Next]_vars

\* Every wait of these threads has a timeout, so as long as one of them has a step to
\* make, some step is made.
FairSpec == Spec /\ WF_vars(ThreadStep)

-----------------------------------------------------------------------------
(* What the shutdown promises.                                             *)

\* The registry, the walks and the threads keep to their values: a walk only ever
\* signals processes.
TypeOK ==
    /\ os \in [Procs -> {"none", "alive", "zombie", "gone"}]
    /\ status \in [Roots -> {"none", "running"} \cup _TERMINAL_STATUSES]
    /\ records \subseteq Roots
    /\ procs \subseteq Roots
    /\ spawning \in [Roots -> {"none", "forked", "registered", "returned"}]
    /\ reaper \in BOOLEAN
    /\ walk \in [Threads -> [stage : {"idle", "next", "terminate", "grace", "kill",
                                      "follow_up", "verdict", "ended"},
                             todo : SUBSET Roots, seen : SUBSET Roots,
                             target : Roots \cup {Ralph}, owned : BOOLEAN,
                             tree : SUBSET Procs, error : BOOLEAN, refused : BOOLEAN]]
    /\ main \in {"running", "interrupted", "waiting", "save", "cleanup", "cli", "atexit"}
    /\ call \in [Threads -> {"none", "label", "drain", "force", "exit", "raised", "returned"}]
    /\ force_called \in [{"loop", "cli"} -> BOOLEAN]
    /\ presses \in 0 .. MaxPresses
    /\ escaping \in BOOLEAN
    /\ saved \in BOOLEAN
    /\ code \in {"none", "130", "end"}

\* _records holds exactly the processes without a verdict, however many threads mark.
RecordsAreActive == records = {p \in Roots : status[p] = "running"}

\* A process is on record as ended only when it ended (unless it is one that outlives
\* SIGKILL, or one whose liveness check failed, which reconciliation takes for dead), and
\* as a failed termination only when one of its tree could not be read or stopped.
RecordsTellTheTruth ==
    \A p \in Roots :
        /\ status[p] \in {"exited", "killed"} /\ p \notin Stuck \cup Unknown => os[p] \in Dead
        /\ status[p] = "failed" => p \in Denied \/ \E q \in Stuck : q = p \/ Parent[q] = p

\* A process that could not be read, or outlives its SIGKILL, does not keep its siblings
\* alive: every walk settles every record of its snapshot, however many terminations fail
\* on the way.  The one exception is a walk that was refused the right to signal: it ends
\* at a live process that Ralph was not permitted to signal and leaves its record active.
NoSiblingIsStranded ==
    \A t \in Threads :
        /\ walk[t].stage = "ended" /\ ~walk[t].refused =>
              \A p \in walk[t].seen : status[p] \in _TERMINAL_STATUSES
        /\ walk[t].refused => walk[t].seen \cap Foreign # {}

\* Of two threads that terminate the same process, and the reaper and the handle's owner,
\* the first verdict stands: no record is ever written twice.
TerminalIsFinal ==
    [][\A p \in Roots : status[p] \in _TERMINAL_STATUSES => status'[p] = status[p]]_vars

\* A run that was interrupted once and came to an orderly end left its checkpoint, also
\* when the shutdown of its processes raised.
OnePressPauses == presses = 1 /\ code = "end" /\ call["interrupt"] # "none" => saved

\* An interrupted run comes to its end, also when processes ignore every signal and
\* others keep running past the grace period.
InterruptedRunEnds == (presses > 0) ~> (code # "none")
=============================================================================
