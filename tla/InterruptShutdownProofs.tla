----------------------- MODULE InterruptShutdownProofs ----------------------
(***************************************************************************)
(* The safety of InterruptShutdown for every set of processes, every       *)
(* choice of the ones that outlive a signal, may not be signalled or       *)
(* cannot be read, and every number of interrupts.                         *)
(*                                                                         *)
(* ManagerInv is about the registry, the operating system and the walks;   *)
(* every action of the run touches them through one of the operations of   *)
(* ProcessManager, so there is one lemma per operation.  ControlInv is     *)
(* about where the threads are and does not look at the processes.         *)
(***************************************************************************)
EXTENDS InterruptShutdown, TLAPS

Mid == {"terminate", "grace", "kill", "follow_up", "verdict"}

WalkType == [stage : {"idle", "next", "ended"} \cup Mid,
             todo : SUBSET Roots, seen : SUBSET Roots,
             target : Roots \cup {Ralph}, owned : BOOLEAN,
             tree : SUBSET Procs, error : BOOLEAN, refused : BOOLEAN]

OsType == os \in [Procs -> {"none", "alive", "zombie", "gone"}]

RegistryType ==
    /\ status \in [Roots -> {"none", "running"} \cup _TERMINAL_STATUSES]
    /\ records \subseteq Roots
    /\ procs \subseteq Roots

SpawnType ==
    /\ spawning \in [Roots -> {"none", "forked", "registered", "returned"}]
    /\ reaper \in BOOLEAN

\* Zombies of others have a living parent.
ZombieInv == \A c \in Procs \ Roots : os[c] = "zombie" => os[Parent[c]] = "alive"

\* A process exists from its fork on and has a record from its registration on.
SpawnInv ==
    /\ \A p \in Roots : spawning[p] = "none" <=> os[p] = "none"
    /\ \A p \in Roots : spawning[p] \in {"none", "forked"} <=> status[p] = "none"

Terminal(p) == status[p] \in _TERMINAL_STATUSES

Family(p) == {q \in Procs : q = p \/ Parent[q] = p}

\* The progress of one walk.  After the kill only stuck processes are left of a tree, and
\* a zombie is left only under a stuck parent.
WalkOK(w) ==
    /\ w.todo \subseteq w.seen
    /\ \A p \in w.seen : status[p] # "none" /\ (p \in w.todo \/ Terminal(p) \/ w.refused)
    /\ w.refused => \E p \in w.seen : p \in Foreign
    /\ w.stage = "ended" => w.todo = {}
    /\ w.stage \in Mid => w.target \in w.todo /\ w.tree \subseteq Family(w.target)
    /\ w.stage \in Mid => \A q \in w.tree : os[q] # "none"
    /\ w.stage \in {"terminate", "grace"} => w.target \in w.tree
    /\ w.stage = "kill" => w.target \in w.tree \/ os[w.target] \in Dead
    /\ w.stage \in {"follow_up", "verdict"} =>
          \A q \in w.tree \cup {w.target} : q \in Stuck \/ os[q] \in Dead
    /\ w.stage = "verdict" => \A q \in w.tree : q \in Stuck \/ w.target \in Stuck

TableInv ==
    /\ OsType
    /\ RegistryType
    /\ SpawnType
    /\ ZombieInv
    /\ SpawnInv
    /\ RecordsAreActive
    /\ RecordsTellTheTruth

ManagerInv ==
    /\ TableInv
    /\ walk \in [Threads -> WalkType]
    /\ \A t \in Threads : WalkOK(walk[t])

\* A single interrupt leads to the save: nothing else calls the dispatcher meanwhile.
ControlInv ==
    /\ main \in {"running", "interrupted", "waiting", "save", "cleanup", "cli", "atexit"}
    /\ call \in [Threads -> {"none", "label", "drain", "force", "exit", "raised", "returned"}]
    /\ force_called \in [{"loop", "cli"} -> BOOLEAN]
    /\ presses \in 0 .. MaxPresses
    /\ escaping \in BOOLEAN
    /\ saved \in BOOLEAN
    /\ code \in {"none", "130", "end"}
    /\ presses = 0 => call["interrupt"] = "none"
    /\ main \in {"interrupted", "waiting", "save"} => presses > 0
    /\ main \in {"running", "interrupted"} => call["main"] = "none"
    /\ main = "waiting" /\ presses <= 1 => call["main"] = "none"
    /\ call["interrupt"] # "none" /\ presses = 1 /\ ~saved =>
          main \in {"waiting", "save"} /\ code # "end"

IInv == ManagerInv /\ ControlInv

-----------------------------------------------------------------------------
(* What no step undoes, and the walks that rest on it.                     *)

\* The dead stay dead, a forked process stays known, and a verdict stands.
Keeps ==
    /\ \A q \in Procs : os[q] \in Dead => os'[q] \in Dead
    /\ \A q \in Procs : os[q] # "none" => os'[q] # "none"
    /\ \A p \in Roots : Terminal(p) => status'[p] = status[p]
    /\ \A p \in Roots : status[p] # "none" => status'[p] # "none"

LEMMA RootsAreProcs == Roots \subseteq Procs /\ \A p \in Roots : Parent[p] = Ralph
  BY DEF Roots

LEMMA WalkStays ==
    ASSUME Keeps, NEW w \in WalkType, WalkOK(w)
    PROVE  WalkOK(w)'
<1>1. w.seen \subseteq Roots /\ w.todo \subseteq Roots /\ w.tree \subseteq Procs
  BY DEF WalkType
<1>2. w.stage \in Mid => w.target \in Procs
  BY <1>1, RootsAreProcs DEF WalkOK
<1>3. \A p \in w.seen : (status[p] # "none" => status'[p] # "none") /\ (Terminal(p) => Terminal(p)')
  BY <1>1 DEF Keeps, Terminal
<1>4. \A q \in w.tree : (os[q] # "none" => os'[q] # "none") /\ (os[q] \in Dead => os'[q] \in Dead)
  BY <1>1 DEF Keeps
<1>5. w.stage \in Mid /\ os[w.target] \in Dead => os'[w.target] \in Dead
  BY <1>2 DEF Keeps
<1> QED BY <1>3, <1>4, <1>5 DEF WalkOK, Mid

\* The walks after a step that changes at most the one of thread t.
LEMMA OneWalkMoves ==
    ASSUME Keeps, walk \in [Threads -> WalkType], \A u \in Threads : WalkOK(walk[u]),
           NEW t \in Threads, NEW w \in WalkType, walk' = [walk EXCEPT ![t] = w], WalkOK(w)'
    PROVE  walk' \in [Threads -> WalkType] /\ \A u \in Threads : WalkOK(walk[u])'
<1>1. walk' \in [Threads -> WalkType]
  OBVIOUS
<1>2. ASSUME NEW u \in Threads PROVE WalkOK(walk[u])'
  <2>1. CASE u = t
    <3>1. walk'[u] = w
      BY <2>1
    <3> QED BY <3>1 DEF WalkOK, Terminal
  <2>2. CASE u # t
    <3>1. walk'[u] = walk[u] /\ walk[u] \in WalkType /\ WalkOK(walk[u])
      BY <2>2
    <3> DEFINE v == walk[u]
    <3>2. WalkOK(v)'
      BY <3>1, WalkStays
    <3> QED BY <3>1, <3>2 DEF WalkOK, Terminal
  <2> QED BY <2>1, <2>2
<1> QED BY <1>1, <1>2

LEMMA NoWalkMoves ==
    ASSUME Keeps, walk \in [Threads -> WalkType], \A u \in Threads : WalkOK(walk[u]),
           UNCHANGED walk
    PROVE  \A u \in Threads : WalkOK(walk[u])'
<1>1. ASSUME NEW u \in Threads PROVE WalkOK(walk[u])'
  <2>1. walk'[u] = walk[u] /\ walk[u] \in WalkType /\ WalkOK(walk[u])
    OBVIOUS
  <2> QED BY <2>1, WalkStays DEF WalkOK, Terminal
<1> QED BY <1>1

-----------------------------------------------------------------------------
(* The operating system.                                                   *)

\* What a death or a collection does to the table of processes.
OsMoves ==
    /\ OsType'
    /\ ZombieInv'
    /\ \A q \in Procs : os[q] \in Dead => os'[q] \in Dead
    /\ \A q \in Procs : os[q] = "none" <=> os'[q] = "none"

LEMMA DiedMoves ==
    ASSUME OsType, ZombieInv, NEW S \in SUBSET Procs, \A q \in S : os[q] = "alive", os' = died(S)
    PROVE  OsMoves /\ \A q \in S : os'[q] \in Dead
<1>1. /\ \A q \in S : os'[q] \in {"zombie", "gone"}
      /\ \A q \in Procs \ S : os'[q] = os[q] \/ (os[q] = "zombie" /\ os'[q] = "gone")
      /\ os' \in [Procs -> {"none", "alive", "zombie", "gone"}]
  BY DEF died, OsType
<1>2. ZombieInv'
  <2> SUFFICES ASSUME NEW c \in Procs \ Roots, os'[c] = "zombie" PROVE os'[Parent[c]] = "alive"
    BY DEF ZombieInv
  <2>1. Parent[c] \in Roots /\ Parent[c] \in Procs /\ Parent[c] # Ralph
    BY ProcessAssumption DEF Roots
  <2>2. os[Parent[c]] = "alive" /\ Parent[c] \notin S
    <3>1. CASE c \in S
      BY <3>1, <2>1 DEF died
    <3>2. CASE c \notin S
      BY <3>2, <2>1 DEF died, ZombieInv
    <3> QED BY <3>1, <3>2
  <2> QED BY <2>1, <2>2, <1>1
<1> QED BY <1>1, <1>2 DEF OsMoves, OsType, Dead

LEMMA ReapedMoves ==
    ASSUME OsType, ZombieInv, NEW S, os' = reaped(S)
    PROVE  /\ OsMoves
           /\ \A q \in Procs : os'[q] = "alive" <=> os[q] = "alive"
           /\ \A q \in S \cap Roots : os'[q] # "zombie"
           /\ \A q \in Procs \ Roots : os'[q] = os[q]
<1>1. /\ os' \in [Procs -> {"none", "alive", "zombie", "gone"}]
      /\ \A q \in Procs : os'[q] = os[q] \/ (os[q] = "zombie" /\ os'[q] = "gone")
      /\ \A q \in S \cap Roots : os'[q] # "zombie"
      /\ \A q \in Procs \ Roots : os'[q] = os[q]
  BY RootsAreProcs DEF reaped, OsType
<1>2. ZombieInv'
  <2> SUFFICES ASSUME NEW c \in Procs \ Roots, os'[c] = "zombie" PROVE os'[Parent[c]] = "alive"
    BY DEF ZombieInv
  <2>1. Parent[c] \in Procs /\ os[c] = "zombie"
    BY <1>1, ProcessAssumption DEF Roots
  <2> QED BY <2>1, <1>1 DEF ZombieInv
<1> QED BY <1>1, <1>2 DEF OsMoves, OsType, Dead

LEMMA UnchangedMoves ==
    ASSUME OsType, ZombieInv, UNCHANGED os
    PROVE  OsMoves
  BY DEF OsMoves, OsType, ZombieInv

-----------------------------------------------------------------------------
(* The registry.                                                           *)

\* What marking does to the registry: verdicts stand, records are the running ones, and
\* nobody but the processes in S gets a verdict.
RegistryMoves(S) ==
    /\ RegistryType'
    /\ RecordsAreActive'
    /\ \A q \in Roots : Terminal(q) => status'[q] = status[q]
    /\ \A q \in Roots : status[q] = "none" <=> status'[q] = "none"
    /\ \A q \in Roots \ S : status'[q] = status[q]

LEMMA MarkMoves ==
    ASSUME RegistryType, RecordsAreActive, NEW p \in Roots, status[p] # "none",
           NEW verdict \in _TERMINAL_STATUSES, Mark(p, verdict)
    PROVE  /\ RegistryMoves({p})
           /\ Terminal(p)'
           /\ Terminal(p) \/ status'[p] = verdict
<1>1. CASE Terminal(p)
  <2>1. UNCHANGED <<status, records, procs>>
    BY <1>1 DEF Mark, Terminal, registry
  <2> QED BY <1>1, <2>1 DEF RegistryMoves, RegistryType, RecordsAreActive, Terminal
<1>2. CASE ~Terminal(p)
  <2>1. /\ status' = [status EXCEPT ![p] = verdict]
        /\ records' = records \ {p}
        /\ procs' = procs \ {p}
    BY <1>2 DEF Mark, Terminal
  <2>2. verdict # "none" /\ verdict # "running"
    BY DEF _TERMINAL_STATUSES
  <2>3. RegistryType'
    BY <2>1 DEF RegistryType
  <2>4. RecordsAreActive'
    BY <2>1, <2>2 DEF RegistryType, RecordsAreActive
  <2>5. \A q \in Roots \ {p} : status'[q] = status[q]
    BY <2>1 DEF RegistryType
  <2>6. status'[p] = verdict
    BY <2>1 DEF RegistryType
  <2> QED BY <1>2, <2>2, <2>3, <2>4, <2>5, <2>6 DEF RegistryMoves, Terminal
<1> QED BY <1>1, <1>2

\* What a reconciliation marks: active records of processes that are dead or whose
\* liveness check failed.
Reconciled(stale) ==
    /\ \A q \in stale : q \in Roots /\ status[q] = "running" /\ (os[q] \in Dead \/ q \in Unknown)
    /\ status' = [p \in Roots |-> IF p \in stale THEN "killed" ELSE status[p]]
    /\ records' = records \ stale
    /\ procs' = procs \ stale

LEMMA ReconcileMarks ==
    ASSUME RegistryType, Reconcile
    PROVE  \E stale, S : Reconciled(stale) /\ os' = reaped(S)
<1>1. PICK unknown \in SUBSET (list_active \cap Unknown) :
         LET stale == Stale \cup unknown IN
         /\ os' = reaped((stale \ unknown) \cap procs)
         /\ status' = [p \in Roots |-> IF p \in stale THEN "killed" ELSE status[p]]
         /\ records' = records \ stale
         /\ procs' = procs \ stale
  BY Zenon DEF Reconcile
<1> DEFINE marked == Stale \cup unknown
<1>2. \A q \in marked : q \in Roots /\ status[q] = "running" /\ (os[q] \in Dead \/ q \in Unknown)
  BY DEF Stale, list_active, RegistryType
<1>3. Reconciled(marked) /\ os' = reaped((marked \ unknown) \cap procs)
  BY <1>1, <1>2, Zenon DEF Reconciled
<1> QED BY <1>3, Zenon

LEMMA ReconcileMoves ==
    ASSUME RegistryType, RecordsAreActive, NEW stale, Reconciled(stale)
    PROVE  /\ RegistryMoves(stale)
           /\ \A q \in stale : status'[q] = "killed"
<1>1. /\ status' = [p \in Roots |-> IF p \in stale THEN "killed" ELSE status[p]]
      /\ records' = records \ stale
      /\ procs' = procs \ stale
      /\ stale \subseteq Roots
      /\ \A q \in stale : status[q] = "running"
  BY DEF Reconciled
<1>2. RegistryType'
  BY <1>1 DEF RegistryType, _TERMINAL_STATUSES
<1>3. RecordsAreActive'
  BY <1>1 DEF RegistryType, RecordsAreActive
<1>4. \A q \in Roots : Terminal(q) => status'[q] = status[q]
  BY <1>1 DEF Terminal, _TERMINAL_STATUSES
<1>5. \A q \in Roots : status[q] = "none" <=> status'[q] = "none"
  BY <1>1
<1> QED BY <1>1, <1>2, <1>3, <1>4, <1>5 DEF RegistryMoves

LEMMA UnchangedRegistry ==
    ASSUME RegistryType, RecordsAreActive, UNCHANGED registry
    PROVE  RegistryMoves({})
  BY DEF RegistryMoves, RegistryType, RecordsAreActive, registry

-----------------------------------------------------------------------------
(* The table after a step.                                                 *)

Truthful(p) ==
    /\ status[p] \in {"exited", "killed"} /\ p \notin Stuck \cup Unknown => os[p] \in Dead
    /\ status[p] = "failed" => p \in Denied \/ \E q \in Stuck : q = p \/ Parent[q] = p

LEMMA TableMoves ==
    ASSUME TableInv, OsMoves, NEW S, RegistryMoves(S), UNCHANGED spawning, reaper' \in BOOLEAN,
           \A p \in S \cap Roots : Truthful(p)'
    PROVE  TableInv' /\ Keeps
<1>1. \A p \in Roots : Truthful(p)'
  <2> SUFFICES ASSUME NEW p \in Roots, p \notin S PROVE Truthful(p)'
    OBVIOUS
  <2>1. status'[p] = status[p] /\ Truthful(p) /\ (os[p] \in Dead => os'[p] \in Dead)
    BY RootsAreProcs DEF RegistryMoves, OsMoves, TableInv, RecordsTellTheTruth, Truthful
  <2> QED BY <2>1 DEF Truthful
<1>2. RecordsTellTheTruth'
  BY <1>1 DEF RecordsTellTheTruth, Truthful
<1>3. SpawnInv'
  BY RootsAreProcs DEF TableInv, SpawnInv, OsMoves, RegistryMoves
<1>4. SpawnType'
  BY DEF TableInv, SpawnType
<1>5. Keeps
  BY DEF Keeps, OsMoves, RegistryMoves
<1> QED BY <1>2, <1>3, <1>4, <1>5 DEF TableInv, OsMoves, RegistryMoves

\* Processes that end, are collected by their parent, or start a child of their own.
LEMMA ProcessStepKeeps ==
    ASSUME ManagerInv, NEW p \in Procs, ProcessStep(p)
    PROVE  ManagerInv' /\ Keeps
<1>0. TableInv /\ UNCHANGED registry /\ UNCHANGED <<spawning, reaper, walk>>
  BY DEF ManagerInv, ProcessStep, ProcessExits, ProcessForks, ProcessCollects
<1>1. RegistryMoves({})
  BY <1>0, UnchangedRegistry DEF TableInv
<1>2. CASE ProcessExits(p)
  <2>1. OsMoves
    BY <1>0, <1>2, DiedMoves DEF ProcessExits, TableInv
  <2>2. TableInv' /\ Keeps
    BY <1>0, <1>1, <2>1, TableMoves DEF TableInv, SpawnType
  <2> QED BY <1>0, <2>2, NoWalkMoves DEF ManagerInv
<1>3. CASE ProcessCollects(p)
  <2>1. os' = [os EXCEPT ![p] = "gone"] /\ os[p] = "zombie" /\ p \notin Roots
    BY <1>3 DEF ProcessCollects
  <2>2. OsMoves
    BY <1>0, <2>1, ProcessAssumption DEF OsMoves, OsType, TableInv, ZombieInv, Dead, Roots
  <2>3. TableInv' /\ Keeps
    BY <1>0, <1>1, <2>2, TableMoves DEF TableInv, SpawnType
  <2> QED BY <1>0, <2>3, NoWalkMoves DEF ManagerInv
<1>4. CASE ProcessForks(p)
  <2>1. os' = [os EXCEPT ![p] = "alive"] /\ os[p] = "none" /\ p \notin Roots
    BY <1>4 DEF ProcessForks
  <2>2. OsType' /\ ZombieInv'
    BY <1>0, <2>1, ProcessAssumption DEF OsType, TableInv, ZombieInv, Roots
  <2>3. \A q \in Roots : os'[q] = os[q]
    BY <1>0, <2>1, RootsAreProcs DEF OsType, TableInv
  <2>4. SpawnInv' /\ RecordsTellTheTruth' /\ RecordsAreActive' /\ RegistryType' /\ SpawnType'
    BY <1>0, <2>3 DEF TableInv, SpawnInv, RecordsTellTheTruth, RecordsAreActive, RegistryType,
                      SpawnType, registry
  <2>5. Keeps
    BY <1>0, <2>1 DEF Keeps, TableInv, OsType, registry, Dead
  <2>6. TableInv'
    BY <2>2, <2>4 DEF TableInv
  <2> QED BY <1>0, <2>5, <2>6, NoWalkMoves DEF ManagerInv
<1> QED BY <1>2, <1>3, <1>4 DEF ProcessStep

\* The three steps of a spawn.
LEMMA SpawnKeeps ==
    ASSUME ManagerInv, NEW p \in Roots, Fork(p) \/ Register(p) \/ Track(p)
    PROVE  ManagerInv' /\ Keeps
<1>0. TableInv /\ UNCHANGED walk
  BY DEF ManagerInv, Fork, Register, Track
<1>1. CASE Fork(p)
  <2>1. /\ os' = [os EXCEPT ![p] = "alive"] /\ spawning' = [spawning EXCEPT ![p] = "forked"]
        /\ UNCHANGED <<status, records, procs, reaper>>
        /\ os[p] = "none" /\ spawning[p] = "none" /\ status[p] = "none"
    BY <1>0, <1>1 DEF Fork, registry, TableInv, SpawnInv
  <2>2. OsType' /\ ZombieInv'
    BY <1>0, <2>1, ProcessAssumption, RootsAreProcs DEF OsType, TableInv, ZombieInv
  <2>3. SpawnType' /\ SpawnInv' /\ RegistryType'
    BY <1>0, <2>1, RootsAreProcs DEF TableInv, SpawnType, SpawnInv, RegistryType, OsType
  <2>4. RecordsAreActive' /\ RecordsTellTheTruth'
    BY <1>0, <2>1, RootsAreProcs DEF TableInv, RecordsAreActive, RecordsTellTheTruth, OsType
  <2>5. Keeps
    BY <1>0, <2>1, RootsAreProcs DEF Keeps, TableInv, OsType, Dead
  <2>6. TableInv'
    BY <2>2, <2>3, <2>4 DEF TableInv
  <2> QED BY <1>0, <2>5, <2>6, NoWalkMoves DEF ManagerInv
<1>2. CASE Register(p)
  <2>1. /\ status' = [status EXCEPT ![p] = "running"] /\ records' = records \cup {p}
        /\ spawning' = [spawning EXCEPT ![p] = "registered"]
        /\ UNCHANGED <<os, procs>>
        /\ spawning[p] = "forked" /\ status[p] = "none"
    BY <1>0, <1>2 DEF Register, TableInv, SpawnInv
  <2>2. reaper' \in BOOLEAN
    BY <1>0, <1>2 DEF Register, TableInv, SpawnType
  <2>3. OsType' /\ ZombieInv'
    BY <1>0, <2>1 DEF OsType, TableInv, ZombieInv
  <2>4. SpawnType' /\ SpawnInv' /\ RegistryType'
    BY <1>0, <2>1, <2>2 DEF TableInv, SpawnType, SpawnInv, RegistryType
  <2>5. RecordsAreActive' /\ RecordsTellTheTruth'
    BY <1>0, <2>1 DEF TableInv, RecordsAreActive, RecordsTellTheTruth, RegistryType
  <2>6. Keeps
    BY <1>0, <2>1 DEF Keeps, TableInv, RegistryType, Terminal, _TERMINAL_STATUSES
  <2>7. TableInv'
    BY <2>3, <2>4, <2>5 DEF TableInv
  <2> QED BY <1>0, <2>6, <2>7, NoWalkMoves DEF ManagerInv
<1>3. CASE Track(p)
  <2>1. /\ procs' = procs \cup {p} /\ spawning' = [spawning EXCEPT ![p] = "returned"]
        /\ UNCHANGED <<os, status, records, reaper>>
        /\ spawning[p] = "registered"
    BY <1>3 DEF Track
  <2>2. SpawnType' /\ SpawnInv' /\ RegistryType'
    BY <1>0, <2>1 DEF TableInv, SpawnType, SpawnInv, RegistryType
  <2>3. TableInv'
    BY <1>0, <2>1, <2>2 DEF TableInv, OsType, ZombieInv, RecordsAreActive, RecordsTellTheTruth
  <2>4. Keeps
    BY <2>1 DEF Keeps, Terminal
  <2> QED BY <1>0, <2>3, <2>4, NoWalkMoves DEF ManagerInv
<1> QED BY <1>1, <1>2, <1>3

LEMMA PollKeeps ==
    ASSUME ManagerInv, NEW p \in Roots, poll(p)
    PROVE  ManagerInv' /\ Keeps
<1>0. TableInv /\ UNCHANGED <<spawning, reaper, walk>> /\ os[p] \in Dead /\ Mark(p, "exited")
  BY DEF ManagerInv, poll
<1>1. OsMoves
  BY <1>0, ReapedMoves DEF poll, TableInv
<1>2. status[p] # "none" /\ "exited" \in _TERMINAL_STATUSES
  BY DEF poll, ManagerInv, TableInv, SpawnInv, _TERMINAL_STATUSES
<1>3. RegistryMoves({p}) /\ status'[p] = "exited"
  BY <1>0, <1>2, MarkMoves, Zenon DEF TableInv, poll, Terminal
<1>4. Truthful(p)'
  BY <1>0, <1>1, <1>3, RootsAreProcs DEF Truthful, OsMoves
<1>5. TableInv' /\ Keeps
  BY <1>0, <1>1, <1>3, <1>4, TableMoves DEF TableInv, SpawnType
<1> QED BY <1>0, <1>5, NoWalkMoves DEF ManagerInv

\* Reconciliation, by the reaper, at the end of a phase and at the start of a walk.
LEMMA ReconcileTable ==
    ASSUME TableInv, Reconcile, UNCHANGED spawning, reaper' \in BOOLEAN
    PROVE  TableInv' /\ Keeps
<1>0. PICK stale, S : Reconciled(stale) /\ os' = reaped(S)
  BY ReconcileMarks DEF TableInv
<1>1. OsMoves
  BY <1>0, ReapedMoves DEF TableInv
<1>2. RegistryMoves(stale) /\ \A q \in stale : status'[q] = "killed"
  BY <1>0, ReconcileMoves DEF TableInv
<1>3. \A q \in stale \cap Roots : Truthful(q)'
  <2> SUFFICES ASSUME NEW q \in stale \cap Roots PROVE Truthful(q)'
    OBVIOUS
  <2>1. status'[q] = "killed" /\ (os'[q] \in Dead \/ q \in Unknown)
    BY <1>0, <1>1, <1>2, RootsAreProcs DEF Reconciled, OsMoves
  <2> QED BY <2>1 DEF Truthful
<1> QED BY <1>1, <1>2, <1>3, TableMoves

LEMMA ReconcileKeeps ==
    ASSUME ManagerInv, Reconcile, UNCHANGED <<spawning, walk>>, reaper' \in BOOLEAN
    PROVE  ManagerInv' /\ Keeps
<1>1. TableInv' /\ Keeps
  BY ReconcileTable DEF ManagerInv
<1> QED BY <1>1, NoWalkMoves DEF ManagerInv

LEMMA StartWalkKeeps ==
    ASSUME ManagerInv, NEW t \in Threads, NEW agents_only \in BOOLEAN, StartWalk(t, agents_only),
           UNCHANGED spawning, reaper' \in BOOLEAN
    PROVE  ManagerInv' /\ Keeps
<1>1. TableInv' /\ Keeps
  BY ReconcileTable DEF ManagerInv, StartWalk
<1> DEFINE todo == IF agents_only THEN records' \cap Agents ELSE records'
           w == [NoWalk EXCEPT !.stage = "next", !.todo = todo, !.seen = todo]
<1>2. walk' = [walk EXCEPT ![t] = w]
  BY DEF StartWalk
<1>3. todo \subseteq records' /\ records' \subseteq Roots /\ \A q \in records' : status'[q] = "running"
  BY <1>1 DEF TableInv, RegistryType, RecordsAreActive
<1> HIDE DEF todo
<1>4. w \in WalkType /\ w.stage = "next" /\ w.todo = todo /\ w.seen = todo /\ w.refused = FALSE
  BY <1>3, Zenon DEF NoWalk, WalkType
<1> HIDE DEF w
<1>5. \A v : v = w => WalkOK(v)'
  BY <1>3, <1>4 DEF WalkOK, Mid
<1>6. PICK v : v = w
  OBVIOUS
<1>7. v \in WalkType /\ walk' = [walk EXCEPT ![t] = v] /\ WalkOK(v)'
  BY <1>2, <1>4, <1>5, <1>6
<1> QED BY <1>1, <1>7, OneWalkMoves, Zenon DEF ManagerInv

-----------------------------------------------------------------------------
(* The steps of a walk.                                                    *)

WalksFine == walk \in [Threads -> WalkType] /\ \A u \in Threads : WalkOK(walk[u])

\* A record is left behind once it has its verdict.
LEMMA ProceedMoves ==
    ASSUME WalksFine, Keeps, NEW t \in Threads, NEW p \in walk[t].todo, Terminal(p)',
           NEW error \in BOOLEAN, Proceed(t, walk[t].todo \ {p}, error)
    PROVE  WalksFine'
<1>1. PICK w : w = walk[t]
  OBVIOUS
<1>2. w \in WalkType /\ WalkOK(w)
  BY <1>1 DEF WalksFine
<1>3. WalkOK(w)'
  BY <1>2, WalkStays
<1>4. PICK v : v = [w EXCEPT !.stage = "next", !.todo = w.todo \ {p}, !.target = Ralph,
                             !.owned = FALSE, !.tree = {}, !.error = @ \/ error]
  OBVIOUS
<1>5. v \in WalkType /\ v.stage = "next" /\ v.todo = w.todo \ {p} /\ v.seen = w.seen /\ v.refused = w.refused
  BY <1>2, <1>4, Zenon DEF WalkType
<1>6. walk' = [walk EXCEPT ![t] = v]
  BY <1>1, <1>4, Zenon DEF Proceed, WalksFine
<1>7. WalkOK(v)'
  BY <1>3, <1>5, <1>1 DEF WalkOK, Mid
<1> QED BY <1>5, <1>6, <1>7, OneWalkMoves, Zenon DEF WalksFine

LEMMA SkipKeeps ==
    ASSUME ManagerInv, NEW t \in Threads, NEW p \in Roots, Skip(t, p) \/ AccessDenied(t, p)
    PROVE  ManagerInv' /\ Keeps
<1>0. /\ TableInv /\ WalksFine /\ UNCHANGED <<os, spawning, reaper>>
      /\ p \in walk[t].todo /\ status[p] # "none"
  BY Zenon DEF ManagerInv, WalksFine, Skip, AccessDenied, WalkOK
<1>1. OsMoves
  BY <1>0, UnchangedMoves DEF TableInv
<1>2. "killed" \in _TERMINAL_STATUSES /\ "failed" \in _TERMINAL_STATUSES
  BY DEF _TERMINAL_STATUSES
<1>3. CASE Skip(t, p)
  <2>1. RegistryMoves({p}) /\ Terminal(p)' /\ Truthful(p)'
    <3>1. CASE status[p] \in _TERMINAL_STATUSES /\ UNCHANGED registry
      <4>1. RegistryMoves({})
        BY <1>0, <3>1, UnchangedRegistry DEF TableInv
      <4>2. Truthful(p)
        BY <1>0 DEF TableInv, RecordsTellTheTruth, Truthful
      <4> QED BY <1>0, <3>1, <4>1, <4>2 DEF RegistryMoves, Terminal, Truthful, registry
    <3>2. CASE os[p] = "gone" /\ Mark(p, "killed")
      <4>1. RegistryMoves({p}) /\ Terminal(p)' /\ (Terminal(p) \/ status'[p] = "killed")
        BY <1>0, <1>2, <3>2, MarkMoves, ZenonT(60) DEF TableInv
      <4>2. status'[p] = status[p] \/ status'[p] = "killed"
        BY <4>1 DEF RegistryMoves
      <4> QED BY <1>0, <3>2, <4>1, <4>2 DEF Truthful, TableInv, RecordsTellTheTruth, Dead
    <3> QED BY <1>3, <3>1, <3>2 DEF Skip
  <2>2. TableInv' /\ Keeps
    BY <1>0, <1>1, <2>1, TableMoves DEF TableInv, SpawnType
  <2>3. Proceed(t, walk[t].todo \ {p}, FALSE)
    BY <1>3, Zenon DEF Skip, NextRecord
  <2>4. WalksFine'
    BY <1>0, <2>1, <2>2, <2>3, ProceedMoves, Zenon
  <2> QED BY <2>2, <2>4 DEF ManagerInv, WalksFine
<1>4. CASE AccessDenied(t, p)
  <2>1. RegistryMoves({p}) /\ Terminal(p)' /\ status'[p] = "failed"
    BY <1>0, <1>2, <1>4, MarkMoves DEF TableInv, AccessDenied, Terminal
  <2>2. Truthful(p)'
    BY <1>4, <2>1 DEF Truthful, AccessDenied
  <2>3. TableInv' /\ Keeps
    BY <1>0, <1>1, <2>1, <2>2, TableMoves DEF TableInv, SpawnType
  <2>4. Proceed(t, walk[t].todo \ {p}, TRUE)
    BY <1>4, Zenon DEF AccessDenied, NextRecordFailed
  <2>5. WalksFine'
    BY <1>0, <2>1, <2>3, <2>4, ProceedMoves, Zenon
  <2> QED BY <2>3, <2>5 DEF ManagerInv, WalksFine
<1> QED BY <1>3, <1>4

LEMMA SnapshotKeeps ==
    ASSUME ManagerInv, NEW t \in Threads, NEW p \in Roots, SnapshotTree(t, p)
    PROVE  ManagerInv' /\ Keeps
<1>0. /\ TableInv /\ WalksFine /\ UNCHANGED <<os, registry, spawning, reaper>>
      /\ p \in walk[t].todo /\ status[p] # "none" /\ p \in Procs
  BY RootsAreProcs DEF ManagerInv, WalksFine, SnapshotTree, WalkOK
<1>1. TableInv' /\ Keeps
  <2>1. OsMoves /\ RegistryMoves({})
    BY <1>0, UnchangedMoves, UnchangedRegistry DEF TableInv
  <2> QED BY <1>0, <2>1, TableMoves DEF TableInv, SpawnType
<1>2. PICK w : w = walk[t]
  OBVIOUS
<1>3. w \in WalkType /\ WalkOK(w)
  BY <1>0, <1>2 DEF WalksFine
<1>4. WalkOK(w)'
  BY <1>1, <1>3, WalkStays
<1>5. PICK v : v = [w EXCEPT !.stage = "terminate", !.target = p, !.tree = Tree(p), !.owned = p \in procs]
  OBVIOUS
<1>6. /\ Tree(p) \subseteq Family(p) /\ p \in Tree(p)
      /\ \A q \in Tree(p) : os[q] # "none"
  <2>1. os[p] # "none"
    BY <1>0 DEF TableInv, SpawnInv
  <2> QED BY <2>1, <1>0 DEF Tree, Family
<1>7. /\ v \in WalkType /\ v.stage = "terminate" /\ v.todo = w.todo /\ v.seen = w.seen /\ v.refused = w.refused
      /\ v.target = p /\ v.tree = Tree(p)
  <2>1. Tree(p) \subseteq Procs
    BY <1>6 DEF Family
  <2>2. (p \in procs) \in BOOLEAN
    OBVIOUS
  <2> QED BY <1>3, <1>5, <2>1, <2>2, Zenon DEF WalkType, Mid
<1>8. walk' = [walk EXCEPT ![t] = v]
  BY <1>0, <1>2, <1>5, Zenon DEF SnapshotTree, WalksFine
<1>9. WalkOK(v)'
  BY <1>0, <1>2, <1>4, <1>6, <1>7 DEF WalkOK, Mid
<1>10. WalksFine'
  BY <1>0, <1>1, <1>7, <1>8, <1>9, OneWalkMoves, Zenon DEF WalksFine
<1> QED BY <1>1, <1>10 DEF ManagerInv, WalksFine

LEMMA EndWalkKeeps ==
    ASSUME ManagerInv, NEW t \in Threads, EndWalk(t)
    PROVE  ManagerInv' /\ Keeps
<1>0. TableInv /\ WalksFine /\ UNCHANGED <<os, registry, spawning>> /\ reaper' \in BOOLEAN
  BY Zenon DEF ManagerInv, WalksFine, EndWalk
<1>1. TableInv' /\ Keeps
  <2>1. OsMoves /\ RegistryMoves({})
    BY <1>0, UnchangedMoves, UnchangedRegistry DEF TableInv
  <2> QED BY <1>0, <2>1, TableMoves
<1>2. PICK w : w = walk[t]
  OBVIOUS
<1>3. w \in WalkType /\ WalkOK(w) /\ w.todo = {}
  BY <1>0, <1>2 DEF WalksFine, EndWalk
<1>4. WalkOK(w)'
  BY <1>1, <1>3, WalkStays
<1>5. PICK v : v = [w EXCEPT !.stage = "ended"]
  BY Zenon
<1>6. v \in WalkType /\ v.stage = "ended" /\ v.todo = w.todo /\ v.seen = w.seen /\ v.refused = w.refused
  BY <1>3, <1>5 DEF WalkType, Mid
<1>7. walk' = [walk EXCEPT ![t] = v]
  BY <1>0, <1>2, <1>5, Zenon DEF EndWalk, Turn, WalksFine
<1>8. WalkOK(v)'
  BY <1>3, <1>4, <1>6, Zenon DEF WalkOK, Mid
<1>9. WalksFine'
  BY <1>0, <1>1, <1>6, <1>7, <1>8, OneWalkMoves, Zenon DEF WalksFine
<1> QED BY <1>1, <1>9 DEF ManagerInv, WalksFine

\* What a step inside the escalation for one record starts from.
LEMMA MidWalk ==
    ASSUME WalksFine, TableInv, NEW t \in Threads, NEW w, w = walk[t], w.stage \in Mid
    PROVE  /\ w \in WalkType /\ WalkOK(w)
           /\ w.target \in w.todo /\ w.target \in Roots /\ w.target \in Procs
           /\ status[w.target] # "none" /\ os[w.target] # "none" /\ w.tree \subseteq Procs
<1>1. w \in WalkType /\ WalkOK(w)
  BY DEF WalksFine
<1>2. w.target \in w.todo /\ w.target \in Roots /\ w.tree \subseteq Procs
  BY <1>1 DEF WalkOK, WalkType
<1>3. status[w.target] # "none"
  BY <1>1, <1>2 DEF WalkOK
<1>4. os[w.target] # "none"
  BY <1>2, <1>3 DEF TableInv, SpawnInv
<1> QED BY <1>1, <1>2, <1>3, <1>4, RootsAreProcs

LEMMA TerminateKeeps ==
    ASSUME ManagerInv, NEW t \in Threads, Terminate(t)
    PROVE  ManagerInv' /\ Keeps
<1>1. PICK w : w = walk[t]
  OBVIOUS
<1>2. TableInv /\ WalksFine /\ w.stage = "terminate" /\ w.stage \in Mid /\ UNCHANGED <<spawning, reaper>>
  BY <1>1 DEF ManagerInv, WalksFine, Terminate, Walking, Mid
<1>3. /\ w \in WalkType /\ WalkOK(w)
      /\ w.target \in w.todo /\ w.target \in Roots /\ w.target \in Procs
      /\ status[w.target] # "none" /\ os[w.target] # "none" /\ w.tree \subseteq Procs
  BY <1>1, <1>2, MidWalk
<1>4. OsMoves
  <2>1. os' = reaped({w.target}) \/ os' = os
    BY <1>1 DEF Terminate
  <2> QED BY <1>2, <2>1, ReapedMoves, UnchangedMoves DEF TableInv
<1>5. CASE os[w.target] \in Dead /\ Mark(w.target, "killed") /\ NextRecord(t, w.target)
  <2>1. RegistryMoves({w.target}) /\ Terminal(w.target)' /\ (Terminal(w.target) \/ status'[w.target] = "killed")
    BY <1>2, <1>3, <1>5, MarkMoves, Zenon DEF TableInv, _TERMINAL_STATUSES
  <2>2. Truthful(w.target)'
    <3>1. status'[w.target] = status[w.target] \/ status'[w.target] = "killed"
      BY <1>3, <2>1 DEF RegistryMoves
    <3>2. os'[w.target] \in Dead
      BY <1>3, <1>4, <1>5 DEF OsMoves
    <3> QED BY <1>2, <1>3, <3>1, <3>2 DEF Truthful, TableInv, RecordsTellTheTruth
  <2>3. TableInv' /\ Keeps
    BY <1>2, <1>4, <2>1, <2>2, TableMoves DEF TableInv, SpawnType
  <2>4. WalksFine'
    BY <1>1, <1>2, <1>3, <1>5, <2>1, <2>3, ProceedMoves, Zenon DEF NextRecord
  <2> QED BY <2>3, <2>4, Zenon DEF ManagerInv, WalksFine
<1>6. CASE UNCHANGED registry /\ Turn(t, "grace")
  <2>1. TableInv' /\ Keeps
    <3>1. RegistryMoves({})
      BY <1>2, <1>6, UnchangedRegistry DEF TableInv
    <3> QED BY <1>2, <1>4, <3>1, TableMoves DEF TableInv, SpawnType
  <2>2. WalkOK(w)'
    BY <1>3, <2>1, WalkStays
  <2>3. PICK v : v = [w EXCEPT !.stage = "grace"]
    BY Zenon
  <2>4. /\ v \in WalkType /\ v.stage = "grace" /\ v.tree = w.tree /\ v.todo = w.todo
        /\ v.seen = w.seen /\ v.refused = w.refused /\ v.target = w.target
    BY <1>3, <2>3 DEF WalkType, Mid
  <2>5. walk' = [walk EXCEPT ![t] = v]
    BY <1>1, <1>2, <1>6, <2>3 DEF Turn, WalksFine
  <2>6. WalkOK(v)'
    BY <1>2, <2>2, <2>4 DEF WalkOK, Mid
  <2>7. WalksFine'
    BY <1>2, <2>1, <2>4, <2>5, <2>6, OneWalkMoves, Zenon DEF WalksFine
  <2> QED BY <2>1, <2>7 DEF ManagerInv, WalksFine
<1> QED BY <1>1, <1>5, <1>6 DEF Terminate

\* A refused walk gives its records up where it stands.
LEMMA RefusedKeeps ==
    ASSUME ManagerInv, NEW t \in Threads, TerminateRefused(t)
    PROVE  ManagerInv' /\ Keeps
<1>1. PICK w : w = walk[t]
  OBVIOUS
<1>2. /\ TableInv /\ WalksFine /\ w.stage \in Mid /\ w.target \in Foreign
      /\ UNCHANGED <<os, registry, spawning, reaper>>
  BY <1>1 DEF ManagerInv, WalksFine, TerminateRefused, Walking, Mid
<1>3. w \in WalkType /\ WalkOK(w) /\ w.target \in w.todo
  BY <1>1, <1>2, MidWalk
<1>4. TableInv' /\ Keeps
  <2>1. OsMoves /\ RegistryMoves({})
    BY <1>2, UnchangedMoves, UnchangedRegistry DEF TableInv
  <2> QED BY <1>2, <2>1, TableMoves DEF TableInv, SpawnType
<1>5. WalkOK(w)'
  BY <1>3, <1>4, WalkStays
<1>6. PICK v : v = [NoWalk EXCEPT !.stage = "next", !.seen = w.seen, !.error = TRUE, !.refused = TRUE]
  BY Zenon
<1>7. /\ v \in WalkType /\ v.stage = "next" /\ v.todo = {} /\ v.seen = w.seen
      /\ v.refused = TRUE
  <2>1. w.seen \in SUBSET Roots
    BY <1>3 DEF WalkType
  <2> QED BY <1>6, <2>1, Zenon DEF NoWalk, WalkType
<1>8. walk' = [walk EXCEPT ![t] = v]
  BY <1>1, <1>6, Zenon DEF TerminateRefused
<1>9. \E p \in w.seen : p \in Foreign
  BY <1>2, <1>3, Zenon DEF WalkOK
<1>10. WalkOK(v)'
  BY <1>5, <1>7, <1>9 DEF WalkOK, Mid
<1>11. WalksFine'
  BY <1>2, <1>4, <1>7, <1>8, <1>10, OneWalkMoves, Zenon DEF WalksFine
<1> QED BY <1>4, <1>11 DEF ManagerInv, WalksFine

LEMMA KillKeeps ==
    ASSUME ManagerInv, NEW t \in Threads, Kill(t)
    PROVE  ManagerInv' /\ Keeps
<1>1. PICK w : w = walk[t]
  OBVIOUS
<1>2. /\ TableInv /\ WalksFine /\ w.stage = "kill" /\ w.stage \in Mid
      /\ UNCHANGED registry /\ UNCHANGED <<spawning, reaper>>
  BY <1>1 DEF ManagerInv, WalksFine, Kill, Walking, Mid
<1>3. /\ w \in WalkType /\ WalkOK(w)
      /\ w.target \in w.todo /\ w.target \in Roots /\ w.target \in Procs
      /\ status[w.target] # "none" /\ os[w.target] # "none" /\ w.tree \subseteq Procs
  BY <1>1, <1>2, MidWalk
<1>4. PICK S \in SUBSET (w.tree \cap Stuck) : os' = died({q \in w.tree \ S : os[q] = "alive"})
  BY <1>1, Zenon DEF Kill
<1>5. OsMoves /\ \A q \in w.tree \ S : os[q] = "alive" => os'[q] \in Dead
  BY <1>2, <1>3, <1>4, DiedMoves DEF TableInv
<1>6. TableInv' /\ Keeps
  <2>1. RegistryMoves({})
    BY <1>2, UnchangedRegistry DEF TableInv
  <2> QED BY <1>2, <1>5, <2>1, TableMoves DEF TableInv, SpawnType
<1>7. \A q \in w.tree \cup {w.target} : q \in Stuck \/ os'[q] \in Dead
  <2>1. \A q \in w.tree : os[q] # "none"
    BY <1>2, <1>3 DEF WalkOK
  <2>2. \A q \in w.tree : os[q] = "alive" \/ os[q] \in Dead
    BY <1>2, <1>3, <2>1 DEF TableInv, OsType, Dead
  <2>3. \A q \in w.tree : q \in Stuck \/ os'[q] \in Dead
    BY <1>3, <1>4, <1>5, <2>2 DEF OsMoves
  <2>4. w.target \in w.tree \/ os'[w.target] \in Dead
    BY <1>2, <1>3, <1>5 DEF WalkOK, OsMoves
  <2> QED BY <2>3, <2>4
<1>8. WalkOK(w)'
  BY <1>3, <1>6, WalkStays
<1>9. PICK v : v = [w EXCEPT !.stage = "follow_up"]
  BY Zenon
<1>10. /\ v \in WalkType /\ v.stage = "follow_up" /\ v.tree = w.tree /\ v.todo = w.todo
       /\ v.seen = w.seen /\ v.refused = w.refused /\ v.target = w.target
  BY <1>3, <1>9 DEF WalkType, Mid
<1>11. walk' = [walk EXCEPT ![t] = v]
  BY <1>1, <1>2, <1>9, Zenon DEF Kill, Turn, WalksFine
<1>12. WalkOK(v)'
  BY <1>2, <1>7, <1>8, <1>10 DEF WalkOK, Mid
<1>13. WalksFine'
  BY <1>2, <1>6, <1>10, <1>11, <1>12, OneWalkMoves, Zenon DEF WalksFine
<1> QED BY <1>6, <1>13 DEF ManagerInv, WalksFine

\* The two waits: Ralph's own zombies are collected, the rest of the tree stays.
LEMMA WaitKeeps ==
    ASSUME ManagerInv, NEW t \in Threads, GracePeriod(t) \/ FollowUp(t)
    PROVE  ManagerInv' /\ Keeps
<1>1. PICK w : w = walk[t]
  OBVIOUS
<1>2. PICK stage : /\ \/ GracePeriod(t) /\ w.stage = "grace" /\ stage = "kill"
                      \/ FollowUp(t) /\ w.stage = "follow_up" /\ stage = "verdict"
                   /\ WaitProcs(t, stage)
  BY <1>1 DEF GracePeriod, FollowUp, Walking
<1>3. /\ TableInv /\ WalksFine /\ w.stage \in Mid
      /\ UNCHANGED registry /\ UNCHANGED <<spawning, reaper>>
  BY <1>1, <1>2 DEF ManagerInv, WalksFine, WaitProcs, Mid
<1>4. /\ w \in WalkType /\ WalkOK(w)
      /\ w.target \in w.todo /\ w.target \in Roots /\ w.target \in Procs
      /\ status[w.target] # "none" /\ os[w.target] # "none" /\ w.tree \subseteq Procs
  BY <1>1, <1>3, MidWalk
<1>5. /\ OsMoves
      /\ \A q \in Procs : os'[q] = "alive" <=> os[q] = "alive"
      /\ \A q \in w.tree \cap Roots : os'[q] # "zombie"
      /\ \A q \in Procs \ Roots : os'[q] = os[q]
  <2>1. os' = reaped(w.tree)
    BY <1>1, <1>2 DEF WaitProcs
  <2> QED BY <1>3, <2>1, ReapedMoves DEF TableInv
<1>6. TableInv' /\ Keeps
  <2>1. RegistryMoves({})
    BY <1>3, UnchangedRegistry DEF TableInv
  <2> QED BY <1>3, <1>5, <2>1, TableMoves DEF TableInv, SpawnType
<1>7. WalkOK(w)'
  BY <1>4, <1>6, WalkStays
<1>8. PICK tree : tree = {q \in w.tree : os'[q] \in {"alive", "zombie"}}
  BY Zenon
<1>9. PICK v : v = [w EXCEPT !.stage = stage, !.tree = tree]
  OBVIOUS
<1>10. /\ v \in WalkType /\ v.stage = stage /\ v.tree = tree /\ v.todo = w.todo
       /\ v.seen = w.seen /\ v.refused = w.refused /\ v.target = w.target /\ tree \subseteq w.tree
  BY <1>2, <1>4, <1>8, <1>9, Zenon DEF WalkType, Mid
<1>11. walk' = [walk EXCEPT ![t] = v]
  BY <1>1, <1>2, <1>3, <1>8, <1>9, Zenon DEF WaitProcs, WalksFine
<1>12. os'[w.target] # "none" /\ os'[w.target] \in {"none", "alive", "zombie", "gone"}
  BY <1>4, <1>5 DEF OsMoves, OsType
<1>13. CASE GracePeriod(t) /\ w.stage = "grace" /\ stage = "kill"
  <2>1. w.target \in tree \/ os'[w.target] \in Dead
    BY <1>4, <1>8, <1>12, <1>13, Zenon DEF WalkOK, Dead
  <2>2. WalkOK(v)'
    BY <1>3, <1>7, <1>10, <1>13, <2>1, Zenon DEF WalkOK, Mid
  <2>3. WalksFine'
    BY <1>3, <1>6, <1>10, <1>11, <2>2, OneWalkMoves, Zenon DEF WalksFine
  <2> QED BY <1>6, <2>3, Zenon DEF ManagerInv, WalksFine
<1>14. CASE FollowUp(t) /\ w.stage = "follow_up" /\ stage = "verdict"
  <2>1. \A q \in tree : q \in Stuck \/ w.target \in Stuck
    <3> SUFFICES ASSUME NEW q \in tree, q \notin Stuck PROVE w.target \in Stuck
      BY Zenon
    <3>1. os[q] \in Dead /\ q \in Procs /\ os'[q] \in Dead /\ os'[q] \in {"alive", "zombie"}
      BY <1>4, <1>5, <1>8, <1>10, <1>14 DEF WalkOK, OsMoves
    <3>2. os'[q] = "zombie" /\ q \notin Roots
      BY <1>5, <1>10, <3>1 DEF Dead
    <3>3. Parent[q] = w.target
      BY <1>3, <1>4, <1>10, <3>2 DEF WalkOK, Family
    <3>4. os'[w.target] = "alive"
      BY <1>5, <3>1, <3>2, <3>3 DEF OsMoves, ZombieInv
    <3>5. os[w.target] \notin Dead
      BY <1>4, <1>5, <3>4, Zenon DEF Dead
    <3> QED BY <1>4, <1>14, <3>5 DEF WalkOK
  <2>2. WalkOK(v)'
    BY <1>3, <1>7, <1>10, <1>14, <2>1, Zenon DEF WalkOK, Mid
  <2>3. WalksFine'
    BY <1>3, <1>6, <1>10, <1>11, <2>2, OneWalkMoves, Zenon DEF WalksFine
  <2> QED BY <1>6, <2>3 DEF ManagerInv, WalksFine
<1> QED BY <1>2, <1>13, <1>14

LEMMA VerdictKeeps ==
    ASSUME ManagerInv, NEW t \in Threads, Verdict(t)
    PROVE  ManagerInv' /\ Keeps
<1>1. PICK w : w = walk[t]
  BY Zenon
<1>2. TableInv /\ WalksFine /\ w.stage = "verdict" /\ w.stage \in Mid /\ UNCHANGED <<spawning, reaper>>
  BY <1>1, Zenon DEF ManagerInv, WalksFine, Verdict, Walking, Mid
<1>3. /\ w \in WalkType /\ WalkOK(w)
      /\ w.target \in w.todo /\ w.target \in Roots /\ w.target \in Procs
      /\ status[w.target] # "none" /\ os[w.target] # "none" /\ w.tree \subseteq Procs
  BY <1>1, <1>2, MidWalk
<1>4. OsMoves
  <2>1. os' = reaped({w.target}) \/ os' = os
    BY <1>1 DEF Verdict
  <2> QED BY <1>2, <2>1, ReapedMoves, UnchangedMoves DEF TableInv
<1>5. PICK verdict \in {"killed", "failed"}, error \in BOOLEAN :
         /\ Mark(w.target, verdict)
         /\ Proceed(t, w.todo \ {w.target}, error)
         /\ verdict = "failed" => w.tree # {}
  BY <1>1, ZenonT(60) DEF Verdict, NextRecord, NextRecordFailed
<1>6. /\ RegistryMoves({w.target}) /\ Terminal(w.target)'
      /\ Terminal(w.target) \/ status'[w.target] = verdict
  BY <1>2, <1>3, <1>5, MarkMoves, Zenon DEF TableInv, _TERMINAL_STATUSES
<1>7. Truthful(w.target)'
  <2>1. CASE Terminal(w.target)
    <3>1. status'[w.target] = status[w.target] /\ Truthful(w.target)
      BY <1>2, <1>3, <1>6, <2>1 DEF RegistryMoves, TableInv, RecordsTellTheTruth, Truthful
    <3> QED BY <1>3, <1>4, <3>1, Zenon DEF Truthful, OsMoves
  <2>2. CASE status'[w.target] = verdict
    <3>1. w.target \in Stuck \/ os'[w.target] \in Dead
      BY <1>2, <1>3, <1>4 DEF WalkOK, OsMoves
    <3>2. verdict = "failed" => \E q \in Stuck : q = w.target \/ Parent[q] = w.target
      <4> SUFFICES ASSUME verdict = "failed" PROVE \E q \in Stuck : q = w.target \/ Parent[q] = w.target
        OBVIOUS
      <4>1. PICK q \in w.tree : q \in Stuck \/ w.target \in Stuck
        BY <1>2, <1>3, <1>5, Zenon DEF WalkOK
      <4>2. q = w.target \/ Parent[q] = w.target
        BY <1>2, <1>3, Zenon DEF WalkOK, Family
      <4> QED BY <4>1, <4>2
    <3> QED BY <2>2, <3>1, <3>2, <1>5, ZenonT(60) DEF Truthful
  <2> QED BY <1>6, <2>1, <2>2
<1>8. TableInv' /\ Keeps
  BY <1>2, <1>4, <1>6, <1>7, TableMoves, Zenon DEF TableInv, SpawnType
<1>9. WalksFine'
  BY <1>1, <1>2, <1>3, <1>5, <1>6, <1>8, ProceedMoves
<1> QED BY <1>8, <1>9 DEF ManagerInv, WalksFine

LEMMA WalkStepKeeps ==
    ASSUME ManagerInv, NEW t \in Threads, WalkStep(t)
    PROVE  ManagerInv' /\ Keeps
<1>1. CASE \E p \in Roots : Skip(t, p) \/ AccessDenied(t, p)
  BY <1>1, SkipKeeps
<1>2. CASE \E p \in Roots : SnapshotTree(t, p)
  BY <1>2, SnapshotKeeps
<1>3. CASE Terminate(t)
  BY <1>3, TerminateKeeps
<1>4. CASE GracePeriod(t) \/ FollowUp(t)
  BY <1>4, WaitKeeps
<1>5. CASE Kill(t)
  BY <1>5, KillKeeps
<1>6. CASE Verdict(t)
  BY <1>6, VerdictKeeps
<1>7. CASE EndWalk(t)
  BY <1>7, EndWalkKeeps
<1>8. CASE TerminateRefused(t)
  BY <1>8, RefusedKeeps
<1> QED BY <1>1, <1>2, <1>3, <1>4, <1>5, <1>6, <1>7, <1>8 DEF WalkStep

LEMMA IdleKeeps ==
    ASSUME ManagerInv, UNCHANGED manager
    PROVE  ManagerInv' /\ Keeps
<1>0. TableInv /\ UNCHANGED <<os, registry, spawning, reaper, walk>> /\ UNCHANGED registry
  BY DEF ManagerInv, manager
<1>1. OsMoves /\ RegistryMoves({})
  BY <1>0, UnchangedMoves, UnchangedRegistry DEF TableInv
<1>2. TableInv' /\ Keeps
  BY <1>0, <1>1, TableMoves DEF TableInv, SpawnType
<1> QED BY <1>0, <1>2, NoWalkMoves DEF ManagerInv

-----------------------------------------------------------------------------
(* The actions of the run, by what they do to the manager.                 *)

LEMMA DispatcherKeepsManager ==
    ASSUME ManagerInv, NEW t \in Threads, DispatcherStep(t)
    PROVE  ManagerInv' /\ Keeps
<1>0. reaper \in BOOLEAN
  BY DEF ManagerInv, TableInv, SpawnType
<1>1. CASE LabelWalkEnds(t) \/ Drained(t) \/ ForceFails(t) \/ HardExit(t)
  BY <1>1, IdleKeeps DEF LabelWalkEnds, Drained, ForceFails, HardExit
<1>2. CASE ForceAgain(t)
  BY <1>0, <1>2, StartWalkKeeps, Zenon DEF ForceAgain
<1>3. CASE DrainDeadline(t)
  <2>1. UNCHANGED manager \/ (StartWalk(t, FALSE) /\ UNCHANGED <<spawning, reaper>>)
    BY <1>3, Zenon DEF DrainDeadline, force_exit, manager
  <2> QED BY <1>0, <2>1, IdleKeeps, StartWalkKeeps, Zenon
<1> QED BY <1>1, <1>2, <1>3 DEF DispatcherStep

LEMMA MainKeepsManager ==
    ASSUME ManagerInv, MainStep \/ Press \/ Finish
    PROVE  ManagerInv' /\ Keeps
<1>0. reaper \in BOOLEAN /\ "main" \in Threads /\ "interrupt" \in Threads
  BY InterruptAssumption DEF ManagerInv, TableInv, SpawnType
<1>1. CASE StopWaiting \/ Exit \/ FirstPress \/ PressAtExit
  BY <1>1, IdleKeeps DEF StopWaiting, Exit, FirstPress, PressAtExit
<1>2. CASE handle_keyboard_interrupt \/ HandlerRaises \/ Save \/ CliEnds \/ Finish \/ PressUnhandled
  BY <1>0, <1>2, StartWalkKeeps
    , Zenon DEF handle_keyboard_interrupt, HandlerRaises, Save, CliEnds, Finish, PressUnhandled
<1>3. CASE CleanupEnds
  <2>1. /\ StartWalk("main", TRUE) \/ StartWalk("main", FALSE)
        /\ UNCHANGED <<spawning, reaper>>
    BY <1>3, Zenon DEF CleanupEnds, AtCli
  <2> QED BY <1>0, <2>1, StartWalkKeeps, Zenon
<1>4. CASE PressWhileWaiting
  <2>1. UNCHANGED manager \/ (StartWalk("main", FALSE) /\ UNCHANGED <<spawning, reaper>>)
    BY <1>4, Zenon DEF PressWhileWaiting, force_exit, manager
  <2> QED BY <1>0, <2>1, IdleKeeps, StartWalkKeeps, Zenon
<1>5. CASE PressWhileCleaning
  <2>1. StartWalk("main", TRUE) /\ UNCHANGED spawning /\ reaper' = FALSE
    BY <1>5, Zenon DEF PressWhileCleaning, AtCli
  <2> QED BY <1>0, <2>1, StartWalkKeeps, Zenon
<1>6. CASE PressAtCli
  <2>1. StartWalk("main", FALSE) /\ UNCHANGED spawning
    BY <1>6, Zenon DEF PressAtCli
  <2>2. reaper' \in BOOLEAN
    BY <1>6 DEF PressAtCli
  <2> QED BY <1>0, <2>1, <2>2, StartWalkKeeps, Zenon
<1> QED BY <1>1, <1>2, <1>3, <1>4, <1>5, <1>6 DEF MainStep, Press

LEMMA NextKeepsManager ==
    ASSUME ManagerInv, [Next]_vars
    PROVE  ManagerInv' /\ Keeps
<1>0. reaper \in BOOLEAN
  BY DEF ManagerInv, TableInv, SpawnType
<1>1. CASE ThreadStep
  BY <1>1, MainKeepsManager, WalkStepKeeps, DispatcherKeepsManager DEF ThreadStep, WalkOn
<1>2. CASE Press \/ Finish
  BY <1>2, MainKeepsManager
<1>3. CASE PhaseEnds
  BY <1>3, ReconcileKeeps, Zenon DEF PhaseEnds
<1>4. CASE \E p \in Roots : Spawn(p) \/ (Up /\ poll(p) /\ UNCHANGED control)
  BY <1>4, SpawnKeeps, PollKeeps DEF Spawn
<1>5. CASE Reap
  BY <1>0, <1>5, ReconcileKeeps DEF Reap, _zombie_reaper_loop
<1>6. CASE \E p \in Procs : Up /\ ProcessStep(p) /\ UNCHANGED control
  BY <1>6, ProcessStepKeeps
<1>7. CASE UNCHANGED vars
  BY <1>7, IdleKeeps DEF vars
<1> QED BY <1>1, <1>2, <1>3, <1>4, <1>5, <1>6, <1>7 DEF Next

-----------------------------------------------------------------------------
(* The threads.                                                            *)

LEMMA DispatcherKeepsControl ==
    ASSUME ControlInv, NEW t \in Threads, DispatcherStep(t)
    PROVE  ControlInv'
<1>0. t \in {"main", "interrupt"} /\ Threads = {"main", "interrupt"}
  BY InterruptAssumption
<1> DEFINE Calls == {"none", "label", "drain", "force", "exit", "raised", "returned"}
<1>1. CASE HardExit(t)
  BY <1>1 DEF HardExit, ControlInv
<1>2. CASE ~HardExit(t)
  <2>1. PICK c \in Calls : call' = [call EXCEPT ![t] = c]
    BY <1>0, <1>2, Zenon DEF DispatcherStep, LabelWalkEnds, Drained, DrainDeadline, force_exit, ForceFails, ForceAgain
  <2>2. call[t] # "none" /\ UNCHANGED <<main, presses, escaping, saved, code>>
    BY <1>2, Zenon DEF DispatcherStep, LabelWalkEnds, Drained, DrainDeadline, ForceFails, ForceAgain
  <2>3. force_called' \in [{"loop", "cli"} -> BOOLEAN]
    <3>1. force_called \in [{"loop", "cli"} -> BOOLEAN]
      BY DEF ControlInv
    <3>2. UNCHANGED force_called \/ force_called' = [force_called EXCEPT ![dispatcher(t)] = TRUE]
      BY <1>2, Zenon DEF DispatcherStep, LabelWalkEnds, Drained, DrainDeadline, force_exit, ForceFails, ForceAgain
    <3> QED BY <3>1, <3>2, Zenon
  <2>4. call' \in [Threads -> Calls] /\ \A u \in Threads : call[u] = "none" => call'[u] = "none"
    BY <2>1, <2>2 DEF ControlInv
  <2>5. call'["main"] = "none" \/ call["main"] # "none"
    BY <1>0, <2>4
  <2>6. call'["interrupt"] = "none" \/ call["interrupt"] # "none"
    BY <1>0, <2>4
  <2> QED BY <2>2, <2>3, <2>4, <2>5, <2>6 DEF ControlInv
<1> QED BY <1>1, <1>2

LEMMA MainKeepsControl ==
    ASSUME ControlInv, MainStep \/ Finish
    PROVE  ControlInv'
<1>0. "main" \in Threads /\ "interrupt" \in Threads /\ MaxPresses \in Nat
  BY InterruptAssumption
<1> USE <1>0 DEF ControlInv
<1>1. CASE handle_keyboard_interrupt
  <2>1. /\ call' \in [Threads -> {"none", "label", "drain", "force", "exit", "raised", "returned"}]
        /\ call'["main"] = call["main"]
    BY <1>1 DEF handle_keyboard_interrupt
  <2>2. /\ main = "interrupted" /\ main' = "waiting"
        /\ UNCHANGED <<force_called, presses, escaping, saved, code>>
    BY <1>1 DEF handle_keyboard_interrupt
  <2>3. presses > 0 /\ code' # "end"
    BY <1>1, <2>2 DEF handle_keyboard_interrupt, Up
  <2> QED BY <2>1, <2>2, <2>3
<1>2. CASE HandlerRaises
  BY <1>2 DEF HandlerRaises
<1>3. CASE StopWaiting
  BY <1>3 DEF StopWaiting
<1>4. CASE Save
  BY <1>4 DEF Save
<1>5. CASE CleanupEnds
  BY <1>5, ZenonT(60) DEF CleanupEnds, AtCli
<1>6. CASE CliEnds
  BY <1>6 DEF CliEnds
<1>7. CASE Exit
  BY <1>7 DEF Exit
<1>8. CASE Finish
  BY <1>8, Zenon DEF Finish
<1> QED BY <1>1, <1>2, <1>3, <1>4, <1>5, <1>6, <1>7, <1>8, Zenon DEF MainStep

LEMMA PressKeepsControl ==
    ASSUME ControlInv, Press
    PROVE  ControlInv'
<1>0. "main" \in Threads /\ "interrupt" \in Threads /\ MaxPresses \in Nat
  BY InterruptAssumption
<1>a. presses' = presses + 1 /\ presses' \in 1 .. MaxPresses
  <2>1. presses' = presses + 1 /\ presses < MaxPresses
    BY Zenon DEF Press, FirstPress, PressWhileWaiting, PressUnhandled, PressWhileCleaning, PressAtCli, PressAtExit
  <2> QED BY <1>0, <2>1 DEF ControlInv
<1>b. presses' = 1 => presses = 0
  BY <1>a DEF ControlInv
<1> USE <1>0, <1>a, <1>b DEF ControlInv
<1>1. CASE FirstPress
  <2>1. /\ main = "running" /\ main' = "interrupted"
        /\ UNCHANGED <<call, force_called, escaping, saved, code>>
    BY <1>1 DEF FirstPress
  <2> QED BY <2>1
<1>2. CASE PressWhileWaiting
  <2>1. presses > 0 /\ presses' > 1 /\ UNCHANGED <<main, escaping, saved, code>> /\ main = "waiting"
    BY <1>2 DEF PressWhileWaiting
  <2>2. /\ call' \in [Threads -> {"none", "label", "drain", "force", "exit", "raised", "returned"}]
        /\ force_called' \in [{"loop", "cli"} -> BOOLEAN]
    BY <1>2, Zenon DEF PressWhileWaiting, force_exit, dispatcher
  <2> QED BY <2>1, <2>2
<1>3. CASE PressUnhandled
  <2>1. /\ main \in {"interrupted", "save"} /\ main' = "cleanup" /\ escaping' = TRUE
        /\ UNCHANGED <<call, force_called, saved, code>>
    BY <1>3 DEF PressUnhandled
  <2>2. presses > 0 /\ presses' > 1
    BY <2>1
  <2> QED BY <2>1, <2>2
<1>4. CASE PressWhileCleaning
  <2>1. /\ call' \in [Threads -> {"none", "label", "drain", "force", "exit", "raised", "returned"}]
        /\ call'["interrupt"] = call["interrupt"]
    BY <1>4 DEF PressWhileCleaning, AtCli
  <2>2. main' = "cli" /\ escaping' = FALSE /\ UNCHANGED <<force_called, saved, code>>
    BY <1>4 DEF PressWhileCleaning, AtCli
  <2>3. escaping' \in BOOLEAN
    BY <2>2, Zenon
  <2>4. presses' = 1 => call'["interrupt"] = "none"
    BY <2>1
  <2>5. /\ force_called' \in [{"loop", "cli"} -> BOOLEAN] /\ saved' \in BOOLEAN
        /\ code' \in {"none", "130", "end"}
    BY <2>2
  <2>6. presses' \in 0 .. MaxPresses /\ presses' # 0
    OBVIOUS
  <2>7. main' = "cli"
    BY <2>2
  <2> HIDE DEF ControlInv
  <2> QED BY <2>1, <2>3, <2>4, <2>5, <2>6, <2>7 DEF ControlInv
<1>5. CASE PressAtCli
  BY <1>5 DEF PressAtCli
<1>6. CASE PressAtExit
  BY <1>6 DEF PressAtExit
<1> QED BY <1>1, <1>2, <1>3, <1>4, <1>5, <1>6, Zenon DEF Press

LEMMA NextKeepsControl ==
    ASSUME ControlInv, [Next]_vars
    PROVE  ControlInv'
<1>1. CASE UNCHANGED control
  BY <1>1 DEF control, ControlInv
<1>2. CASE MainStep \/ Finish
  BY <1>2, MainKeepsControl
<1>3. CASE Press
  BY <1>3, PressKeepsControl
<1>4. CASE \E t \in Threads : DispatcherStep(t)
  BY <1>4, DispatcherKeepsControl
<1> QED BY <1>1, <1>2, <1>3, <1>4 DEF Next, ThreadStep, WalkOn, PhaseEnds, Spawn, Reap, vars

-----------------------------------------------------------------------------
(* The theorems.                                                           *)

LEMMA InitInv == Init => IInv
<1> SUFFICES ASSUME Init PROVE IInv
  OBVIOUS
<1>1. TableInv
  <2>1. OsType /\ RegistryType /\ SpawnType
    BY Zenon DEF Init, ManagerInit, OsType, RegistryType, SpawnType
  <2>2. ZombieInv /\ SpawnInv
    BY RootsAreProcs DEF Init, ManagerInit, ZombieInv, SpawnInv
  <2>3. RecordsAreActive /\ RecordsTellTheTruth
    BY DEF Init, ManagerInit, RecordsAreActive, RecordsTellTheTruth
  <2> QED BY <2>1, <2>2, <2>3 DEF TableInv
<1>2. NoWalk \in WalkType
  BY Zenon DEF NoWalk, WalkType
<1>3. WalkOK(NoWalk)
  BY DEF NoWalk, WalkOK, Mid
<1>4. walk = [t \in Threads |-> NoWalk]
  BY DEF Init, ManagerInit
<1>5. ManagerInv
  BY <1>1, <1>2, <1>3, <1>4 DEF ManagerInv
<1>6. ControlInv
  <2>1. /\ call \in [Threads -> {"none", "label", "drain", "force", "exit", "raised", "returned"}]
        /\ call["main"] = "none" /\ call["interrupt"] = "none"
    BY InterruptAssumption DEF Init
  <2>2. force_called \in [{"loop", "cli"} -> BOOLEAN]
    BY DEF Init
  <2>3. escaping \in BOOLEAN /\ saved \in BOOLEAN
    BY Zenon DEF Init
  <2>4. presses = 0 /\ 0 \in 0 .. MaxPresses /\ main = "running" /\ code = "none"
    BY InterruptAssumption DEF Init
  <2> QED BY <2>1, <2>2, <2>3, <2>4 DEF ControlInv
<1> QED BY <1>5, <1>6 DEF IInv

LEMMA NextInv == IInv /\ [Next]_vars => IInv' /\ Keeps
  BY NextKeepsManager, NextKeepsControl DEF IInv

LEMMA Invariance == Spec => []IInv
  BY InitInv, NextInv, PTL DEF Spec

\* Every variable keeps its type; a walk signals nothing but processes.
THEOREM ShutdownTypes == Spec => []TypeOK
<1>1. IInv => TypeOK
  BY DEF IInv, ManagerInv, TableInv, OsType, RegistryType, SpawnType, ControlInv, TypeOK, WalkType, Mid
<1> QED BY <1>1, Invariance, PTL

\* However many threads spawn, poll, reap and terminate, _records holds exactly the
\* processes without a verdict.
THEOREM RecordsMatchStatus == Spec => []RecordsAreActive
<1>1. IInv => RecordsAreActive
  BY DEF IInv, ManagerInv, TableInv
<1> QED BY <1>1, Invariance, PTL

\* A process that is on record as ended has ended, unless it outlives SIGKILL or its
\* liveness check failed, and a failed termination has a process that could not be read or
\* stopped behind it.
THEOREM VerdictsAreTrue == Spec => []RecordsTellTheTruth
<1>1. IInv => RecordsTellTheTruth
  BY DEF IInv, ManagerInv, TableInv
<1> QED BY <1>1, Invariance, PTL

\* A walk of shutdown_all or shutdown_all_for_label that ended has settled every record it
\* found, whichever terminations failed, unless it met a process that it was not permitted
\* to signal.
THEOREM SiblingsAreReached == Spec => []NoSiblingIsStranded
<1>1. IInv => NoSiblingIsStranded
  BY Zenon DEF IInv, ManagerInv, WalkOK, Terminal, NoSiblingIsStranded
<1> QED BY <1>1, Invariance, PTL

\* Of several threads that judge one process, the first verdict stands.
THEOREM VerdictStands == Spec => TerminalIsFinal
<1>1. IInv /\ [Next]_vars => [\A p \in Roots : status[p] \in _TERMINAL_STATUSES => status'[p] = status[p]]_vars
  BY NextInv DEF Keeps, Terminal
<1> QED BY <1>1, Invariance, PTL DEF Spec, TerminalIsFinal

\* One Ctrl+C and an orderly end mean that the checkpoint was saved, also when the shutdown
\* of the agents raised.
THEOREM OnePressSaves == Spec => []OnePressPauses
<1>1. IInv => OnePressPauses
  BY DEF IInv, ControlInv, OnePressPauses
<1> QED BY <1>1, Invariance, PTL
=============================================================================
