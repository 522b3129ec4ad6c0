-------------------------- MODULE AutoIntegrateProofs --------------------------
(* Safety of auto-integration for any number of worktrees, attempts, commits  *)
(* and faults.                                                                *)
EXTENDS AutoIntegrate, TLAPS

-----------------------------------------------------------------------------
(* The inductive invariant *)

CommitType == [anc : SUBSET Nat, work : SUBSET (Worktrees \X Nat), merge : BOOLEAN]

\* A commit is in its own history, and its tree holds the work of its history.
Hist(cs) ==
    /\ cs \in Seq(CommitType)
    /\ \A c \in DOMAIN cs :
         /\ c \in cs[c].anc
         /\ cs[c].anc \subseteq DOMAIN cs
         /\ \A a \in cs[c].anc : cs[a].work \subseteq cs[c].work

\* Where a process is between the two writes of the record, ...
AttemptPcs == {"rebase", "replay", "resolve", "fallback", "merge", "mresolve", "mabort"}
\* ... moves the target, ...
LandingPcs == {"lookup", "observe", "cas", "ffonly", "reclaim", "ffagain", "landed"}
\* ... and has nothing in progress in its worktree.
IdlePcs == {"record", "rebase", "merge", "flip", "verdict"} \cup LandingPcs

Pcs == AttemptPcs \cup IdlePcs \cup {"run", "gate", "seam", "down", "recover", "reset"}

WtType ==
    [branch : Nat, head : Nat, op : {"none", "rebase", "merge"}, other : Nat,
     stopped : BOOLEAN, landed : BOOLEAN]

RecType == [phase : {"none", "integrating", "integrated"}, pre : Nat, feature : Nat]

ProcType ==
    [pc : Pcs, back : {"run", "gate"}, attempt : 0..MaxAttempts, merged : BOOLEAN,
     owns : BOOLEAN, resolver : BOOLEAN, seen : Nat,
     result : {"none", "ok", "moved", "failed", "raised"}, recovering : BOOLEAN]

Types ==
    /\ wt \in [Worktrees -> WtType]
    /\ rec \in [Worktrees -> RecType]
    /\ proc \in [Worktrees -> ProcType]
    /\ catchup \in [Worktrees -> Nat]
    /\ made \in [Worktrees -> 0..MaxChanges]
    /\ faults \in 0..MaxFaults

\* A worktree x: HEAD is its branch unless a rebase is paused.
GoodTree(cs, x) ==
    /\ x.branch \in DOMAIN cs /\ x.head \in DOMAIN cs
    /\ x.other \in {0} \cup DOMAIN cs
    /\ x.op # "rebase" => x.head = x.branch
    /\ x.op = "merge" => x.stopped /\ x.other # 0

\* A record r: the tip to restore, and a tip to land that has lost nothing.
GoodRecord(cs, r) ==
    /\ {r.pre, r.feature} \subseteq {0} \cup DOMAIN cs
    /\ r.phase = "none" => r = NoRecord
    /\ r.phase # "none" => r.pre # 0
    /\ r.phase = "integrated" => r.feature # 0 /\ cs[r.pre].work \subseteq cs[r.feature].work

\* What a process p may rely on, given its worktree x, its record r and target t.
GoodPlace(cs, t, x, r, p) ==
    /\ p.seen \in {0} \cup DOMAIN cs
    /\ p.pc \in IdlePcs => x.op = "none"
    /\ p.pc = "mresolve" => x.op = "merge"
    /\ p.pc \in AttemptPcs \cup {"flip", "reset"} => r.phase = "integrating"
    /\ p.pc \in AttemptPcs \cup {"flip"} => cs[r.pre].work \subseteq cs[x.branch].work
    /\ p.pc \in AttemptPcs => cs[x.branch].work \subseteq cs[r.pre].work \cup cs[t].work
    /\ p.pc \in LandingPcs \cup {"verdict"} => r.phase = "integrated"
    /\ p.pc = "cas" => p.seen \in cs[r.feature].anc

\* The catch-up thread is about to merge what the target holds.
GoodCatchUp(cs, t, k) ==
    /\ k \in {0} \cup DOMAIN cs
    /\ k # 0 => cs[k].work \subseteq cs[t].work

Local(cs, t, x, r, p, k) ==
    /\ GoodTree(cs, x)
    /\ GoodRecord(cs, r)
    /\ GoodPlace(cs, t, x, r, p)
    /\ GoodCatchUp(cs, t, k)

IInv ==
    /\ Types
    /\ Hist(commits)
    /\ target \in DOMAIN commits
    /\ \A w \in Worktrees : Local(commits, target, wt[w], rec[w], proc[w], catchup[w])

-----------------------------------------------------------------------------
(* What every step of a worktree w does *)

Grows(cs, ds) == DOMAIN cs \subseteq DOMAIN ds /\ \A c \in DOMAIN cs : ds[c] = cs[c]

\* Only the state of w changes, and the history only grows.
OnlyOf(w) ==
    /\ Types'
    /\ \A v \in Worktrees \ {w} :
         wt'[v] = wt[v] /\ rec'[v] = rec[v] /\ proc'[v] = proc[v] /\ catchup'[v] = catchup[v]
    /\ Hist(commits') /\ Grows(commits, commits')
    /\ target' \in DOMAIN commits'
    /\ target \in commits'[target'].anc

\* The branch of w keeps its work, unless recovery resets it.
Keeps(w) ==
    \/ commits[wt[w].branch].work \subseteq commits'[wt'[w].branch].work
    \/ proc[w].pc = "reset" /\ rec[w].phase = "integrating" /\ wt'[w].branch = rec[w].pre

\* A landing of w is real, ...
RealLanding(w) ==
    proc'[w].pc = "landed" /\ proc'[w].result = "ok" =>
        \/ proc'[w] = proc[w] /\ rec'[w] = rec[w]
        \/ rec'[w].feature \in commits'[target'].anc

\* ... and lands what the record of w names.
RecordedLanding(w) ==
    target' # target =>
        /\ rec[w].phase = "integrated"
        /\ rec[w].feature = target'
        /\ commits[rec[w].pre].work \subseteq commits[target'].work

Step(w) ==
    /\ OnlyOf(w)
    /\ Local(commits', target', wt'[w], rec'[w], proc'[w], catchup'[w])
    /\ Keeps(w)
    /\ RealLanding(w)
    /\ RecordedLanding(w)

-----------------------------------------------------------------------------
(* Lemmas about the history *)

\* git only ever adds commits: storing one whose tree holds the work of its
\* history keeps every commit stored before.
LEMMA StoreLemma ==
    ASSUME Hist(commits),
           NEW A \in SUBSET DOMAIN commits,
           NEW W \in SUBSET (Worktrees \X Nat),
           NEW m \in BOOLEAN,
           \A a \in A : commits[a].work \subseteq W,
           Store(A, W, m)
    PROVE  /\ Hist(commits')
           /\ Grows(commits, commits')
           /\ New \in DOMAIN commits'
           /\ New # 0
           /\ commits'[New].work = W
           /\ commits'[New].anc = A \cup {New}
<1> DEFINE N == Len(commits) + 1
           R == [anc |-> A \cup {N}, work |-> W, merge |-> m]
<1>1. commits \in Seq(CommitType)
  BY DEF Hist
<1>2. Len(commits) \in Nat /\ DOMAIN commits = 1..Len(commits)
  BY <1>1
<1>3. R \in CommitType
  BY <1>2 DEF CommitType
<1>4. commits' = Append(commits, R)
  BY DEF Store, New
<1>5. commits' \in Seq(CommitType) /\ Len(commits') = N
  BY <1>1, <1>3, <1>4
<1>6. DOMAIN commits' = 1..N
  BY <1>5
<1>7. \A c \in 1..Len(commits) : commits'[c] = commits[c]
  BY <1>1, <1>2, <1>3, <1>4
<1>8. commits'[N] = R
  BY <1>1, <1>2, <1>3, <1>4
<1>9. \A c \in DOMAIN commits' :
        /\ c \in commits'[c].anc
        /\ commits'[c].anc \subseteq DOMAIN commits'
        /\ \A a \in commits'[c].anc : commits'[a].work \subseteq commits'[c].work
  <2>1. TAKE c \in DOMAIN commits'
  <2>2. CASE c = N
    BY <2>2, <1>2, <1>6, <1>7, <1>8
  <2>3. CASE c # N
    <3>1. c \in DOMAIN commits /\ commits'[c] = commits[c]
      BY <2>3, <1>2, <1>6, <1>7
    <3>2. commits[c].anc \subseteq DOMAIN commits /\ c \in commits[c].anc
          /\ \A a \in commits[c].anc : commits[a].work \subseteq commits[c].work
      BY <3>1 DEF Hist
    <3> QED
      BY <3>1, <3>2, <1>2, <1>6, <1>7
  <2> QED
    BY <2>2, <2>3
<1>10. Hist(commits')
  BY <1>5, <1>9 DEF Hist
<1>11. Grows(commits, commits')
  BY <1>2, <1>6, <1>7 DEF Grows
<1> QED
  BY <1>2, <1>6, <1>8, <1>10, <1>11 DEF New

\* A history holds itself, and stays one when it does not change.
LEMMA SameHistory ==
    ASSUME Hist(commits), target \in DOMAIN commits, UNCHANGED <<commits, target>>
    PROVE  /\ Hist(commits') /\ Grows(commits, commits')
           /\ target' \in DOMAIN commits' /\ target \in commits'[target'].anc
<1> QED
  BY DEF Hist, Grows

\* What is known of one worktree outlives the growth of the history and the
\* advance of the target.
LEMMA LocalIsStable ==
    ASSUME NEW cs, NEW ds, NEW t, NEW u, NEW x \in WtType, NEW r \in RecType,
           NEW p \in ProcType, NEW k \in Nat,
           Hist(cs), Hist(ds), Grows(cs, ds), t \in DOMAIN cs, u \in DOMAIN ds,
           t \in ds[u].anc,
           Local(cs, t, x, r, p, k)
    PROVE  Local(ds, u, x, r, p, k)
<1>1. cs[t].work \subseteq ds[u].work
  BY DEF Hist, Grows
<1>2. GoodTree(ds, x)
  BY DEF Local, GoodTree, Grows
<1>3. 0 \notin DOMAIN cs
  BY DEF Hist
<1>4. GoodRecord(ds, r)
  BY <1>3 DEF Local, GoodRecord, Grows
<1>5. GoodPlace(ds, u, x, r, p)
  <2>1. x.branch \in DOMAIN cs
    BY DEF Local, GoodTree
  <2>2. r.phase # "none" => r.pre \in DOMAIN cs
    BY DEF Local, GoodRecord
  <2>3. r.phase = "integrated" => r.feature \in DOMAIN cs
    BY DEF Local, GoodRecord
  <2>4. /\ p.seen \in {0} \cup DOMAIN ds
        /\ p.pc \in IdlePcs => x.op = "none"
        /\ p.pc = "mresolve" => x.op = "merge"
        /\ p.pc \in AttemptPcs \cup {"flip", "reset"} => r.phase = "integrating"
        /\ p.pc \in LandingPcs \cup {"verdict"} => r.phase = "integrated"
    BY DEF Local, GoodPlace, Grows
  <2>5. p.pc \in AttemptPcs \cup {"flip"} => ds[r.pre].work \subseteq ds[x.branch].work
    BY <2>1, <2>2 DEF Local, GoodPlace, Grows
  <2>6. p.pc \in AttemptPcs => ds[x.branch].work \subseteq ds[r.pre].work \cup ds[u].work
    BY <2>1, <2>2, <1>1 DEF Local, GoodPlace, Grows
  <2>7. p.pc = "cas" => p.seen \in ds[r.feature].anc
    BY <2>3 DEF Local, GoodPlace, Grows, LandingPcs
  <2> QED
    BY <2>4, <2>5, <2>6, <2>7 DEF GoodPlace
<1>6. GoodCatchUp(ds, u, k)
  BY <1>1 DEF Local, GoodCatchUp, Grows
<1> QED
  BY <1>2, <1>4, <1>5, <1>6 DEF Local

\* The step of a worktree keeps the invariant, of the others too.
LEMMA StepKeepsInvariant ==
    ASSUME IInv, NEW w \in Worktrees, Step(w)
    PROVE  IInv'
<1>1. Types' /\ Hist(commits') /\ target' \in DOMAIN commits'
  BY DEF Step, OnlyOf
<1>2. ASSUME NEW v \in Worktrees
      PROVE  Local(commits', target', wt'[v], rec'[v], proc'[v], catchup'[v])
  <2>1. CASE v = w
    BY <2>1 DEF Step
  <2>2. CASE v # w
    <3>1. Local(commits, target, wt[v], rec[v], proc[v], catchup[v])
      BY DEF IInv
    <3>2. /\ wt[v] \in WtType /\ rec[v] \in RecType
          /\ proc[v] \in ProcType /\ catchup[v] \in Nat
      BY DEF IInv, Types
    <3>3. /\ Hist(commits) /\ Hist(commits') /\ Grows(commits, commits')
          /\ target \in DOMAIN commits /\ target' \in DOMAIN commits'
          /\ target \in commits'[target'].anc
      BY DEF IInv, Step, OnlyOf
    <3>4. Local(commits', target', wt[v], rec[v], proc[v], catchup[v])
      BY <3>1, <3>2, <3>3, LocalIsStable
    <3> QED
      BY <3>4, <2>2 DEF Step, OnlyOf
  <2> QED
    BY <2>1, <2>2
<1> QED
  BY <1>1, <1>2 DEF IInv

-----------------------------------------------------------------------------
(* One lemma per action *)

\* The step replaces the state of w by x, r, p and k.
Moves(w, x, r, p, k) ==
    /\ x \in WtType /\ r \in RecType /\ p \in ProcType /\ k \in Nat
    /\ wt' = [wt EXCEPT ![w] = x]
    /\ rec' = [rec EXCEPT ![w] = r]
    /\ proc' = [proc EXCEPT ![w] = p]
    /\ catchup' = [catchup EXCEPT ![w] = k]
    /\ made' \in [Worktrees -> 0..MaxChanges]
    /\ faults' \in 0..MaxFaults

\* What has to be shown of a step that leaves the target alone.
LEMMA MovesStep ==
    ASSUME IInv, NEW w \in Worktrees, NEW x, NEW r, NEW p, NEW k,
           Moves(w, x, r, p, k),
           Hist(commits'), Grows(commits, commits'), target' = target,
           Local(commits', target, x, r, p, k),
           \/ commits[wt[w].branch].work \subseteq commits'[x.branch].work
           \/ proc[w].pc = "reset" /\ rec[w].phase = "integrating" /\ x.branch = rec[w].pre,
           p.pc # "landed" \/ p.result # "ok" \/ (p = proc[w] /\ r = rec[w])
             \/ r.feature \in commits'[target].anc
    PROVE  Step(w)
<1>1. /\ wt'[w] = x /\ rec'[w] = r /\ proc'[w] = p /\ catchup'[w] = k
      /\ \A v \in Worktrees \ {w} :
           wt'[v] = wt[v] /\ rec'[v] = rec[v] /\ proc'[v] = proc[v] /\ catchup'[v] = catchup[v]
      /\ Types'
  BY DEF Moves, IInv, Types
<1>2. target' \in DOMAIN commits' /\ target \in commits'[target'].anc
  BY DEF IInv, Hist, Grows
<1>3. OnlyOf(w)
  BY <1>1, <1>2 DEF OnlyOf
<1>4. Keeps(w)
  BY <1>1 DEF Keeps
<1>5. RealLanding(w) /\ RecordedLanding(w)
  BY <1>1 DEF RealLanding, RecordedLanding
<1> QED
  BY <1>1, <1>3, <1>4, <1>5 DEF Step

\* The same when the history does not change either.
LEMMA QuietStep ==
    ASSUME IInv, NEW w \in Worktrees, NEW x, NEW r, NEW p, NEW k,
           Moves(w, x, r, p, k),
           UNCHANGED <<commits, target>>,
           Local(commits, target, x, r, p, k),
           \/ commits[wt[w].branch].work \subseteq commits[x.branch].work
           \/ proc[w].pc = "reset" /\ rec[w].phase = "integrating" /\ x.branch = rec[w].pre,
           p.pc # "landed" \/ p.result # "ok" \/ (p = proc[w] /\ r = rec[w])
             \/ r.feature \in commits[target].anc
    PROVE  Step(w)
<1>1. Hist(commits') /\ Grows(commits, commits') /\ target' = target /\ commits' = commits
  BY SameHistory DEF IInv
<1> QED
  BY <1>1, MovesStep

FreePcs == {"run", "gate", "seam", "down", "recover"}

\* A process that has not begun an attempt, or not looked at the record yet, relies
\* on nothing.
LEMMA FreePlace ==
    ASSUME NEW cs, NEW t, NEW x, NEW r, NEW p, p.pc \in FreePcs,
           p.seen \in {0} \cup DOMAIN cs
    PROVE  GoodPlace(cs, t, x, r, p)
<1> QED
  BY DEF GoodPlace, FreePcs, IdlePcs, AttemptPcs, LandingPcs

\* The records the steps write are well-typed.
LEMMA AtTypes ==
    ASSUME IntegrateAssumption
    PROVE  /\ \A c \in Pcs : At(c) \in ProcType /\ At(c).pc = c /\ At(c).seen = 0
           /\ FreePcs \subseteq Pcs
           /\ NoRecord \in RecType
<1>1. MaxAttempts \in Nat
  BY DEF IntegrateAssumption
<1> QED
  BY <1>1 DEF At, ProcType, Pcs, FreePcs, NoRecord, RecType

\* Entering a seam, and starting to recover.
LEMMA SeamTypes ==
    ASSUME IntegrateAssumption
    PROVE  /\ \A b \in {"run", "gate"} :
                /\ [At("seam") EXCEPT !.back = b] \in ProcType
                /\ [At("seam") EXCEPT !.back = b].pc = "seam"
                /\ [At("seam") EXCEPT !.back = b].seen = 0
           /\ [At("recover") EXCEPT !.recovering = TRUE] \in ProcType
           /\ [At("recover") EXCEPT !.recovering = TRUE].pc = "recover"
           /\ [At("recover") EXCEPT !.recovering = TRUE].seen = 0
<1>1. \A p \in ProcType :
        /\ \A b \in {"run", "gate"} :
             /\ [p EXCEPT !.back = b] \in ProcType
             /\ [p EXCEPT !.back = b].pc = p.pc
             /\ [p EXCEPT !.back = b].seen = p.seen
        /\ [p EXCEPT !.recovering = TRUE] \in ProcType
        /\ [p EXCEPT !.recovering = TRUE].pc = p.pc
        /\ [p EXCEPT !.recovering = TRUE].seen = p.seen
  BY Zenon DEF ProcType
<1>2. "seam" \in Pcs /\ "recover" \in Pcs
  BY DEF Pcs
<1>3. /\ At("seam") \in ProcType /\ At("seam").pc = "seam" /\ At("seam").seen = 0
      /\ At("recover") \in ProcType /\ At("recover").pc = "recover" /\ At("recover").seen = 0
  BY <1>2, AtTypes
<1> QED
  BY <1>1, <1>3, Zenon

\* A step that only moves its process to where it relies on nothing.
LEMMA FreeStep ==
    ASSUME IInv, NEW w \in Worktrees, NEW r, NEW p, NEW k,
           Moves(w, wt[w], r, p, k),
           UNCHANGED <<commits, target>>,
           p.pc \in FreePcs, p.seen \in {0, proc[w].seen},
           r \in {rec[w], NoRecord}, k \in {catchup[w], 0}
    PROVE  Step(w)
<1>1. Local(commits, target, wt[w], rec[w], proc[w], catchup[w])
  BY DEF IInv
<1>2. GoodPlace(commits, target, wt[w], r, p)
  BY <1>1, FreePlace, Zenon DEF Local, GoodPlace
<1>3. GoodRecord(commits, r)
  BY <1>1 DEF Local, GoodRecord, NoRecord
<1>4. GoodCatchUp(commits, target, k)
  BY <1>1 DEF Local, GoodCatchUp
<1>5. Local(commits, target, wt[w], r, p, k)
  BY <1>1, <1>2, <1>3, <1>4 DEF Local
<1>6. p.pc # "landed"
  BY DEF FreePcs
<1> QED
  BY <1>5, <1>6, QuietStep

\* What the type of the state says of w, and of the variables a step leaves alone.
LEMMA TypesOf ==
    ASSUME IntegrateAssumption, IInv, NEW w \in Worktrees
    PROVE  /\ wt[w] \in WtType /\ rec[w] \in RecType /\ proc[w] \in ProcType
           /\ catchup[w] \in Nat
           /\ proc[w].back \in {"run", "gate"}
           /\ wt = [wt EXCEPT ![w] = wt[w]]
           /\ rec = [rec EXCEPT ![w] = rec[w]]
           /\ proc = [proc EXCEPT ![w] = proc[w]]
           /\ catchup = [catchup EXCEPT ![w] = catchup[w]]
           /\ made \in [Worktrees -> 0..MaxChanges]
           /\ faults \in 0..MaxFaults
           /\ Fault => faults' \in 0..MaxFaults
<1>1. MaxFaults \in Nat
  BY DEF IntegrateAssumption
<1>2. Types
  BY DEF IInv
<1>3. Fault => faults' \in 0..MaxFaults
  BY <1>1, <1>2 DEF Types, Fault
<1>4. proc[w].back \in {"run", "gate"}
  BY <1>2 DEF Types, ProcType
<1> QED
  BY <1>2, <1>3, <1>4 DEF Types

\* Leaving for a place where the process relies on nothing, with or without
\* clearing the record.
LEMMA LeaveStep ==
    ASSUME IntegrateAssumption, IInv, NEW w \in Worktrees, NEW p \in ProcType,
           p.pc \in FreePcs, p.seen \in {0, proc[w].seen},
           proc' = [proc EXCEPT ![w] = p],
           UNCHANGED <<commits, target, wt, catchup, made>>, faults' \in 0..MaxFaults,
           UNCHANGED rec \/ clear_record(w)
    PROVE  Step(w)
<1>1. CASE UNCHANGED rec
  <2>1. Moves(w, wt[w], rec[w], p, catchup[w])
    BY <1>1, TypesOf DEF Moves
  <2> QED
    BY <2>1, FreeStep
<1>2. CASE clear_record(w)
  <2>1. Moves(w, wt[w], NoRecord, p, catchup[w])
    BY <1>2, TypesOf, AtTypes DEF Moves, clear_record
  <2> QED
    BY <2>1, FreeStep
<1> QED
  BY <1>1, <1>2

\* The process ends, and its catch-up thread with it.
LEMMA ExitStep ==
    ASSUME IntegrateAssumption, IInv, NEW w \in Worktrees, Exit(w),
           UNCHANGED <<commits, target, wt, rec, made>>, faults' \in 0..MaxFaults
    PROVE  Step(w)
<1>1. At("down") \in ProcType /\ At("down").pc \in FreePcs /\ At("down").seen = 0
  BY AtTypes DEF Pcs, FreePcs
<1>2. Moves(w, wt[w], rec[w], At("down"), 0)
  BY <1>1, TypesOf DEF Moves, Exit
<1> QED
  BY <1>1, <1>2, FreeStep

\* Where the code leaves for: back to the caller, into a seam, or on with the run.
LEMMA LeavingPlaces ==
    ASSUME IntegrateAssumption, IInv, NEW w \in Worktrees
    PROVE  /\ \A b \in {"run", "gate"} :
                /\ [At("seam") EXCEPT !.back = b] \in ProcType
                /\ [At("seam") EXCEPT !.back = b].pc \in FreePcs
                /\ [At("seam") EXCEPT !.back = b].seen = 0
           /\ [At("recover") EXCEPT !.recovering = TRUE] \in ProcType
           /\ [At("recover") EXCEPT !.recovering = TRUE].pc \in FreePcs
           /\ [At("recover") EXCEPT !.recovering = TRUE].seen = 0
           /\ At(proc[w].back) \in ProcType
           /\ At(proc[w].back).pc \in FreePcs
           /\ At(proc[w].back).seen = 0
           /\ At("run") \in ProcType /\ At("run").pc \in FreePcs /\ At("run").seen = 0
<1>1. proc[w].back \in {"run", "gate"}
  BY TypesOf
<1>2. {"run", "gate", "seam", "recover"} \subseteq FreePcs \cap Pcs
  BY DEF FreePcs, Pcs
<1>3. /\ At(proc[w].back) \in ProcType
      /\ At(proc[w].back).pc \in FreePcs
      /\ At(proc[w].back).seen = 0
      /\ At("run") \in ProcType /\ At("run").pc \in FreePcs /\ At("run").seen = 0
  BY <1>1, <1>2, AtTypes
<1> QED
  BY <1>2, <1>3, SeamTypes

\* Leaving a seam, entering one, and going on.
LEMMA GoOnStep ==
    ASSUME IntegrateAssumption, IInv, NEW w \in Worktrees,
           Return(w) \/ Seam(w, "run") \/ Seam(w, "gate") \/ Retain(w),
           UNCHANGED <<commits, target, wt, catchup, made>>, faults' \in 0..MaxFaults,
           UNCHANGED rec \/ clear_record(w)
    PROVE  Step(w)
<1>1. PICK p \in ProcType : p.pc \in FreePcs /\ p.seen = 0 /\ proc' = [proc EXCEPT ![w] = p]
  BY LeavingPlaces, Zenon DEF Return, Seam, Retain
<1> QED
  BY <1>1, LeaveStep, Zenon

\* The steps that only move the process to where it relies on nothing.
LEMMA RunLoopSteps ==
    ASSUME IntegrateAssumption, IInv, NEW w \in Worktrees,
           \/ Boundary(w) \/ GateUnresolved(w) \/ GateAgain(w) \/ SeamSkips(w)
           \/ SeamRaises(w) \/ HeadUnread(w) \/ Start(w) \/ RunEnds(w) \/ Kill(w)
    PROVE  Step(w)
<1>1. CASE Boundary(w)
  BY <1>1, TypesOf, GoOnStep DEF Boundary, refs
<1>2. CASE GateUnresolved(w)
  BY <1>2, TypesOf, GoOnStep, ExitStep DEF GateUnresolved, refs
<1>3. CASE GateAgain(w)
  <2>1. CASE Idle(w)
    <3> DEFINE p == [proc[w] EXCEPT !.pc = "run"]
    <3>1. p \in ProcType /\ p.pc \in FreePcs /\ p.seen = proc[w].seen
      BY TypesOf DEF ProcType, Pcs, FreePcs
    <3>2. proc' = [proc EXCEPT ![w] = p]
      BY <1>3, <2>1 DEF GateAgain, Goto
    <3> QED
      BY <1>3, <2>1, <3>1, <3>2, TypesOf, LeaveStep, Zenon DEF GateAgain, refs
  <2>2. CASE ~Idle(w)
    BY <1>3, <2>2, TypesOf, ExitStep DEF GateAgain, refs
  <2> QED
    BY <2>1, <2>2
<1>4. CASE SeamSkips(w)
  BY <1>4, TypesOf, GoOnStep DEF SeamSkips, refs
<1>5. CASE SeamRaises(w)
  BY <1>5, TypesOf, GoOnStep DEF SeamRaises, refs
<1>6. CASE HeadUnread(w)
  BY <1>6, TypesOf, GoOnStep DEF HeadUnread, refs
<1>7. CASE Start(w)
  BY <1>7, TypesOf, LeavingPlaces, LeaveStep, Zenon DEF Start, refs
<1>8. CASE RunEnds(w)
  BY <1>8, TypesOf, ExitStep DEF RunEnds, refs
<1>9. CASE Kill(w)
  BY <1>9, TypesOf, ExitStep DEF Kill, refs
<1> QED
  BY <1>1, <1>2, <1>3, <1>4, <1>5, <1>6, <1>7, <1>8, <1>9

\* A checked-out branch with nothing in progress.
LEMMA OnBranchFacts ==
    ASSUME NEW cs, Hist(cs), NEW c \in DOMAIN cs
    PROVE  /\ OnBranch(c) \in WtType /\ GoodTree(cs, OnBranch(c))
           /\ OnBranch(c).branch = c /\ OnBranch(c).head = c /\ OnBranch(c).op = "none"
<1>1. c \in Nat
  BY DEF Hist
<1> QED
  BY <1>1 DEF OnBranch, WtType, GoodTree

\* The work a stored commit holds is well-typed.
LEMMA WorkType ==
    ASSUME NEW cs, Hist(cs), NEW c \in DOMAIN cs
    PROVE  cs[c].work \in SUBSET (Worktrees \X Nat)
<1>1. cs[c] \in CommitType
  BY DEF Hist
<1> QED
  BY <1>1 DEF CommitType

\* A finished replay holds the work of the branch and of what it was put on.
LEMMA FinishReplayFacts ==
    ASSUME IInv, NEW w \in Worktrees, FinishReplay(w)
    PROVE  \E c \in DOMAIN commits' :
              /\ CheckOut(w, c)
              /\ Hist(commits') /\ Grows(commits, commits')
              /\ commits'[c].work = Work(wt[w].branch) \cup Work(wt[w].head)
<1> DEFINE b == wt[w].branch
           h == wt[w].head
<1>1. Hist(commits) /\ b \in DOMAIN commits /\ h \in DOMAIN commits
  BY DEF IInv, Local, GoodTree
<1>2. CASE Work(b) \subseteq Work(h)
  <2>1. CheckOut(w, h) /\ UNCHANGED commits
    BY <1>2 DEF FinishReplay
  <2>2. Hist(commits') /\ Grows(commits, commits')
    BY <1>1, <2>1 DEF Hist, Grows
  <2>3. commits'[h].work = Work(b) \cup Work(h)
    BY <1>2, <2>1 DEF Work
  <2> QED
    BY <1>1, <2>1, <2>2, <2>3
<1>3. CASE ~(Work(b) \subseteq Work(h))
  <2> DEFINE W == Work(h) \cup Work(b)
  <2>1. Store(commits[h].anc, W, FALSE) /\ CheckOut(w, New)
    BY <1>3, Zenon DEF FinishReplay
  <2>2. commits[h].anc \in SUBSET DOMAIN commits
    BY <1>1 DEF Hist
  <2>3. W \in SUBSET (Worktrees \X Nat)
    BY <1>1, WorkType DEF Work
  <2>4. \A a \in commits[h].anc : commits[a].work \subseteq W
    BY <1>1 DEF Hist, Work
  <2>5. /\ Hist(commits') /\ Grows(commits, commits')
        /\ New \in DOMAIN commits' /\ commits'[New].work = W
    <3> HIDE DEF W
    <3> QED
      BY <1>1, <2>1, <2>2, <2>3, <2>4, StoreLemma, Zenon
  <2> QED
    BY <2>1, <2>5
<1> QED
  BY <1>2, <1>3

\* A merge commit holds the work of both sides.
LEMMA MergeWithFacts ==
    ASSUME IInv, NEW w \in Worktrees, NEW d \in DOMAIN commits, MergeWith(w, d)
    PROVE  \E c \in DOMAIN commits' :
              /\ CheckOut(w, c)
              /\ Hist(commits') /\ Grows(commits, commits')
              /\ commits'[c].work = Work(wt[w].branch) \cup Work(d)
<1> DEFINE b == wt[w].branch
           A == commits[b].anc \cup commits[d].anc
           W == Work(b) \cup Work(d)
<1>1. Hist(commits) /\ b \in DOMAIN commits
  BY DEF IInv, Local, GoodTree
<1>2. Store(A, W, TRUE) /\ CheckOut(w, New)
  BY Zenon DEF MergeWith
<1>3. A \in SUBSET DOMAIN commits
  BY <1>1 DEF Hist
<1>4. W \in SUBSET (Worktrees \X Nat)
  BY <1>1, WorkType DEF Work
<1>5. \A a \in A : commits[a].work \subseteq W
  BY <1>1 DEF Hist, Work
<1>6. /\ Hist(commits') /\ Grows(commits, commits')
      /\ New \in DOMAIN commits' /\ commits'[New].work = W
  <2> HIDE DEF A, W
  <2> QED
    BY <1>1, <1>2, <1>3, <1>4, <1>5, StoreLemma, ZenonT(60)
<1> QED
  BY <1>2, <1>6

\* A step that checks out a commit which lost nothing of the branch, or recovery's
\* reset.
LEMMA CheckOutStep ==
    ASSUME IntegrateAssumption, IInv, NEW w \in Worktrees,
           Hist(commits'), Grows(commits, commits'), NEW c \in DOMAIN commits',
           CheckOut(w, c),
           \/ commits[wt[w].branch].work \subseteq commits'[c].work
           \/ proc[w].pc = "reset" /\ rec[w].phase = "integrating" /\ c = rec[w].pre,
           NEW p \in ProcType, proc' = [proc EXCEPT ![w] = p],
           p.seen \in {0, proc[w].seen},
           p.pc \in FreePcs \cup {"flip", "merge", "reset", "verdict"},
           p.pc \in {"flip", "merge"} => proc[w].pc \in AttemptPcs,
           p.pc = "merge" => c = wt[w].branch,
           p.pc = "reset" => rec[w].phase = "integrating",
           p.pc = "verdict" => rec[w].phase = "integrated",
           UNCHANGED rec \/ (clear_record(w) /\ p.pc \in FreePcs),
           UNCHANGED <<target, catchup>>,
           made' \in [Worktrees -> 0..MaxChanges], faults' \in 0..MaxFaults
    PROVE  Step(w)
<1>1. Local(commits, target, wt[w], rec[w], proc[w], catchup[w])
  BY DEF IInv
<1>2. Local(commits', target, wt[w], rec[w], proc[w], catchup[w])
  <2>1. target \in DOMAIN commits' /\ target \in commits'[target].anc
    BY DEF IInv, Hist, Grows
  <2> QED
    BY <1>1, <2>1, TypesOf, LocalIsStable, ZenonT(60) DEF IInv
<1>3. /\ OnBranch(c) \in WtType /\ GoodTree(commits', OnBranch(c))
      /\ OnBranch(c).branch = c /\ OnBranch(c).op = "none"
  BY OnBranchFacts
<1>4. PICK r \in {rec[w], NoRecord} :
         rec' = [rec EXCEPT ![w] = r] /\ (p.pc \notin FreePcs => r = rec[w])
  BY TypesOf DEF clear_record
<1>5. Moves(w, OnBranch(c), r, p, catchup[w])
  BY <1>3, <1>4, TypesOf, AtTypes DEF Moves, CheckOut
<1>6. GoodPlace(commits', target, OnBranch(c), r, p)
  <2>1. p.seen \in {0} \cup DOMAIN commits'
    BY <1>2 DEF Local, GoodPlace
  <2>2. CASE p.pc \in FreePcs
    BY <2>1, <2>2, FreePlace
  <2>3. CASE p.pc \in {"flip", "merge"}
    <3>1. /\ rec[w].phase = "integrating"
          /\ commits'[rec[w].pre].work \subseteq commits'[wt[w].branch].work
          /\ commits'[wt[w].branch].work \subseteq commits'[rec[w].pre].work \cup commits'[target].work
      BY <2>3, <1>2 DEF Local, GoodPlace
    <3>2. commits'[wt[w].branch].work = commits[wt[w].branch].work
      BY <1>1 DEF Local, GoodTree, Grows
    <3>3. r = rec[w] /\ proc[w].pc # "reset"
      BY <1>4, <2>3 DEF FreePcs, AttemptPcs
    <3> QED
      BY <2>1, <2>3, <3>1, <3>2, <3>3, <1>3, ZenonT(60) DEF GoodPlace, AttemptPcs, LandingPcs
  <2>4. CASE p.pc \in {"reset", "verdict"}
    <3>1. r = rec[w]
      BY <1>4, <2>4 DEF FreePcs
    <3> QED
      BY <2>1, <2>4, <3>1, <1>3 DEF GoodPlace, AttemptPcs, LandingPcs, IdlePcs
  <2> QED
    BY <2>2, <2>3, <2>4
<1>7. GoodRecord(commits', r)
  BY <1>2, <1>4 DEF Local, GoodRecord, NoRecord
<1>8. Local(commits', target, OnBranch(c), r, p, catchup[w])
  BY <1>2, <1>3, <1>6, <1>7 DEF Local
<1>9. p.pc # "landed"
  BY DEF FreePcs
<1> QED
  BY <1>3, <1>5, <1>8, <1>9, MovesStep

\* The same, for a step that checks out a commit it did not make.
LEMMA QuietCheckOut ==
    ASSUME IInv, UNCHANGED commits
    PROVE  commits' = commits /\ Hist(commits') /\ Grows(commits, commits')
<1> QED
  BY DEF IInv, Hist, Grows

\* A process that moves on and keeps what it knows.
LEMMA GotoFacts ==
    ASSUME IntegrateAssumption, IInv, NEW w \in Worktrees, NEW c \in Pcs
    PROVE  /\ [proc[w] EXCEPT !.pc = c] \in ProcType
           /\ [proc[w] EXCEPT !.pc = c].pc = c
           /\ [proc[w] EXCEPT !.pc = c].seen = proc[w].seen
           /\ [proc[w] EXCEPT !.pc = c].result = proc[w].result
<1>1. proc[w] \in ProcType
  BY TypesOf
<1> QED
  BY <1>1 DEF ProcType

\* A phase commits on top of its branch.
LEMMA CommitStep ==
    ASSUME IntegrateAssumption, IInv, NEW w \in Worktrees, Commit(w)
    PROVE  Step(w)
<1> DEFINE b == wt[w].branch
           n == made[w] + 1
           W == Work(b) \cup {<<w, n>>}
<1>1. Hist(commits) /\ b \in DOMAIN commits
  BY DEF IInv, Local, GoodTree
<1>2. n \in Nat /\ made'[w] = n /\ made' \in [Worktrees -> 0..MaxChanges]
  <2>1. MaxChanges \in Nat
    BY DEF IntegrateAssumption
  <2> QED
    BY <2>1 DEF Commit, IInv, Types
<1>3. Store(commits[b].anc, W, FALSE)
  BY <1>2, Zenon DEF Commit
<1>4. commits[b].anc \in SUBSET DOMAIN commits
  BY <1>1 DEF Hist
<1>5. W \in SUBSET (Worktrees \X Nat)
  BY <1>1, <1>2, WorkType DEF Work
<1>6. \A a \in commits[b].anc : commits[a].work \subseteq W
  BY <1>1 DEF Hist, Work
<1>7. /\ Hist(commits') /\ Grows(commits, commits')
      /\ New \in DOMAIN commits' /\ commits'[New].work = W
  <2> HIDE DEF W
  <2> QED
    BY <1>1, <1>3, <1>4, <1>5, <1>6, StoreLemma, ZenonT(60)
<1>8. PICK p \in ProcType : p.pc \in FreePcs /\ p.seen = 0 /\ proc' = [proc EXCEPT ![w] = p]
  BY LeavingPlaces, Zenon DEF Commit, Seam
<1>9. p.pc \notin {"flip", "merge", "reset", "verdict"}
  BY <1>8 DEF FreePcs
<1>10. CheckOut(w, New) /\ UNCHANGED <<target, rec, catchup, faults>>
  BY DEF Commit, refs
<1>11. commits[b].work \subseteq commits'[New].work
  BY <1>7 DEF Work
<1>12. faults' \in 0..MaxFaults
  BY <1>10, TypesOf
<1> QED
  BY <1>2, <1>7, <1>8, <1>9, <1>10, <1>11, <1>12, CheckOutStep, Zenon

\* A replay or a merge that is finished, by git or by a resolver.
LEMMA FinishStep ==
    ASSUME IntegrateAssumption, IInv, NEW w \in Worktrees,
           \/ FinishReplay(w)
           \/ \E d \in DOMAIN commits : MergeWith(w, d),
           NEW p \in ProcType, proc' = [proc EXCEPT ![w] = p],
           p.seen \in {0, proc[w].seen},
           p.pc \in FreePcs \cup {"flip"},
           p.pc = "flip" => proc[w].pc \in AttemptPcs,
           UNCHANGED <<target, rec, catchup, made, faults>>
    PROVE  Step(w)
<1>1. PICK c \in DOMAIN commits' :
         /\ CheckOut(w, c)
         /\ Hist(commits') /\ Grows(commits, commits')
         /\ commits[wt[w].branch].work \subseteq commits'[c].work
  BY FinishReplayFacts, MergeWithFacts DEF Work
<1>2. p.pc \notin {"merge", "reset", "verdict"}
  BY DEF FreePcs
<1> QED
  BY <1>1, <1>2, TypesOf, CheckOutStep, Zenon

\* A paused merge has its other side.
LEMMA PausedMerge ==
    ASSUME IInv, NEW w \in Worktrees, wt[w].op = "merge"
    PROVE  wt[w].other \in DOMAIN commits
<1> QED
  BY DEF IInv, Local, GoodTree

\* The gate's resolver, a replay and the resolvers of an attempt finish.
LEMMA FinishSteps ==
    ASSUME IntegrateAssumption, IInv, NEW w \in Worktrees,
           GateResolved(w) \/ ReplayEnds(w) \/ StopsResolved(w) \/ MergeResolved(w)
    PROVE  Step(w)
<1>1. CASE GateResolved(w)
  <2>1. FinishReplay(w) \/ \E d \in DOMAIN commits : MergeWith(w, d)
    BY <1>1, PausedMerge DEF GateResolved
  <2>2. PICK p \in ProcType : p.pc \in FreePcs /\ p.seen = 0 /\ proc' = [proc EXCEPT ![w] = p]
    BY <1>1, LeavingPlaces, Zenon DEF GateResolved, Seam
  <2>3. p.pc # "flip"
    BY <2>2 DEF FreePcs
  <2>4. UNCHANGED <<target, rec, catchup, made, faults>>
    BY <1>1 DEF GateResolved, refs
  <2> QED
    BY <2>1, <2>2, <2>3, <2>4, FinishStep, Zenon
<1>2. CASE ReplayEnds(w) \/ StopsResolved(w)
  <2>1. "flip" \in Pcs /\ proc[w].pc \in AttemptPcs
    BY <1>2 DEF Pcs, IdlePcs, AttemptPcs, ReplayEnds, StopsResolved
  <2>2. /\ FinishReplay(w) /\ Goto(w, "flip")
        /\ UNCHANGED <<target, rec, catchup, made, faults>>
    BY <1>2 DEF ReplayEnds, StopsResolved, refs
  <2> DEFINE p == [proc[w] EXCEPT !.pc = "flip"]
  <2>3. p \in ProcType /\ p.pc = "flip" /\ p.seen = proc[w].seen
    BY <2>1, GotoFacts
  <2>4. proc' = [proc EXCEPT ![w] = p]
    BY <2>2 DEF Goto
  <2> QED
    BY <2>1, <2>2, <2>3, <2>4, FinishStep, Zenon
<1>3. CASE MergeResolved(w)
  <2> DEFINE p == [proc[w] EXCEPT !.pc = "flip", !.merged = TRUE]
  <2>1. p \in ProcType /\ p.pc = "flip" /\ p.seen = proc[w].seen
    BY TypesOf, ZenonT(60) DEF ProcType, Pcs, IdlePcs
  <2>2. proc[w].pc = "mresolve" /\ MergeWith(w, wt[w].other)
    BY <1>3 DEF MergeResolved
  <2>3. wt[w].op = "merge"
    BY <2>2 DEF IInv, Local, GoodPlace
  <2>4. \E d \in DOMAIN commits : MergeWith(w, d)
    BY <2>2, <2>3, PausedMerge
  <2>5. proc' = [proc EXCEPT ![w] = p] /\ UNCHANGED <<target, rec, catchup, made, faults>>
    BY <1>3, Zenon DEF MergeResolved, refs
  <2>6. proc[w].pc \in AttemptPcs
    BY <2>2 DEF AttemptPcs
  <2> QED
    BY <2>1, <2>4, <2>5, <2>6, FinishStep, Zenon
<1> QED
  BY <1>1, <1>2, <1>3

\* What holds of w in an attempt.
LEMMA InAttemptFacts ==
    ASSUME IInv, NEW w \in Worktrees
    PROVE  /\ wt[w].branch \in DOMAIN commits /\ wt[w].head \in DOMAIN commits
           /\ target \in DOMAIN commits /\ Hist(commits)
           /\ Local(commits, target, wt[w], rec[w], proc[w], catchup[w])
           /\ wt[w].op # "rebase" => wt[w].head = wt[w].branch
           /\ proc[w].pc \in IdlePcs => wt[w].op = "none" /\ wt[w].head = wt[w].branch
<1>1. Local(commits, target, wt[w], rec[w], proc[w], catchup[w])
  BY DEF IInv
<1> QED
  BY <1>1 DEF IInv, Local, GoodTree, GoodPlace

\* The endpoint merge has nothing to do, fast-forwards the branch, or commits.
LEMMA MergeEndsStep ==
    ASSUME IntegrateAssumption, IInv, NEW w \in Worktrees, MergeEnds(w)
    PROVE  Step(w)
<1> DEFINE p == [proc[w] EXCEPT !.pc = "flip", !.merged = TRUE]
<1>1. p \in ProcType /\ p.pc = "flip" /\ p.seen = proc[w].seen
  BY TypesOf, ZenonT(60) DEF ProcType, Pcs, IdlePcs
<1>2. proc[w].pc \in AttemptPcs /\ proc[w].pc \in IdlePcs
  BY DEF MergeEnds, AttemptPcs, IdlePcs
<1>3. proc' = [proc EXCEPT ![w] = p] /\ UNCHANGED <<target, rec, catchup, made, faults>>
  BY Zenon DEF MergeEnds, refs
<1>4. CASE IsAncestor(target, wt[w].head)
  <2>1. UNCHANGED <<commits, wt>>
    BY <1>4 DEF MergeEnds
  <2>2. Local(commits, target, wt[w], rec[w], p, catchup[w])
    BY <1>1, <1>2, InAttemptFacts DEF Local, GoodPlace, AttemptPcs, IdlePcs, LandingPcs
  <2>3. Moves(w, wt[w], rec[w], p, catchup[w])
    BY <1>1, <1>3, <2>1, TypesOf DEF Moves
  <2> QED
    BY <1>1, <1>3, <2>1, <2>2, <2>3, QuietStep, Zenon
<1>5. CASE ~IsAncestor(target, wt[w].head) /\ IsAncestor(wt[w].head, target)
  <2>1. CheckOut(w, target) /\ UNCHANGED commits
    BY <1>5 DEF MergeEnds
  <2>2. commits[wt[w].branch].work \subseteq commits[target].work
    BY <1>2, <1>5, InAttemptFacts DEF IsAncestor, Hist
  <2> QED
    BY <1>1, <1>2, <1>3, <2>1, <2>2, QuietCheckOut, InAttemptFacts, TypesOf, CheckOutStep, Zenon
<1>6. CASE ~IsAncestor(target, wt[w].head) /\ ~IsAncestor(wt[w].head, target)
  <2>1. MergeWith(w, target)
    BY <1>6 DEF MergeEnds
  <2> QED
    BY <1>1, <1>2, <1>3, <2>1, InAttemptFacts, FinishStep, Zenon
<1> QED
  BY <1>4, <1>5, <1>6

\* The steps that abort a paused operation.
LEMMA AbortSteps ==
    ASSUME IntegrateAssumption, IInv, NEW w \in Worktrees,
           _fallback_to_endpoint_merge(w) \/ abort_merge(w) \/ RecoverUnowned(w)
    PROVE  Step(w)
<1>1. CASE _fallback_to_endpoint_merge(w)
  <2>1. CASE Return(w) /\ UNCHANGED wt
    BY <1>1, <2>1, TypesOf, GoOnStep DEF _fallback_to_endpoint_merge, refs
  <2>2. CASE Abort(w) /\ Goto(w, "merge") /\ UNCHANGED faults
    <3> DEFINE p == [proc[w] EXCEPT !.pc = "merge"]
    <3>1. proc[w].pc \in AttemptPcs /\ "merge" \in Pcs /\ UNCHANGED <<commits, target, rec, catchup, made>>
      BY <1>1 DEF _fallback_to_endpoint_merge, AttemptPcs, Pcs, refs
    <3>2. p \in ProcType /\ p.pc = "merge" /\ p.seen = proc[w].seen
      BY <3>1, GotoFacts
    <3>3. proc' = [proc EXCEPT ![w] = p] /\ CheckOut(w, wt[w].branch)
      BY <2>2 DEF Goto, Abort
    <3> QED
      BY <2>2, <3>1, <3>2, <3>3, QuietCheckOut, InAttemptFacts, TypesOf, CheckOutStep, ZenonT(60)
  <2> QED
    BY <1>1, <2>1, <2>2 DEF _fallback_to_endpoint_merge
<1>2. CASE abort_merge(w)
  <2>1. CASE Abort(w) /\ clear_record(w) /\ UNCHANGED faults
    <3>1. UNCHANGED <<commits, target, catchup, made>> /\ CheckOut(w, wt[w].branch)
      BY <1>2, <2>1 DEF abort_merge, Abort, refs
    <3>2. PICK p \in ProcType : p.pc \in FreePcs /\ p.seen = 0 /\ proc' = [proc EXCEPT ![w] = p]
      BY <1>2, LeavingPlaces, Zenon DEF abort_merge, Return
    <3>3. p.pc \notin {"flip", "merge", "reset", "verdict"}
      BY <3>2 DEF FreePcs
    <3> QED
      BY <2>1, <3>1, <3>2, <3>3, QuietCheckOut, InAttemptFacts, TypesOf, CheckOutStep, Zenon
  <2>2. CASE Fault /\ UNCHANGED <<wt, rec>>
    BY <1>2, <2>2, TypesOf, GoOnStep DEF abort_merge, refs
  <2> QED
    BY <1>2, <2>1, <2>2 DEF abort_merge
<1>3. CASE RecoverUnowned(w)
  <2>1. CASE Abort(w) /\ UNCHANGED faults
    <3>1. UNCHANGED <<commits, target, rec, catchup, made>> /\ CheckOut(w, wt[w].branch)
      BY <1>3, <2>1 DEF RecoverUnowned, Abort, refs
    <3>2. PICK p \in ProcType : p.pc \in FreePcs /\ p.seen = 0 /\ proc' = [proc EXCEPT ![w] = p]
      BY <1>3, LeavingPlaces, Zenon DEF RecoverUnowned, StartUp, Seam
    <3>3. p.pc \notin {"flip", "merge", "reset", "verdict"}
      BY <3>2 DEF FreePcs
    <3> QED
      BY <2>1, <3>1, <3>2, <3>3, QuietCheckOut, InAttemptFacts, TypesOf, CheckOutStep, ZenonT(60)
  <2>2. CASE UNCHANGED wt /\ faults' \in 0..MaxFaults
    BY <1>3, <2>2, GoOnStep DEF RecoverUnowned, StartUp, refs
  <2> QED
    BY <1>3, <2>1, <2>2, TypesOf DEF RecoverUnowned
<1> QED
  BY <1>1, <1>2, <1>3

\* Recovery aborts what is in progress, then goes by the phase of the record.
LEMMA RecoverAbortsStep ==
    ASSUME IntegrateAssumption, IInv, NEW w \in Worktrees, RecoverAborts(w)
    PROVE  Step(w)
<1>1. UNCHANGED <<commits, target, rec, catchup, made>>
  BY DEF RecoverAborts, refs
<1>2. rec[w].phase \in {"integrating", "integrated"}
  <2>1. GoodRecord(commits, rec[w]) /\ rec[w].phase \in {"none", "integrating", "integrated"}
    BY TypesOf, InAttemptFacts DEF Local, RecType
  <2> QED
    BY <2>1 DEF RecoverAborts, GoodRecord
<1> DEFINE q == IF rec[w].phase = "integrating" THEN "reset" ELSE "verdict"
           p == [proc[w] EXCEPT !.pc = q]
<1>3. q \in Pcs
  BY DEF Pcs, IdlePcs
<1>4. p \in ProcType /\ p.pc = q /\ p.seen = proc[w].seen
  <2> HIDE DEF q
  <2> QED
    BY <1>3, GotoFacts
<1>5. CASE Abort(w) /\ Goto(w, q) /\ UNCHANGED faults
  <2>1. proc' = [proc EXCEPT ![w] = p] /\ CheckOut(w, wt[w].branch)
    BY <1>5 DEF Goto, Abort
  <2>2. /\ p.pc \in {"reset", "verdict"}
        /\ p.pc = "reset" => rec[w].phase = "integrating"
        /\ p.pc = "verdict" => rec[w].phase = "integrated"
    BY <1>2, <1>4
  <2> QED
    <3> HIDE DEF p
    <3> QED
      BY <1>1, <1>4, <1>5, <2>1, <2>2, QuietCheckOut, InAttemptFacts, TypesOf, CheckOutStep, Zenon
<1>6. CASE Fault /\ UNCHANGED wt /\ Goto(w, "reset") /\ rec[w].phase = "integrating"
  <2>1. proc' = [proc EXCEPT ![w] = p] /\ p.pc = "reset"
    BY <1>4, <1>6 DEF Goto
  <2>2. Moves(w, wt[w], rec[w], p, catchup[w])
    BY <1>1, <1>4, <1>6, <2>1, TypesOf DEF Moves
  <2>3. Local(commits, target, wt[w], rec[w], p, catchup[w])
    <3> HIDE DEF p
    <3> QED
      BY <1>4, <1>6, <2>1, InAttemptFacts, Zenon
         DEF Local, GoodPlace, AttemptPcs, IdlePcs, LandingPcs
  <2> QED
    BY <1>1, <2>1, <2>2, <2>3, QuietStep, Zenon
<1>7. CASE Fault /\ UNCHANGED wt /\ Retain(w)
  BY <1>1, <1>7, TypesOf, GoOnStep
<1> QED
  BY <1>5, <1>6, <1>7 DEF RecoverAborts

\* recover_integrating_record moves the branch back, or what a paused rebase is on.
LEMMA RecoverResetsStep ==
    ASSUME IntegrateAssumption, IInv, NEW w \in Worktrees, RecoverResets(w)
    PROVE  Step(w)
<1>1. proc[w].pc = "reset" /\ UNCHANGED <<commits, target, catchup, made>>
  BY DEF RecoverResets, refs
<1>2. rec[w].phase = "integrating" /\ rec[w].pre \in DOMAIN commits
  BY <1>1, InAttemptFacts DEF Local, GoodPlace, GoodRecord
<1>3. CASE Fault /\ UNCHANGED <<wt, rec>> /\ Retain(w)
  BY <1>1, <1>3, TypesOf, GoOnStep
<1>4. ASSUME reset_hard(w, rec[w].pre), UNCHANGED faults,
             \/ Idle(w) /\ clear_record(w) /\ StartUp(w)
             \/ ~Idle(w) /\ UNCHANGED rec /\ Retain(w)
      PROVE  Step(w)
  <2>1. PICK p \in ProcType : p.pc \in FreePcs /\ p.seen = 0 /\ proc' = [proc EXCEPT ![w] = p]
    BY <1>4, LeavingPlaces, Zenon DEF StartUp, Seam, Retain
  <2>2. p.pc \notin {"flip", "merge", "reset", "verdict", "landed"}
    BY <2>1 DEF FreePcs
  <2>3. CASE wt[w].op # "rebase"
    <3>1. CheckOut(w, rec[w].pre)
      BY <1>4, <2>3 DEF reset_hard, CheckOut
    <3>2. UNCHANGED rec \/ clear_record(w)
      BY <1>4
    <3> QED
      BY <1>1, <1>2, <1>4, <2>1, <2>2, <3>1, <3>2, QuietCheckOut, TypesOf, CheckOutStep, Zenon
  <2>4. CASE wt[w].op = "rebase"
    <3> DEFINE x == [wt[w] EXCEPT !.head = rec[w].pre, !.stopped = FALSE]
    <3>1. x \in WtType /\ x.branch = wt[w].branch
      BY TypesOf, ZenonT(60) DEF WtType, RecType
    <3>2. Moves(w, x, rec[w], p, catchup[w])
      BY <1>1, <1>4, <2>1, <2>4, <3>1, TypesOf DEF Moves, reset_hard, Idle
    <3>3. GoodTree(commits, x)
      BY <1>2, <2>4, TypesOf, InAttemptFacts DEF Local, GoodTree, WtType
    <3>4. Local(commits, target, x, rec[w], p, catchup[w])
      <4> HIDE DEF x
      <4> QED
        BY <2>1, <3>3, InAttemptFacts, FreePlace DEF Local
    <3> QED
      BY <1>1, <2>2, <3>1, <3>2, <3>4, QuietStep, Zenon
  <2> QED
    BY <2>3, <2>4
<1> QED
  BY <1>3, <1>4 DEF RecoverResets

\* A step of fast_forward_target.
LEMMA LandStep ==
    ASSUME IntegrateAssumption, IInv, NEW w \in Worktrees,
           proc[w].pc \in LandingPcs \cup {"verdict"},
           NEW p \in ProcType, proc' = [proc EXCEPT ![w] = p], p.pc \in LandingPcs,
           p.seen \in {0, proc[w].seen, target},
           p.pc = "cas" => p.seen \in commits[rec[w].feature].anc,
           \/ target' = target
           \/ target' = rec[w].feature /\ target \in commits[rec[w].feature].anc,
           p.pc = "landed" /\ p.result = "ok" => rec[w].feature \in commits[target'].anc,
           UNCHANGED <<commits, wt, rec, catchup, made>>, faults' \in 0..MaxFaults
    PROVE  Step(w)
<1>1. Hist(commits) /\ Local(commits, target, wt[w], rec[w], proc[w], catchup[w])
  BY DEF IInv
<1>2. wt[w].op = "none" /\ rec[w].phase = "integrated"
  BY <1>1 DEF Local, GoodPlace, IdlePcs
<1>3. /\ rec[w].feature \in DOMAIN commits
      /\ commits[rec[w].pre].work \subseteq commits[rec[w].feature].work
  BY <1>1, <1>2 DEF Local, GoodRecord
<1>4. Local(commits, target, wt[w], rec[w], p, catchup[w])
  <2>1. p.pc \notin AttemptPcs \cup {"mresolve", "flip", "reset"}
    BY DEF LandingPcs, AttemptPcs
  <2> QED
    BY <1>1, <1>2, <2>1, InAttemptFacts, Zenon DEF Local, GoodPlace
<1>5. target' \in DOMAIN commits /\ target \in commits[target'].anc /\ target \in DOMAIN commits
  BY <1>1, <1>3, Zenon DEF IInv, Hist
<1>6. commits' = commits /\ Hist(commits') /\ Grows(commits, commits')
  BY QuietCheckOut
<1>7. Local(commits', target', wt[w], rec[w], p, catchup[w])
  BY <1>1, <1>4, <1>5, <1>6, TypesOf, LocalIsStable
<1>8. /\ wt'[w] = wt[w] /\ rec'[w] = rec[w] /\ proc'[w] = p /\ catchup'[w] = catchup[w]
      /\ \A v \in Worktrees \ {w} :
           wt'[v] = wt[v] /\ rec'[v] = rec[v] /\ proc'[v] = proc[v] /\ catchup'[v] = catchup[v]
      /\ Types'
  BY DEF IInv, Types
<1>9. OnlyOf(w)
  BY <1>5, <1>6, <1>8 DEF OnlyOf
<1>10. Keeps(w)
  BY <1>6, <1>8 DEF Keeps
<1>11. RealLanding(w) /\ RecordedLanding(w)
  BY <1>2, <1>3, <1>6, <1>8 DEF RealLanding, RecordedLanding
<1> QED
  BY <1>7, <1>8, <1>9, <1>10, <1>11, ZenonT(60) DEF Step

\* The end of fast_forward_target.
LEMMA LandingFacts ==
    ASSUME IntegrateAssumption, IInv, NEW w \in Worktrees,
           NEW q \in {"ok", "moved", "failed", "raised"}, Landing(w, q)
    PROVE  \E p \in ProcType :
              /\ proc' = [proc EXCEPT ![w] = p]
              /\ p.pc = "landed" /\ p.seen = 0 /\ p.result = q
<1> DEFINE p == [proc[w] EXCEPT !.pc = "landed", !.seen = 0, !.result = q]
<1>1. p \in ProcType /\ p.pc = "landed" /\ p.seen = 0 /\ p.result = q
  BY TypesOf, ZenonT(60) DEF ProcType, Pcs, IdlePcs, LandingPcs
<1>2. proc' = [proc EXCEPT ![w] = p]
  BY Zenon DEF Landing
<1> QED
  BY <1>1, <1>2, Zenon

\* A landing that reports q.
LEMMA LandedStep ==
    ASSUME IntegrateAssumption, IInv, NEW w \in Worktrees,
           proc[w].pc \in LandingPcs,
           NEW q \in {"ok", "moved", "failed", "raised"}, Landing(w, q),
           \/ target' = target
           \/ target' = rec[w].feature /\ target \in commits[rec[w].feature].anc,
           q = "ok" => rec[w].feature \in commits[target'].anc,
           UNCHANGED <<commits, wt, rec, catchup, made>>, faults' \in 0..MaxFaults
    PROVE  Step(w)
<1>1. PICK p \in ProcType :
         /\ proc' = [proc EXCEPT ![w] = p]
         /\ p.pc = "landed" /\ p.seen = 0 /\ p.result = q
  BY LandingFacts
<1>2. p.pc \in LandingPcs
  BY <1>1 DEF LandingPcs
<1> QED
  BY <1>1, <1>2, LandStep, Zenon

\* A step to another place c of fast_forward_target.
LEMMA LandGotoStep ==
    ASSUME IntegrateAssumption, IInv, NEW w \in Worktrees,
           proc[w].pc \in LandingPcs \cup {"verdict"},
           NEW c \in LandingPcs \ {"cas", "landed"}, Goto(w, c),
           UNCHANGED <<commits, target, wt, rec, catchup, made>>, faults' \in 0..MaxFaults
    PROVE  Step(w)
<1> DEFINE p == [proc[w] EXCEPT !.pc = c]
<1>1. p \in ProcType /\ p.pc = c /\ p.seen = proc[w].seen
  BY GotoFacts DEF Pcs, IdlePcs
<1>2. proc' = [proc EXCEPT ![w] = p]
  BY DEF Goto
<1> QED
  BY <1>1, <1>2, LandStep, Zenon

\* The steps of fast_forward_target, by either of its two ways.
LEMMA LandingSteps ==
    ASSUME IntegrateAssumption, IInv, NEW w \in Worktrees,
           \/ LookUpTarget(w) \/ ObserveTarget(w) \/ compare_and_swap_branch(w)
           \/ fast_forward_via_worktree(w) \/ reclaim_dirty_target_worktree(w)
    PROVE  Step(w)
<1>1. proc[w].pc \in LandingPcs /\ UNCHANGED <<commits, wt, rec, catchup, made>>
  BY DEF LandingPcs, LookUpTarget, ObserveTarget, compare_and_swap_branch,
         fast_forward_via_worktree, reclaim_dirty_target_worktree
<1>2. {"observe", "ffonly", "reclaim", "ffagain"} \subseteq LandingPcs \ {"cas", "landed"}
  BY DEF LandingPcs
<1>3. CASE LookUpTarget(w)
  BY <1>1, <1>2, <1>3, TypesOf, LandGotoStep, LandedStep DEF LookUpTarget, refs
<1>4. CASE ObserveTarget(w)
  <2>1. CASE ~IsAncestor(target, rec[w].feature)
    BY <1>1, <1>4, <2>1, TypesOf, LandedStep DEF ObserveTarget, refs
  <2>2. CASE IsAncestor(target, rec[w].feature)
    <3> DEFINE p == [proc[w] EXCEPT !.pc = "cas", !.seen = target]
    <3>1. target \in Nat
      BY DEF IInv, Hist
    <3>2. p \in ProcType /\ p.pc = "cas" /\ p.seen = target
      BY <3>1, TypesOf, ZenonT(60) DEF ProcType, Pcs, IdlePcs, LandingPcs
    <3>3. proc' = [proc EXCEPT ![w] = p] /\ UNCHANGED <<target, faults>>
      BY <1>4, <2>2, Zenon DEF ObserveTarget, refs
    <3>4. "cas" \in LandingPcs
      BY DEF LandingPcs
    <3> QED
      BY <1>1, <2>2, <3>2, <3>3, <3>4, TypesOf, LandStep, ZenonT(60) DEF IsAncestor
  <2> QED
    BY <2>1, <2>2
<1>5. CASE compare_and_swap_branch(w)
  <2>1. proc[w].pc = "cas" /\ proc[w].seen \in commits[rec[w].feature].anc
    BY <1>5, InAttemptFacts, Zenon DEF compare_and_swap_branch, Local, GoodPlace
  <2>2. rec[w].feature \in commits[rec[w].feature].anc
    <3>1. rec[w].phase = "integrated"
      BY <1>1, InAttemptFacts, ZenonT(60) DEF Local, GoodPlace
    <3> QED
      BY <3>1, InAttemptFacts, Zenon DEF Local, GoodRecord, Hist
  <2> QED
    BY <1>1, <1>5, <2>1, <2>2, TypesOf, LandedStep DEF compare_and_swap_branch
<1>6. CASE fast_forward_via_worktree(w)
  <2>1. rec[w].feature \in commits[rec[w].feature].anc
    <3>1. rec[w].phase = "integrated"
      BY <1>1, InAttemptFacts, Zenon DEF Local, GoodPlace
    <3> QED
      BY <3>1, InAttemptFacts DEF Local, GoodRecord, Hist
  <2>2. faults' \in 0..MaxFaults
    BY <1>6, TypesOf DEF fast_forward_via_worktree
  <2>3. CASE IsAncestor(target, rec[w].feature) /\ target' = rec[w].feature /\ Landing(w, "ok")
    BY <1>1, <2>1, <2>2, <2>3, LandedStep DEF IsAncestor
  <2>4. CASE IsAncestor(rec[w].feature, target) /\ UNCHANGED target /\ Landing(w, "ok")
    BY <1>1, <2>2, <2>4, LandedStep DEF IsAncestor
  <2>5. CASE UNCHANGED target /\ Goto(w, "reclaim")
    BY <1>1, <1>2, <2>2, <2>5, LandGotoStep
  <2>6. CASE UNCHANGED target /\ Landing(w, "failed")
    BY <1>1, <2>2, <2>6, LandedStep
  <2> QED
    BY <1>6, <2>3, <2>4, <2>5, <2>6, ZenonT(60) DEF fast_forward_via_worktree
<1>7. CASE reclaim_dirty_target_worktree(w)
  BY <1>1, <1>2, <1>7, TypesOf, LandedStep, LandGotoStep DEF reclaim_dirty_target_worktree, refs
<1> QED
  BY <1>3, <1>4, <1>5, <1>6, <1>7

\* Recovery's verdict on an "integrated" record, and the end of its landing.
LEMMA VerdictSteps ==
    ASSUME IntegrateAssumption, IInv, NEW w \in Worktrees,
           RecoverDecides(w) \/ _land_and_reconcile(w)
    PROVE  Step(w)
<1>1. CASE RecoverDecides(w)
  <2>1. "lookup" \in LandingPcs \ {"cas", "landed"}
    BY DEF LandingPcs
  <2> QED
    BY <1>1, <2>1, TypesOf, GoOnStep, LandGotoStep DEF RecoverDecides, StartUp, refs
<1>2. CASE _land_and_reconcile(w)
  BY <1>2, TypesOf, GoOnStep DEF _land_and_reconcile, StartUp, refs
<1> QED
  BY <1>1, <1>2

\* A step inside an attempt that leaves the branch where it is.
LEMMA AttemptStep ==
    ASSUME IntegrateAssumption, IInv, NEW w \in Worktrees, proc[w].pc \in AttemptPcs,
           NEW x \in WtType, GoodTree(commits, x), x.branch = wt[w].branch,
           wt' = [wt EXCEPT ![w] = x],
           NEW p \in ProcType, p.pc \in AttemptPcs \cup FreePcs \cup {"flip"},
           p.seen \in {0, proc[w].seen},
           p.pc \in IdlePcs => x.op = "none",
           p.pc = "mresolve" => x.op = "merge",
           proc' = [proc EXCEPT ![w] = p],
           UNCHANGED <<commits, target, rec, catchup, made>>, faults' \in 0..MaxFaults
    PROVE  Step(w)
<1>1. Local(commits, target, wt[w], rec[w], proc[w], catchup[w])
  BY Zenon DEF IInv
<1>2. Moves(w, x, rec[w], p, catchup[w])
  BY TypesOf DEF Moves
<1>3. p.pc \notin LandingPcs \cup {"verdict", "reset", "cas", "landed"}
  BY DEF AttemptPcs, FreePcs, LandingPcs
<1>4. GoodPlace(commits, target, x, rec[w], p)
  <2>1. CASE p.pc \in FreePcs
    BY <1>1, <2>1, FreePlace, ZenonT(60) DEF Local, GoodPlace
  <2>2. CASE p.pc \notin FreePcs
    BY <1>1, <1>3, <2>2 DEF Local, GoodPlace
  <2> QED
    BY <2>1, <2>2
<1>5. Local(commits, target, x, rec[w], p, catchup[w])
  BY <1>1, <1>4 DEF Local
<1> QED
  BY <1>2, <1>3, <1>5, QuietStep, Zenon

\* Which parts of the tree a paused operation touches.
LEMMA PausedTree ==
    ASSUME IntegrateAssumption, IInv, NEW w \in Worktrees, proc[w].pc \in AttemptPcs,
           NEW x \in WtType, x.branch = wt[w].branch,
           \/ x = [wt[w] EXCEPT !.op = "rebase", !.head = target]
           \/ x = [wt[w] EXCEPT !.stopped = TRUE]
           \/ \E landed \in BOOLEAN : x = [wt[w] EXCEPT !.landed = landed]
           \/ wt[w].op = "none"
              /\ x = [wt[w] EXCEPT !.op = "merge", !.other = target, !.stopped = TRUE]
    PROVE  GoodTree(commits, x)
<1>1. GoodTree(commits, wt[w]) /\ wt[w] \in WtType /\ target \in DOMAIN commits
  BY TypesOf, InAttemptFacts DEF Local
<1>2. target # 0
  BY DEF IInv, Hist
<1> QED
  BY <1>1, <1>2, ZenonT(60) DEF GoodTree, WtType

\* run_rebase_or_merge routes to the merge, finds nothing to replay, or starts to.
LEMMA RebaseStep ==
    ASSUME IntegrateAssumption, IInv, NEW w \in Worktrees, run_rebase_or_merge(w)
    PROVE  Step(w)
<1>1. /\ proc[w].pc = "rebase" /\ proc[w].pc \in AttemptPcs /\ proc[w].pc \in IdlePcs
      /\ UNCHANGED <<commits, target, rec, catchup, made, faults>>
  BY DEF run_rebase_or_merge, AttemptPcs, IdlePcs, refs
<1>2. wt[w].op = "none" /\ wt[w].head = wt[w].branch /\ GoodTree(commits, wt[w])
  BY <1>1, InAttemptFacts DEF Local
<1>3. {"merge", "flip", "replay"} \subseteq Pcs \cap (AttemptPcs \cup {"flip"})
  BY DEF Pcs, AttemptPcs, IdlePcs
<1>4. ASSUME NEW c \in {"merge", "flip"}, Goto(w, c), UNCHANGED wt
      PROVE  Step(w)
  <2> DEFINE p == [proc[w] EXCEPT !.pc = c]
  <2>1. p \in ProcType /\ p.pc = c /\ p.seen = proc[w].seen
    BY <1>3, GotoFacts
  <2>2. proc' = [proc EXCEPT ![w] = p]
    BY <1>4 DEF Goto
  <2>3. p.pc # "mresolve" /\ p.pc \in AttemptPcs \cup {"flip"}
    BY <1>3, <2>1
  <2>4. wt' = [wt EXCEPT ![w] = wt[w]] /\ wt[w] \in WtType /\ faults' \in 0..MaxFaults
    BY <1>1, <1>4, TypesOf
  <2> QED
    <3> HIDE DEF p
    <3> QED
      BY <1>1, <1>2, <2>1, <2>2, <2>3, <2>4, AttemptStep, Zenon
<1>5. ASSUME IsAncestor(wt[w].head, target), CheckOut(w, target), Goto(w, "flip")
      PROVE  Step(w)
  <2> DEFINE p == [proc[w] EXCEPT !.pc = "flip"]
  <2>1. p \in ProcType /\ p.pc = "flip" /\ p.seen = proc[w].seen
    BY <1>3, GotoFacts
  <2>2. proc' = [proc EXCEPT ![w] = p]
    BY <1>5 DEF Goto
  <2>3. commits[wt[w].branch].work \subseteq commits[target].work
    BY <1>2, <1>5, InAttemptFacts DEF IsAncestor, Hist
  <2> QED
    BY <1>1, <1>5, <2>1, <2>2, <2>3, QuietCheckOut, InAttemptFacts, TypesOf, CheckOutStep, Zenon
<1>6. ASSUME wt' = [wt EXCEPT ![w].op = "rebase", ![w].head = target], Goto(w, "replay")
      PROVE  Step(w)
  <2> DEFINE p == [proc[w] EXCEPT !.pc = "replay"]
             x == [wt[w] EXCEPT !.op = "rebase", !.head = target]
  <2>1. p \in ProcType /\ p.pc = "replay" /\ p.seen = proc[w].seen
    BY <1>3, GotoFacts
  <2>2. proc' = [proc EXCEPT ![w] = p] /\ wt' = [wt EXCEPT ![w] = x]
    BY <1>6, ZenonT(60) DEF Goto
  <2>3. target \in Nat
    BY DEF IInv, Hist
  <2>4. x \in WtType /\ x.branch = wt[w].branch
    BY <2>3, TypesOf, ZenonT(60) DEF WtType
  <2>5. GoodTree(commits, x)
    BY <1>1, <2>4, PausedTree, Zenon
  <2>6. p.pc \in AttemptPcs /\ p.pc \notin IdlePcs /\ p.pc # "mresolve"
    BY <2>1 DEF AttemptPcs, IdlePcs, LandingPcs
  <2> QED
    <3> HIDE DEF p, x
    <3> QED
      BY <1>1, <2>1, <2>2, <2>4, <2>5, <2>6, TypesOf, AttemptStep, Zenon
<1> QED
  BY <1>4, <1>5, <1>6 DEF run_rebase_or_merge

\* A conflict or a failure stops the rebase or the merge.
LEMMA StopSteps ==
    ASSUME IntegrateAssumption, IInv, NEW w \in Worktrees,
           ReplayStops(w) \/ ReplayFails(w) \/ StopsUnresolved(w) \/ MergeStops(w)
    PROVE  Step(w)
<1>1. proc[w].pc \in AttemptPcs /\ UNCHANGED <<commits, target, rec, catchup, made>>
  BY DEF AttemptPcs, ReplayStops, ReplayFails, StopsUnresolved, MergeStops, refs
<1>2. {"resolve", "fallback", "mresolve", "mabort"} \subseteq Pcs \cap AttemptPcs
  BY DEF Pcs, AttemptPcs
<1>3. \A c \in {"resolve", "fallback", "mresolve", "mabort"} : c \notin IdlePcs
  BY DEF IdlePcs, LandingPcs
<1>4. ASSUME NEW c \in {"resolve", "fallback", "mresolve", "mabort"},
             NEW p \in ProcType, proc' = [proc EXCEPT ![w] = p],
             p.pc = c, p.seen = proc[w].seen,
             NEW x \in WtType, wt' = [wt EXCEPT ![w] = x], x.branch = wt[w].branch,
             GoodTree(commits, x), c = "mresolve" => x.op = "merge",
             faults' \in 0..MaxFaults
      PROVE  Step(w)
  BY <1>1, <1>2, <1>3, <1>4, AttemptStep, Zenon
<1>5. CASE ReplayStops(w)
  <2> DEFINE c == IF proc[w].owns THEN "resolve" ELSE "fallback"
             p == [proc[w] EXCEPT !.pc = c]
             x == [wt[w] EXCEPT !.stopped = TRUE]
  <2>1. c \in {"resolve", "fallback"} /\ c \in Pcs
    BY <1>2
  <2>2. p \in ProcType /\ p.pc = c /\ p.seen = proc[w].seen
    <3> HIDE DEF c
    <3> QED
      BY <2>1, GotoFacts
  <2>3. proc' = [proc EXCEPT ![w] = p] /\ wt' = [wt EXCEPT ![w] = x] /\ UNCHANGED faults
    BY <1>5 DEF ReplayStops, Goto
  <2>4. x \in WtType /\ x.branch = wt[w].branch
    BY TypesOf, Zenon DEF WtType
  <2>5. GoodTree(commits, x)
    BY <1>1, <2>4, PausedTree, Zenon
  <2> QED
    <3> HIDE DEF c, p, x
    <3> QED
      BY <1>4, <2>1, <2>2, <2>3, <2>4, <2>5, TypesOf, Zenon
<1>6. CASE ReplayFails(w)
  <2> DEFINE p == [proc[w] EXCEPT !.pc = "fallback"]
  <2>1. p \in ProcType /\ p.pc = "fallback" /\ p.seen = proc[w].seen
    BY <1>2, GotoFacts
  <2>2. proc' = [proc EXCEPT ![w] = p] /\ UNCHANGED wt /\ Fault
    BY <1>6 DEF ReplayFails, Goto
  <2>3. GoodTree(commits, wt[w])
    BY InAttemptFacts DEF Local
  <2> QED
    <3> HIDE DEF p
    <3> QED
      BY <1>4, <2>1, <2>2, <2>3, TypesOf, Zenon
<1>7. CASE StopsUnresolved(w)
  <2>1. PICK l \in BOOLEAN : wt' = [wt EXCEPT ![w].landed = l]
    BY <1>7, Zenon DEF StopsUnresolved
  <2> DEFINE x == [wt[w] EXCEPT !.landed = l]
  <2>2. x \in WtType /\ x.branch = wt[w].branch /\ wt' = [wt EXCEPT ![w] = x]
    BY <2>1, TypesOf DEF WtType
  <2>3. GoodTree(commits, x)
    BY <1>1, <2>2, PausedTree, Zenon
  <2>4. CASE Return(w)
    <3>1. PICK p \in ProcType : p.pc \in FreePcs /\ p.seen = 0 /\ proc' = [proc EXCEPT ![w] = p]
      BY <2>4, LeavingPlaces, Zenon DEF Return
    <3>2. p.pc \notin IdlePcs /\ p.pc # "mresolve"
      BY <3>1 DEF FreePcs, IdlePcs, LandingPcs
    <3>3. UNCHANGED faults
      BY <1>7 DEF StopsUnresolved
    <3> QED
      <4> HIDE DEF x
      <4> QED
        BY <1>1, <2>2, <2>3, <3>1, <3>2, <3>3, TypesOf, AttemptStep, Zenon
  <2>5. CASE proc' = [proc EXCEPT ![w].pc = "fallback", ![w].resolver = FALSE]
    <3> DEFINE p == [proc[w] EXCEPT !.pc = "fallback", !.resolver = FALSE]
    <3>1. p \in ProcType /\ p.pc = "fallback" /\ p.seen = proc[w].seen
      BY <1>2, TypesOf, ZenonT(60) DEF ProcType
    <3>2. proc' = [proc EXCEPT ![w] = p] /\ UNCHANGED faults
      BY <1>7, <2>5, Zenon DEF StopsUnresolved
    <3> QED
      <4> HIDE DEF p, x
      <4> QED
        BY <1>4, <2>2, <2>3, <3>1, <3>2, TypesOf, Zenon
  <2> QED
    BY <1>7, <2>4, <2>5 DEF StopsUnresolved
<1>8. CASE MergeStops(w)
  <2> DEFINE c == IF proc[w].resolver THEN "mresolve" ELSE "mabort"
             p == [proc[w] EXCEPT !.pc = c]
             x == [wt[w] EXCEPT !.op = "merge", !.other = target, !.stopped = TRUE]
  <2>1. c \in {"mresolve", "mabort"} /\ c \in Pcs
    BY <1>2
  <2>2. p \in ProcType /\ p.pc = c /\ p.seen = proc[w].seen
    <3> HIDE DEF c
    <3> QED
      BY <2>1, GotoFacts
  <2>3. proc' = [proc EXCEPT ![w] = p] /\ wt' = [wt EXCEPT ![w] = x] /\ UNCHANGED faults
    BY <1>8, Zenon DEF MergeStops, Goto
  <2>4. target \in Nat
    BY DEF IInv, Hist
  <2>5. x \in WtType /\ x.branch = wt[w].branch /\ x.op = "merge"
    BY <2>4, TypesOf, ZenonT(60) DEF WtType
  <2>6. wt[w].op = "none"
    BY <1>8, InAttemptFacts DEF MergeStops, IdlePcs
  <2>7. GoodTree(commits, x)
    BY <1>1, <2>5, <2>6, PausedTree, Zenon
  <2> QED
    <3> HIDE DEF c, p, x
    <3> QED
      BY <1>4, <2>1, <2>2, <2>3, <2>5, <2>7, TypesOf, Zenon
<1> QED
  BY <1>5, <1>6, <1>7, <1>8

\* The beginning of a seam, and the writes of its record.
LEMMA RecordSteps ==
    ASSUME IntegrateAssumption, IInv, NEW w \in Worktrees,
           SeamStarts(w) \/ WriteIntegrating(w) \/ WriteIntegrated(w) \/ ClearIntegrated(w)
    PROVE  Step(w)
<1>1. UNCHANGED <<commits, target, wt, catchup, made, faults>>
  BY Zenon DEF SeamStarts, WriteIntegrating, WriteIntegrated, ClearIntegrated, refs
<1>2. MaxAttempts \in Nat \ {0}
  BY DEF IntegrateAssumption
<1>3. ASSUME NEW r \in RecType, rec' = [rec EXCEPT ![w] = r],
             NEW p \in ProcType, proc' = [proc EXCEPT ![w] = p], p.pc # "landed",
             GoodRecord(commits, r), GoodPlace(commits, target, wt[w], r, p)
      PROVE  Step(w)
  <2>1. Moves(w, wt[w], r, p, catchup[w])
    BY <1>1, <1>3, TypesOf DEF Moves
  <2>2. Local(commits, target, wt[w], r, p, catchup[w])
    BY <1>3, InAttemptFacts DEF Local
  <2> QED
    BY <1>1, <1>3, <2>1, <2>2, QuietStep
<1>4. Local(commits, target, wt[w], rec[w], proc[w], catchup[w]) /\ Hist(commits)
  BY DEF IInv
<1>5. CASE SeamStarts(w)
  <2>1. PICK a \in BOOLEAN :
           proc' = [proc EXCEPT ![w].pc = "record", ![w].attempt = 1,
                                ![w].owns = a, ![w].resolver = a]
    BY <1>5, Zenon DEF SeamStarts
  <2> DEFINE p == [proc[w] EXCEPT !.pc = "record", !.attempt = 1, !.owns = a, !.resolver = a]
  <2>2. p \in ProcType /\ p.pc = "record" /\ p.seen = proc[w].seen
    <3>1. 1 \in 0..MaxAttempts /\ "record" \in Pcs
      BY <1>2 DEF Pcs, IdlePcs
    <3>2. proc[w] \in ProcType
      BY TypesOf
    <3>3. CASE a = TRUE
      BY <3>1, <3>2, <3>3, Zenon DEF ProcType
    <3>4. CASE a = FALSE
      BY <3>1, <3>2, <3>4, Zenon DEF ProcType
    <3> QED
      BY <3>3, <3>4, Zenon
  <2>3. proc' = [proc EXCEPT ![w] = p]
    <3>1. CASE a = TRUE
      BY <2>1, <3>1, Zenon
    <3>2. CASE a = FALSE
      BY <2>1, <3>2, Zenon
    <3> QED
      BY <3>1, <3>2, Zenon
  <2>4. rec' = [rec EXCEPT ![w] = rec[w]] /\ wt[w].op = "none"
    BY <1>5, TypesOf, Zenon DEF SeamStarts, Idle
  <2>5. GoodPlace(commits, target, wt[w], rec[w], p)
    <3> HIDE DEF p
    <3> QED
      BY <1>4, <2>2, <2>4 DEF Local, GoodPlace, AttemptPcs, LandingPcs
  <2> QED
    <3> HIDE DEF p
    <3> QED
      BY <1>3, <1>4, <2>2, <2>3, <2>5, <2>4, TypesOf, Zenon DEF Local
<1>6. CASE WriteIntegrating(w)
  <2> DEFINE p == [proc[w] EXCEPT !.pc = "rebase", !.resolver = proc[w].owns]
             r == [phase |-> "integrating", pre |-> wt[w].head, feature |-> 0]
  <2>1. p \in ProcType /\ p.pc = "rebase" /\ p.seen = proc[w].seen
    BY TypesOf, ZenonT(60) DEF ProcType, Pcs, AttemptPcs
  <2>2. wt[w].op = "none" /\ wt[w].head = wt[w].branch /\ wt[w].head \in DOMAIN commits
    BY <1>6, InAttemptFacts DEF WriteIntegrating, IdlePcs
  <2>3. wt[w].head \in Nat /\ wt[w].head # 0
    BY <1>4, <2>2 DEF Hist
  <2>4. r \in RecType /\ r.phase = "integrating" /\ r.pre = wt[w].head /\ r.feature = 0
    BY <2>3 DEF RecType
  <2>5. GoodRecord(commits, r)
    <3> HIDE DEF r
    <3> QED
      BY <2>2, <2>3, <2>4 DEF GoodRecord
  <2>6. GoodPlace(commits, target, wt[w], r, p)
    <3> HIDE DEF p, r
    <3> QED
      BY <1>4, <2>1, <2>2, <2>4 DEF Local, GoodPlace, LandingPcs
  <2>7. proc' = [proc EXCEPT ![w] = p] /\ rec' = [rec EXCEPT ![w] = r]
    BY <1>6, Zenon DEF WriteIntegrating, write_record
  <2> QED
    <3> HIDE DEF p, r
    <3> QED
      BY <1>3, <2>1, <2>4, <2>5, <2>6, <2>7, Zenon
<1>7. CASE WriteIntegrated(w)
  <2> DEFINE p == [proc[w] EXCEPT !.pc = "lookup"]
             r == [phase |-> "integrated", pre |-> rec[w].pre, feature |-> wt[w].head]
  <2>1. p \in ProcType /\ p.pc = "lookup" /\ p.seen = proc[w].seen
    BY GotoFacts DEF Pcs, IdlePcs, LandingPcs
  <2>2. proc[w].pc = "flip" /\ "flip" \in IdlePcs
    BY <1>7, ZenonT(60) DEF WriteIntegrated, IdlePcs
  <2>3. wt[w].op = "none" /\ wt[w].head = wt[w].branch /\ wt[w].head \in DOMAIN commits
    BY <2>2, InAttemptFacts
  <2>4. wt[w].head \in Nat /\ wt[w].head # 0
    BY <1>4, <2>3 DEF Hist
  <2>5. r \in RecType /\ r.phase = "integrated" /\ r.pre = rec[w].pre /\ r.feature = wt[w].head
    BY <2>4, TypesOf DEF RecType
  <2>6. /\ rec[w].phase = "integrating"
        /\ commits[rec[w].pre].work \subseteq commits[wt[w].branch].work
    BY <1>4, <2>2, Zenon DEF Local, GoodPlace
  <2>7. rec[w].pre \in DOMAIN commits /\ rec[w].pre # 0
    BY <1>4, <2>6, ZenonT(60) DEF Local, GoodRecord
  <2>8. GoodRecord(commits, r)
    <3> HIDE DEF r
    <3> QED
      BY <2>3, <2>4, <2>5, <2>6, <2>7 DEF GoodRecord
  <2>9. GoodPlace(commits, target, wt[w], r, p)
    <3> HIDE DEF p, r
    <3> QED
      BY <1>4, <2>1, <2>3, <2>5, Zenon DEF Local, GoodPlace, AttemptPcs
  <2>10. proc' = [proc EXCEPT ![w] = p] /\ rec' = [rec EXCEPT ![w] = r]
    BY <1>7 DEF WriteIntegrated, write_record, Goto
  <2> QED
    <3> HIDE DEF p, r
    <3> QED
      BY <1>3, <2>1, <2>5, <2>8, <2>9, <2>10, Zenon
<1>8. CASE ClearIntegrated(w)
  <2>1. CASE ~NextAttempt(w)
    BY <1>1, <1>8, <2>1, TypesOf, GoOnStep DEF ClearIntegrated
  <2>2. CASE NextAttempt(w)
    <3> DEFINE p == [proc[w] EXCEPT !.pc = "record", !.attempt = @ + 1, !.result = "none"]
    <3>1. proc[w].attempt + 1 \in 0..MaxAttempts
      BY <1>2, <2>2, TypesOf DEF NextAttempt, ProcType
    <3>2. p \in ProcType /\ p.pc = "record" /\ p.seen = proc[w].seen
      BY <3>1, TypesOf, ZenonT(60) DEF ProcType, Pcs, IdlePcs
    <3>3. proc' = [proc EXCEPT ![w] = p] /\ rec' = [rec EXCEPT ![w] = NoRecord]
      BY <1>8, <2>2, Zenon DEF ClearIntegrated, clear_record
    <3>4. wt[w].op = "none"
      BY <1>8, InAttemptFacts DEF ClearIntegrated, IdlePcs, LandingPcs
    <3>5. GoodRecord(commits, NoRecord) /\ NoRecord \in RecType
      BY AtTypes DEF GoodRecord, NoRecord
    <3>6. GoodPlace(commits, target, wt[w], NoRecord, p)
      <4> HIDE DEF p
      <4> QED
        BY <1>4, <3>2, <3>4, Zenon DEF Local, GoodPlace, AttemptPcs, LandingPcs
    <3> QED
      <4> HIDE DEF p
      <4> QED
        BY <1>3, <3>2, <3>3, <3>5, <3>6, Zenon
  <2> QED
    BY <2>1, <2>2
<1> QED
  BY <1>5, <1>6, <1>7, <1>8

\* The catch-up thread fast-forwards whatever HEAD is, but only over its own work.
LEMMA CatchUpSteps ==
    ASSUME IntegrateAssumption, IInv, NEW w \in Worktrees,
           CatchUpObserves(w) \/ CatchUpMerges(w)
    PROVE  Step(w)
<1>1. UNCHANGED <<commits, target, rec, proc, made, faults>>
  BY DEF CatchUpObserves, CatchUpMerges, refs
<1>2. Local(commits, target, wt[w], rec[w], proc[w], catchup[w]) /\ Hist(commits)
  BY DEF IInv
<1>3. CASE CatchUpObserves(w)
  <2>1. target \in DOMAIN commits /\ target \in Nat
    BY <1>2 DEF IInv, Hist
  <2>2. Moves(w, wt[w], rec[w], proc[w], target)
    BY <1>1, <1>3, <2>1, TypesOf DEF Moves, CatchUpObserves
  <2>3. GoodCatchUp(commits, target, target)
    BY <2>1 DEF GoodCatchUp
  <2>4. Local(commits, target, wt[w], rec[w], proc[w], target)
    BY <1>2, <2>3, ZenonT(60) DEF Local
  <2> QED
    BY <1>1, <2>2, <2>4, QuietStep
<1>4. CASE CatchUpMerges(w)
  <2> DEFINE k == catchup[w]
             stays == wt[w].stopped \/ ~IsAncestor(wt[w].head, k)
  <2>1. k # 0 /\ k \in DOMAIN commits /\ commits[k].work \subseteq commits[target].work
    BY <1>2, <1>4 DEF CatchUpMerges, Local, GoodCatchUp
  <2>2. GoodCatchUp(commits, target, 0)
    BY DEF GoodCatchUp
  <2>3. ASSUME NEW x \in WtType, wt' = [wt EXCEPT ![w] = x], GoodTree(commits, x),
               GoodPlace(commits, target, x, rec[w], proc[w]),
               commits[wt[w].branch].work \subseteq commits[x.branch].work
        PROVE  Step(w)
    <3>1. Moves(w, x, rec[w], proc[w], 0)
      BY <1>1, <1>4, <2>3, TypesOf, ZenonT(60) DEF Moves, CatchUpMerges
    <3>2. Local(commits, target, x, rec[w], proc[w], 0)
      BY <1>2, <2>2, <2>3, Zenon DEF Local
    <3> QED
      BY <1>1, <2>3, <3>1, <3>2, QuietStep, Zenon
  <2>4. CASE stays
    <3>1. wt' = [wt EXCEPT ![w] = wt[w]]
      BY <1>4, <2>4, Zenon DEF CatchUpMerges
    <3> QED
      BY <1>2, <2>3, <3>1, TypesOf, Zenon DEF Local
  <2>5. CASE ~stays /\ wt[w].op = "rebase"
    <3> DEFINE x == [wt[w] EXCEPT !.head = k]
    <3>1. wt' = [wt EXCEPT ![w] = x]
      BY <1>4, <2>5 DEF CatchUpMerges
    <3>2. x \in WtType /\ x.branch = wt[w].branch /\ x.op = wt[w].op
      BY TypesOf DEF WtType
    <3>3. GoodTree(commits, x)
      BY <1>2, <2>1, <2>5, TypesOf DEF Local, GoodTree, WtType
    <3>4. GoodPlace(commits, target, x, rec[w], proc[w])
      <4> HIDE DEF x
      <4> QED
        BY <1>2, <3>2, Zenon DEF Local, GoodPlace
    <3> QED
      <4> HIDE DEF x
      <4> QED
        BY <2>3, <3>1, <3>2, <3>3, <3>4, Zenon
  <2>6. CASE ~stays /\ wt[w].op # "rebase"
    <3>1. wt' = [wt EXCEPT ![w] = OnBranch(k)]
      BY <1>4, <2>6 DEF CatchUpMerges
    <3>2. /\ OnBranch(k) \in WtType /\ GoodTree(commits, OnBranch(k))
          /\ OnBranch(k).branch = k /\ OnBranch(k).op = "none"
      BY <1>2, <2>1, OnBranchFacts
    <3>3. commits[wt[w].branch].work \subseteq commits[k].work
      BY <1>2, <2>1, <2>6 DEF Local, GoodTree, IsAncestor, Hist
    <3>4. proc[w].pc # "mresolve"
      BY <1>2, <2>6 DEF Local, GoodTree, GoodPlace
    <3>5. GoodPlace(commits, target, OnBranch(k), rec[w], proc[w])
      BY <1>2, <2>1, <3>2, <3>3, <3>4, Zenon DEF Local, GoodPlace
    <3> QED
      BY <2>3, <3>1, <3>2, <3>3, <3>5, Zenon
  <2> QED
    BY <2>4, <2>5, <2>6
<1> QED
  BY <1>3, <1>4

\* Every step of the specification is a step of one worktree.
LEMMA NextSteps ==
    ASSUME IntegrateAssumption, IInv, Next
    PROVE  \E w \in Worktrees : Step(w)
<1>1. PICK w \in Worktrees :
        \/ Commit(w) \/ Boundary(w) \/ GateResolved(w) \/ GateUnresolved(w)
        \/ Attempt(w) \/ Start(w) \/ Recovery(w)
        \/ CatchUpObserves(w) \/ CatchUpMerges(w) \/ RunEnds(w) \/ Kill(w)
  BY DEF Next
<1>2. CASE Attempt(w)
  BY <1>2, RunLoopSteps, RecordSteps, RebaseStep, FinishSteps, StopSteps, AbortSteps,
     MergeEndsStep, LandingSteps DEF Attempt
<1>3. CASE Recovery(w)
  BY <1>3, AbortSteps, RecoverAbortsStep, RecoverResetsStep, VerdictSteps DEF Recovery
<1>4. CASE \/ Commit(w) \/ Boundary(w) \/ GateResolved(w) \/ GateUnresolved(w) \/ Start(w)
           \/ CatchUpObserves(w) \/ CatchUpMerges(w) \/ RunEnds(w) \/ Kill(w)
  BY <1>4, CommitStep, RunLoopSteps, FinishSteps, CatchUpSteps
<1> QED
  BY <1>1, <1>2, <1>3, <1>4

-----------------------------------------------------------------------------
(* Theorems *)

\* A fresh repository: every branch is the first commit and no record exists.
LEMMA InitInvariant ==
    ASSUME IntegrateAssumption, Init
    PROVE  IInv
<1> DEFINE R == [anc |-> {1}, work |-> {}, merge |-> FALSE]
<1>1. R \in CommitType
  BY DEF CommitType
<1>2. commits = <<R>> /\ commits \in Seq(CommitType) /\ DOMAIN commits = {1} /\ commits[1] = R
  BY <1>1 DEF Init
<1>3. Hist(commits) /\ target \in DOMAIN commits
  BY <1>2 DEF Init, Hist
<1>4. Types
  <2>1. MaxAttempts \in Nat /\ MaxChanges \in Nat /\ MaxFaults \in Nat
    BY DEF IntegrateAssumption
  <2>2. OnBranch(1) \in WtType /\ NoRecord \in RecType
    BY DEF OnBranch, WtType, NoRecord, RecType
  <2>3. At("run") \in ProcType
    BY <2>1 DEF At, ProcType, Pcs
  <2> QED
    BY <2>1, <2>2, <2>3 DEF Init, Types
<1>5. ASSUME NEW w \in Worktrees
      PROVE  Local(commits, target, wt[w], rec[w], proc[w], catchup[w])
  BY <1>2, Zenon DEF Init, Local, GoodTree, GoodRecord, GoodPlace, GoodCatchUp, OnBranch, NoRecord,
              At, IdlePcs, AttemptPcs, LandingPcs
<1> QED
  BY <1>3, <1>4, <1>5 DEF IInv

\* Every reachable state satisfies the invariant.
THEOREM Invariance == Spec => []IInv
<1>1. IntegrateAssumption
  BY IntegrateAssumption
<1>2. Init => IInv
  BY <1>1, InitInvariant
<1>3. IInv /\ [Next]_vars => IInv'
  <2>1. CASE Next
    BY <1>1, <2>1, NextSteps, StepKeepsInvariant
  <2>2. CASE UNCHANGED vars
    BY <2>2 DEF vars, refs, IInv, Types
  <2> QED
    BY <2>1, <2>2
<1> QED
  BY <1>2, <1>3, PTL DEF Spec

\* Every ref, record and remembered commit names a stored commit, and a seam makes
\* at most MaxAttempts attempts.
THEOREM TypeCorrect == Spec => []TypeOK
<1>1. IInv => TypeOK
  <2> SUFFICES ASSUME IInv, NEW w \in Worktrees
               PROVE  /\ target \in DOMAIN commits /\ faults \in 0..MaxFaults
                      /\ {wt[w].branch, wt[w].head} \subseteq DOMAIN commits
                      /\ {wt[w].other, rec[w].pre, rec[w].feature, proc[w].seen, catchup[w]}
                           \subseteq {0} \cup DOMAIN commits
                      /\ made[w] \in 0..MaxChanges
                      /\ proc[w].attempt \in 0..MaxAttempts
    BY DEF TypeOK, IInv, Types
  <2>1. proc[w] \in ProcType
    BY DEF IInv, Types
  <2>2. Local(commits, target, wt[w], rec[w], proc[w], catchup[w])
    BY DEF IInv
  <2>3. proc[w].attempt \in 0..MaxAttempts
    BY <2>1 DEF ProcType
  <2>4. target \in DOMAIN commits /\ faults \in 0..MaxFaults /\ made[w] \in 0..MaxChanges
    BY DEF IInv, Types
  <2>5. /\ {wt[w].branch, wt[w].head} \subseteq DOMAIN commits
        /\ wt[w].other \in {0} \cup DOMAIN commits
    BY <2>2 DEF Local, GoodTree
  <2>6. {rec[w].pre, rec[w].feature} \subseteq {0} \cup DOMAIN commits
    BY <2>2 DEF Local, GoodRecord
  <2>7. {proc[w].seen, catchup[w]} \subseteq {0} \cup DOMAIN commits
    BY <2>2 DEF Local, GoodPlace, GoodCatchUp
  <2> QED
    BY <2>3, <2>4, <2>5, <2>6, <2>7
<1> QED
  BY <1>1, Invariance, PTL

\* What the step of a worktree says of the target, of every branch and of every
\* landing.
LEMMA StepProperties ==
    ASSUME IInv, NEW w \in Worktrees, Step(w)
    PROVE  /\ target \in commits'[target'].anc
           /\ target' # target =>
                \E v \in Worktrees :
                   /\ rec[v].phase = "integrated"
                   /\ rec[v].feature = target'
                   /\ Work(rec[v].pre) \subseteq Work(target')
           /\ \A v \in Worktrees :
                \/ Work(wt[v].branch) \subseteq commits'[wt'[v].branch].work
                \/ /\ proc[v].pc = "reset" /\ rec[v].phase = "integrating"
                   /\ wt'[v].branch = rec[v].pre
           /\ \A v \in Worktrees :
                proc'[v].pc = "landed" /\ proc'[v].result = "ok" =>
                   \/ UNCHANGED <<proc[v], rec[v]>>
                   \/ rec'[v].feature \in commits'[target'].anc
<1>1. target \in commits'[target'].anc
  BY Zenon DEF Step, OnlyOf
<1>2. target' # target =>
        /\ rec[w].phase = "integrated"
        /\ rec[w].feature = target'
        /\ Work(rec[w].pre) \subseteq Work(target')
  BY ZenonT(60) DEF Step, RecordedLanding, Work
<1>3. ASSUME NEW v \in Worktrees
      PROVE  \/ Work(wt[v].branch) \subseteq commits'[wt'[v].branch].work
             \/ /\ proc[v].pc = "reset" /\ rec[v].phase = "integrating"
                /\ wt'[v].branch = rec[v].pre
  <2>1. CASE v = w
    BY <2>1 DEF Step, Keeps, Work
  <2>2. CASE v # w
    <3>1. wt[v].branch \in DOMAIN commits
      BY InAttemptFacts
    <3>2. wt'[v] = wt[v] /\ \A c \in DOMAIN commits : commits'[c] = commits[c]
      BY <2>2 DEF Step, OnlyOf, Grows
    <3> QED
      BY <3>1, <3>2 DEF Work
  <2> QED
    BY <2>1, <2>2
<1>4. ASSUME NEW v \in Worktrees
      PROVE  proc'[v].pc = "landed" /\ proc'[v].result = "ok" =>
                \/ UNCHANGED <<proc[v], rec[v]>>
                \/ rec'[v].feature \in commits'[target'].anc
  BY Zenon DEF Step, OnlyOf, RealLanding
<1> QED
  BY <1>1, <1>2, <1>3, <1>4, Zenon

\* fast_forward_target never force-moves the target: whoever lands or recovers, and
\* whoever landed since it looked, the new tip holds the old one.
THEOREM MainlineAdvances == Spec => MainlineOnlyAdvances
<1>1. IntegrateAssumption
  BY IntegrateAssumption
<1>2. IInv /\ [Next]_vars => [(target \in commits'[target'].anc)]_vars
  BY <1>1, NextSteps, StepProperties
<1> QED
  BY <1>2, Invariance, PTL DEF MainlineOnlyAdvances, Spec

\* The target moves only to a tip that an "integrated" record names, which holds all
\* the work the branch held before the attempt.
THEOREM RecordedTipsLand == Spec => OnlyRecordedTipsLand
<1>1. IntegrateAssumption
  BY IntegrateAssumption
<1> DEFINE Recorded ==
             target' # target =>
               \E w \in Worktrees :
                  /\ rec[w].phase = "integrated"
                  /\ rec[w].feature = target'
                  /\ Work(rec[w].pre) \subseteq Work(target')
<1>2. IInv /\ [Next]_vars => [Recorded]_vars
  BY <1>1, NextSteps, StepProperties
<1> QED
  BY <1>2, Invariance, PTL DEF OnlyRecordedTipsLand, Spec

\* Only recover_integrating_record takes committed work off a branch, and it goes
\* back to the recorded tip.
THEOREM BranchesKeepTheirWork == Spec => OnlyRecoveryTakesBack
<1>1. IntegrateAssumption
  BY IntegrateAssumption
<1> DEFINE Kept ==
             \A w \in Worktrees :
               \/ Work(wt[w].branch) \subseteq commits'[wt'[w].branch].work
               \/ /\ proc[w].pc = "reset" /\ rec[w].phase = "integrating"
                  /\ wt'[w].branch = rec[w].pre
<1>2. IInv /\ [Next]_vars => [Kept]_vars
  BY <1>1, NextSteps, StepProperties
<1> QED
  BY <1>2, Invariance, PTL DEF OnlyRecoveryTakesBack, Spec

\* fast_forward_target reports a landing only when the target holds the recorded tip.
THEOREM ReportedLandings == Spec => LandingsAreReal
<1>1. IntegrateAssumption
  BY IntegrateAssumption
<1> DEFINE Real ==
             \A w \in Worktrees :
               proc'[w].pc = "landed" /\ proc'[w].result = "ok" =>
                  \/ UNCHANGED <<proc[w], rec[w]>>
                  \/ rec'[w].feature \in commits'[target'].anc
<1>2. IInv /\ [Next]_vars => [Real]_vars
  BY <1>1, NextSteps, StepProperties
<1> QED
  BY <1>2, Invariance, PTL DEF LandingsAreReal, Spec

\* Killed anywhere inside an attempt, the record and the target together hold all the
\* branch holds.
THEOREM AttemptCrashSafety == Spec => []CrashInsideAttemptIsSafe
<1>1. IInv => CrashInsideAttemptIsSafe
  <2> SUFFICES ASSUME IInv, NEW w \in Worktrees, InAttempt(w)
               PROVE  /\ rec[w].phase = "integrating"
                      /\ Work(wt[w].branch) \subseteq Work(rec[w].pre) \cup Work(target)
    BY DEF CrashInsideAttemptIsSafe
  <2>1. proc[w].pc \in AttemptPcs
    BY DEF InAttempt, AttemptPcs
  <2> QED
    BY <2>1, InAttemptFacts, Zenon DEF Local, GoodPlace, Work
<1> QED
  BY <1>1, Invariance, PTL
=============================================================================
