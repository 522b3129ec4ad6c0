---------------------------- MODULE AutoIntegrate ----------------------------
(***************************************************************************)
(* Auto-integration (pipeline/auto_integrate*.py): every run works on the  *)
(* feature branch of its own worktree and, after a commit and at phase     *)
(* boundaries, rebases or merges it onto the shared target branch and      *)
(* moves the target forward.  A durable record lets the next startup undo  *)
(* or finish an integration that was cut short.                            *)
(*                                                                         *)
(* One step is one git command, or one write of the record; between two of *)
(* them other worktrees go on and the process may be killed.  A commit is  *)
(* a number; commits[c] says which commits its history holds, whose        *)
(* changes its tree holds, and whether it has two parents.  Which changes  *)
(* conflict, and whether a resolver agent succeeds, is left open.  The     *)
(* backup refs are left out: the code writes and deletes them, and decides *)
(* nothing from them.                                                      *)
(***************************************************************************)
EXTENDS Naturals, Sequences

CONSTANTS
    Worktrees,    \* feature worktrees of one repository, a run in each
    MaxAttempts,  \* _MAX_INTEGRATION_ATTEMPTS
    MaxChanges,   \* bound: commits made in one worktree
    MaxFaults     \* bound: kills, git commands that fail or time out

ASSUME IntegrateAssumption ==
    /\ MaxAttempts \in Nat \ {0}
    /\ {MaxChanges, MaxFaults} \subseteq Nat

VARIABLES
    commits,     \* the object store
    target,      \* refs/heads/<target>
    checkedOut,  \* some other worktree has the target checked out
    wt,          \* per worktree: its branch, HEAD, and the operation git has paused
    rec,         \* per worktree: auto_integrate_in_progress.json
    proc,        \* per worktree: where its process is, and what it remembers
    catchup,     \* per worktree: the target the catch-up thread is about to merge, or 0
    made,        \* per worktree: changes committed so far
    faults

refs == <<target, checkedOut>>
vars == <<commits, refs, wt, rec, proc, catchup, made, faults>>

-----------------------------------------------------------------------------
(* git *)

IsAncestor(a, c) == a \in commits[c].anc
Work(c) == commits[c].work

\* A branch that is checked out with nothing in progress.
OnBranch(c) ==
    [branch |-> c, head |-> c, op |-> "none", other |-> 0, stopped |-> FALSE, landed |-> FALSE]

New == Len(commits) + 1
Store(anc, work, merge) ==
    commits' = Append(commits, [anc |-> anc \cup {New}, work |-> work, merge |-> merge])

CheckOut(w, c) == wt' = [wt EXCEPT ![w] = OnBranch(c)]
Idle(w) == wt[w].op = "none"

\* The rebase of w replays the changes HEAD does not hold yet, and ends.
FinishReplay(w) ==
    LET b == wt[w].branch  h == wt[w].head
    IN  IF Work(b) \subseteq Work(h)
        THEN CheckOut(w, h) /\ UNCHANGED commits
        ELSE /\ Store(commits[h].anc, Work(h) \cup Work(b), FALSE)
             /\ CheckOut(w, New)

\* The branch of w, merged with c.
MergeWith(w, c) ==
    LET b == wt[w].branch
    IN  /\ Store(commits[b].anc \cup commits[c].anc, Work(b) \cup Work(c), TRUE)
        /\ CheckOut(w, New)

AbortQuits(w) == CheckOut(w, wt[w].head)

Abort(w) == CheckOut(w, wt[w].branch)

\* git reset --hard moves the branch, or the detached HEAD of a paused rebase.
reset_hard(w, c) ==
    wt' = [wt EXCEPT ![w] = IF @.op = "rebase"
                            THEN [@ EXCEPT !.head = c, !.stopped = FALSE]
                            ELSE OnBranch(c)]

-----------------------------------------------------------------------------
(* The process of a worktree *)

NoRecord == [phase |-> "none", pre |-> 0, feature |-> 0]
clear_record(w) == rec' = [rec EXCEPT ![w] = NoRecord]
write_record(w, phase, pre, feature) ==
    rec' = [rec EXCEPT ![w] = [phase |-> phase, pre |-> pre, feature |-> feature]]

At(pc) == [pc |-> pc, back |-> "run", attempt |-> 0, merged |-> FALSE, owns |-> FALSE,
           resolver |-> FALSE, seen |-> 0, result |-> "none", recovering |-> FALSE]

Goto(w, pc) == proc' = [proc EXCEPT ![w].pc = pc]
Return(w) == proc' = [proc EXCEPT ![w] = At(proc[w].back)]
Seam(w, back) == proc' = [proc EXCEPT ![w] = [At("seam") EXCEPT !.back = back]]
Exit(w) == proc' = [proc EXCEPT ![w] = At("down")] /\ catchup' = [catchup EXCEPT ![w] = 0]
Fault == faults < MaxFaults /\ faults' = faults + 1

Init ==
    /\ commits = <<[anc |-> {1}, work |-> {}, merge |-> FALSE]>>
    /\ target = 1
    /\ checkedOut \in BOOLEAN
    /\ wt = [w \in Worktrees |-> OnBranch(1)]
    /\ rec = [w \in Worktrees |-> NoRecord]
    /\ proc = [w \in Worktrees |-> At("run")]
    /\ catchup = [w \in Worktrees |-> 0]
    /\ made = [w \in Worktrees |-> 0]
    /\ faults = 0

-----------------------------------------------------------------------------
(* The run loop *)

\* A phase commits, and the commit seam integrates.
Commit(w) ==
    /\ proc[w].pc = "run"
    /\ Idle(w)
    /\ made[w] < MaxChanges
    /\ made' = [made EXCEPT ![w] = @ + 1]
    /\ LET b == wt[w].branch
       IN  Store(commits[b].anc, Work(b) \cup {<<w, made'[w]>>}, FALSE)
    /\ CheckOut(w, New)
    /\ Seam(w, "run")
    /\ UNCHANGED <<refs, rec, catchup, faults>>

\* A phase boundary with a clean tree whose HEAD is not the target.
Boundary(w) ==
    /\ proc[w].pc = "run"
    /\ Idle(w)
    /\ target # wt[w].head
    /\ Seam(w, "run")
    /\ UNCHANGED <<commits, refs, wt, rec, catchup, made, faults>>

\* _block_unresolved_integration: no phase starts over a paused rebase or
\* merge.  The resolver is asked first, then the boundary seam runs.
GateResolved(w) ==
    /\ proc[w].pc = "run"
    /\ \/ wt[w].op = "rebase" /\ FinishReplay(w)
       \/ wt[w].op = "merge" /\ MergeWith(w, wt[w].other)
    /\ Seam(w, "gate")
    /\ UNCHANGED <<refs, rec, catchup, made, faults>>

GateUnresolved(w) ==
    /\ proc[w].pc = "run"
    /\ ~Idle(w)
    /\ IF wt[w].stopped \/ target = wt[w].head
       THEN Exit(w)
       ELSE Seam(w, "gate") /\ UNCHANGED catchup
    /\ UNCHANGED <<commits, refs, wt, rec, made, faults>>

\* The second inspection of the gate.
GateAgain(w) ==
    /\ proc[w].pc = "gate"
    /\ IF Idle(w) THEN Goto(w, "run") /\ UNCHANGED catchup ELSE Exit(w)
    /\ UNCHANGED <<commits, refs, wt, rec, made, faults>>

-----------------------------------------------------------------------------
(* One seam: auto_integrate_after_commit *)

\* The early skips: a paused rebase leaves HEAD detached, a paused merge leaves
\* the tree dirty, or HEAD is the target.  Or a git command of the preconditions
\* fails, or a phase left the tree dirty.
SeamSkips(w) ==
    /\ proc[w].pc = "seam"
    /\ \/ (~Idle(w) \/ target = wt[w].head) /\ UNCHANGED faults
       \/ Idle(w) /\ target # wt[w].head /\ Fault
    /\ Return(w)
    /\ UNCHANGED <<commits, refs, wt, rec, catchup, made>>

\* The conflict budget decides whether the resolvers may be used.
SeamStarts(w) ==
    /\ proc[w].pc = "seam"
    /\ Idle(w)
    /\ target # wt[w].head
    /\ \E allowed \in BOOLEAN :
         proc' = [proc EXCEPT ![w].pc = "record", ![w].attempt = 1,
                              ![w].owns = allowed, ![w].resolver = allowed]
    /\ UNCHANGED <<commits, refs, wt, rec, catchup, made, faults>>

WriteIntegratingKeepsOld(w) ==
    /\ proc[w].pc = "record"
    /\ IF rec[w] = NoRecord THEN write_record(w, "integrating", wt[w].head, 0) ELSE UNCHANGED rec
    /\ proc' = [proc EXCEPT ![w].pc = "rebase", ![w].resolver = proc[w].owns]
    /\ UNCHANGED <<commits, refs, wt, catchup, made, faults>>

\* _integrate_once reads HEAD and writes the record before it touches git.
WriteIntegrating(w) ==
    /\ proc[w].pc = "record"
    /\ write_record(w, "integrating", wt[w].head, 0)
    /\ proc' = [proc EXCEPT ![w].pc = "rebase", ![w].resolver = proc[w].owns]
    /\ UNCHANGED <<commits, refs, wt, catchup, made, faults>>

\* A git command that raises ends the seam, and its handler clears the record.
SeamRaises(w) ==
    /\ proc[w].pc \in {"rebase", "replay", "lookup"}
    /\ ~proc[w].recovering
    /\ Fault
    /\ clear_record(w)
    /\ Return(w)
    /\ UNCHANGED <<commits, refs, wt, catchup, made>>

\* _range_routing_reason: a range that holds a merge is not replayed.  (Every
\* commit here descends from the first one and no two paths differ only in case,
\* so the reasons "root commit" and "case collision" do not arise.)
RangeHasMerge(w) ==
    \E c \in commits[wt[w].head].anc \ commits[target].anc : commits[c].merge

run_rebase_or_merge(w) ==
    /\ proc[w].pc = "rebase"
    /\ \/ /\ proc[w].merged \/ RangeHasMerge(w)
          /\ Goto(w, "merge") /\ UNCHANGED wt
       \/ /\ ~(proc[w].merged \/ RangeHasMerge(w))
          /\ \/ IsAncestor(target, wt[w].head) /\ Goto(w, "flip") /\ UNCHANGED wt
             \/ /\ ~IsAncestor(target, wt[w].head)
                /\ IsAncestor(wt[w].head, target)
                /\ CheckOut(w, target) /\ Goto(w, "flip")
             \/ /\ ~IsAncestor(target, wt[w].head)
                /\ ~IsAncestor(wt[w].head, target)
                /\ wt' = [wt EXCEPT ![w].op = "rebase", ![w].head = target]
                /\ Goto(w, "replay")
    /\ UNCHANGED <<commits, refs, rec, catchup, made, faults>>

ReplayEnds(w) ==
    /\ proc[w].pc = "replay"
    /\ FinishReplay(w)
    /\ Goto(w, "flip")
    /\ UNCHANGED <<refs, rec, catchup, made, faults>>

\* A conflict stops the replay; without a resolver it is given up.
ReplayStops(w) ==
    /\ proc[w].pc = "replay"
    /\ ~(Work(wt[w].branch) \subseteq Work(wt[w].head))
    /\ wt' = [wt EXCEPT ![w].stopped = TRUE]
    /\ Goto(w, IF proc[w].owns THEN "resolve" ELSE "fallback")
    /\ UNCHANGED <<commits, refs, rec, catchup, made, faults>>

\* RebaseFailed: git gives up without a conflict.
ReplayFails(w) ==
    /\ proc[w].pc = "replay"
    /\ Fault
    /\ Goto(w, "fallback")
    /\ UNCHANGED <<commits, refs, wt, rec, catchup, made>>

\* _resolve_conflicted_rebase: the resolver finishes every stop, ...
StopsResolved(w) ==
    /\ proc[w].pc = "resolve"
    /\ FinishReplay(w)
    /\ Goto(w, "flip")
    /\ UNCHANGED <<refs, rec, catchup, made, faults>>

\* ... or is exhausted and leaves the rebase paused, or fails for another
\* reason, perhaps after some stops.
StopsUnresolved(w) ==
    /\ proc[w].pc = "resolve"
    /\ \E landed \in BOOLEAN : wt' = [wt EXCEPT ![w].landed = landed]
    /\ \/ Return(w)
       \/ proc' = [proc EXCEPT ![w].pc = "fallback", ![w].resolver = FALSE]
    /\ UNCHANGED <<commits, refs, rec, catchup, made, faults>>

\* _fallback_to_endpoint_merge keeps a rebase with landed stops paused.
_fallback_to_endpoint_merge(w) ==
    /\ proc[w].pc = "fallback"
    /\ \/ wt[w].landed /\ Return(w) /\ UNCHANGED <<wt, faults>>
       \/ ~wt[w].landed /\ Abort(w) /\ Goto(w, "merge") /\ UNCHANGED faults
       \/ ~wt[w].landed /\ Fault /\ Return(w) /\ UNCHANGED wt
    /\ UNCHANGED <<commits, refs, rec, catchup, made>>

\* _endpoint_merge_result.  A merge that cannot be committed is aborted, or
\* left to the resolver; the record goes when nothing is left in progress.
MergeEnds(w) ==
    /\ proc[w].pc = "merge"
    /\ IF IsAncestor(target, wt[w].head) THEN UNCHANGED <<commits, wt>>
       ELSE IF IsAncestor(wt[w].head, target) THEN CheckOut(w, target) /\ UNCHANGED commits
       ELSE MergeWith(w, target)
    /\ proc' = [proc EXCEPT ![w].pc = "flip", ![w].merged = TRUE]
    /\ UNCHANGED <<refs, rec, catchup, made, faults>>

MergeStops(w) ==
    /\ proc[w].pc = "merge"
    /\ ~(Work(wt[w].head) \subseteq Work(target)) /\ ~(Work(target) \subseteq Work(wt[w].head))
    /\ wt' = [wt EXCEPT ![w].op = "merge", ![w].other = target, ![w].stopped = TRUE]
    /\ Goto(w, IF proc[w].resolver THEN "mresolve" ELSE "mabort")
    /\ UNCHANGED <<commits, refs, rec, catchup, made, faults>>

\* _stage_verify_and_commit.
MergeResolved(w) ==
    /\ proc[w].pc = "mresolve"
    /\ MergeWith(w, wt[w].other)
    /\ proc' = [proc EXCEPT ![w].pc = "flip", ![w].merged = TRUE]
    /\ UNCHANGED <<refs, rec, catchup, made, faults>>

abort_merge(w) ==
    /\ proc[w].pc \in {"mresolve", "mabort"}
    /\ \/ Abort(w) /\ clear_record(w) /\ UNCHANGED faults
       \/ Fault /\ UNCHANGED <<wt, rec>>
    /\ Return(w)
    /\ UNCHANGED <<commits, refs, catchup, made>>

WriteIntegratedUnflipped(w) ==
    /\ proc[w].pc = "flip"
    /\ write_record(w, "integrating", rec[w].pre, wt[w].head)
    /\ Goto(w, "lookup")
    /\ UNCHANGED <<commits, refs, wt, catchup, made, faults>>

\* The record says what to land before anything is landed.
WriteIntegrated(w) ==
    /\ proc[w].pc = "flip"
    /\ write_record(w, "integrated", rec[w].pre, wt[w].head)
    /\ Goto(w, "lookup")
    /\ UNCHANGED <<commits, refs, wt, catchup, made, faults>>

\* _read_post_integration_head_sha failed.
HeadUnread(w) ==
    /\ proc[w].pc = "flip"
    /\ Fault
    /\ clear_record(w)
    /\ Return(w)
    /\ UNCHANGED <<commits, refs, wt, catchup, made>>

-----------------------------------------------------------------------------
(* fast_forward_target, for a seam and for recovery *)

Landing(w, result) ==
    proc' = [proc EXCEPT ![w].pc = "landed", ![w].seen = 0, ![w].result = result]

\* _landing_gate_reason and worktree_lookup.
LookUpTarget(w) ==
    /\ proc[w].pc = "lookup"
    /\ \/ IsAncestor(target, rec[w].feature) /\ UNCHANGED faults
          /\ Goto(w, IF checkedOut THEN "ffonly" ELSE "observe")
       \/ ~IsAncestor(target, rec[w].feature) /\ Landing(w, "moved") /\ UNCHANGED faults
       \/ Fault /\ \E result \in {"failed"} \cup (IF proc[w].recovering THEN {"raised"} ELSE {}) :
                     Landing(w, result)
    /\ UNCHANGED <<commits, refs, wt, rec, catchup, made>>

\* _observe_landable_target, as late as _fast_forward_via_cas allows.
ObserveTarget(w) ==
    /\ proc[w].pc = "observe"
    /\ IF IsAncestor(target, rec[w].feature)
       THEN proc' = [proc EXCEPT ![w].pc = "cas", ![w].seen = target]
       ELSE Landing(w, "moved")
    /\ UNCHANGED <<commits, refs, wt, rec, catchup, made, faults>>

UpdateWithoutOldValue(w) ==
    /\ proc[w].pc = "cas"
    /\ target' = rec[w].feature /\ Landing(w, "ok")
    /\ UNCHANGED <<commits, checkedOut, wt, rec, catchup, made, faults>>

SwapIgnoresExitCode(w) ==
    /\ proc[w].pc = "cas"
    /\ target' = (IF target = proc[w].seen THEN rec[w].feature ELSE target)
    /\ Landing(w, "ok")
    /\ UNCHANGED <<commits, checkedOut, wt, rec, catchup, made, faults>>

compare_and_swap_branch(w) ==
    /\ proc[w].pc = "cas"
    /\ IF target = proc[w].seen
       THEN target' = rec[w].feature /\ Landing(w, "ok")
       ELSE UNCHANGED target /\ Landing(w, "moved")
    /\ UNCHANGED <<commits, checkedOut, wt, rec, catchup, made, faults>>

\* git merge --ff-only where the target is checked out; local changes there
\* may refuse it once, until they are reclaimed.
fast_forward_via_worktree(w) ==
    /\ proc[w].pc \in {"ffonly", "ffagain"}
    /\ \/ IsAncestor(target, rec[w].feature) /\ target' = rec[w].feature /\ Landing(w, "ok")
       \/ IsAncestor(rec[w].feature, target) /\ UNCHANGED target /\ Landing(w, "ok")
       \/ proc[w].pc = "ffonly" /\ UNCHANGED target /\ Goto(w, "reclaim")
       \/ /\ proc[w].pc = "ffagain"
          /\ ~IsAncestor(target, rec[w].feature) /\ ~IsAncestor(rec[w].feature, target)
          /\ UNCHANGED target /\ Landing(w, "failed")
    /\ UNCHANGED <<commits, checkedOut, wt, rec, catchup, made, faults>>

reclaim_dirty_target_worktree(w) ==
    /\ proc[w].pc = "reclaim"
    /\ Goto(w, "ffagain") \/ Landing(w, "failed")
    /\ UNCHANGED <<commits, refs, wt, rec, catchup, made, faults>>

\* The seam clears its record, and tries again when the target did not move.
NextAttempt(w) ==
    /\ proc[w].result # "ok"
    /\ proc[w].attempt < MaxAttempts

ClearIntegratedUncounted(w) ==
    /\ proc[w].pc = "landed" /\ ~proc[w].recovering
    /\ clear_record(w)
    /\ IF NextAttempt(w)
       THEN proc' = [proc EXCEPT ![w].pc = "record", ![w].result = "none"]
       ELSE Return(w)
    /\ UNCHANGED <<commits, refs, wt, catchup, made, faults>>

ClearIntegrated(w) ==
    /\ proc[w].pc = "landed" /\ ~proc[w].recovering
    /\ clear_record(w)
    /\ IF NextAttempt(w)
       THEN proc' = [proc EXCEPT ![w].pc = "record", ![w].attempt = @ + 1, ![w].result = "none"]
       ELSE Return(w)
    /\ UNCHANGED <<commits, refs, wt, catchup, made, faults>>

-----------------------------------------------------------------------------
(* Startup: recover_incomplete_integration *)

Start(w) ==
    /\ proc[w].pc = "down"
    /\ proc' = [proc EXCEPT ![w] = [At("recover") EXCEPT !.recovering = TRUE]]
    /\ UNCHANGED <<commits, refs, wt, rec, catchup, made, faults>>

\* The startup catch-up follows, unless the record is retained or the tree
\* holds conflicts.
StartUp(w) == Seam(w, "run")
Retain(w) == proc' = [proc EXCEPT ![w] = At("run")]

\* _reclaim_unowned_stale_rebase: without a record, only a clean tree is touched.
RecoverUnowned(w) ==
    /\ proc[w].pc = "recover" /\ rec[w] = NoRecord
    /\ \/ ~Idle(w) /\ ~wt[w].stopped /\ Abort(w) /\ UNCHANGED faults
       \/ ~Idle(w) /\ ~wt[w].stopped /\ Fault /\ UNCHANGED wt
       \/ (Idle(w) \/ wt[w].stopped) /\ UNCHANGED <<wt, faults>>
    /\ StartUp(w)
    /\ UNCHANGED <<commits, refs, rec, catchup, made>>

\* What the previous process left in progress is aborted.
RecoverAborts(w) ==
    /\ proc[w].pc = "recover" /\ rec[w] # NoRecord
    /\ \/ /\ Abort(w) /\ UNCHANGED faults
          /\ Goto(w, IF rec[w].phase = "integrating" THEN "reset" ELSE "verdict")
       \/ /\ ~Idle(w) /\ Fault /\ UNCHANGED wt
          /\ IF rec[w].phase = "integrating" THEN Goto(w, "reset") ELSE Retain(w)
    /\ UNCHANGED <<commits, refs, rec, catchup, made>>

\* recover_integrating_record: the record goes once HEAD is proven restored.
RecoverResets(w) ==
    /\ proc[w].pc = "reset"
    /\ \/ /\ reset_hard(w, rec[w].pre) /\ UNCHANGED faults
          /\ IF Idle(w) THEN clear_record(w) /\ StartUp(w) ELSE UNCHANGED rec /\ Retain(w)
       \/ Fault /\ UNCHANGED <<wt, rec>> /\ Retain(w)
    /\ UNCHANGED <<commits, refs, catchup, made>>

\* _continue_fast_forward_from_record.
RecoverDecides(w) ==
    /\ proc[w].pc = "verdict"
    /\ IF target = rec[w].feature \/ ~IsAncestor(target, rec[w].feature)
       THEN clear_record(w) /\ StartUp(w)
       ELSE Goto(w, "lookup") /\ UNCHANGED rec
    /\ UNCHANGED <<commits, refs, wt, catchup, made, faults>>

\* post_attempt_verify: a landing that did not happen must find HEAD where it
\* was before the attempt.
post_attempt_verify(w) ==
    proc[w].result \in {"moved", "failed"} => wt[w].head = rec[w].pre

_land_and_reconcile(w) ==
    /\ proc[w].pc = "landed" /\ proc[w].recovering
    /\ IF post_attempt_verify(w) /\ proc[w].result \in {"ok", "moved"}
       THEN clear_record(w) /\ StartUp(w)
       ELSE UNCHANGED rec /\ Retain(w)
    /\ UNCHANGED <<commits, refs, wt, catchup, made, faults>>

-----------------------------------------------------------------------------
(* The catch-up thread, the end of a run, and kills *)

\* attempt_catchup_fast_forward: the checkout is clean, on its branch, and
\* strictly behind the target.
CatchUpObserves(w) ==
    /\ proc[w].pc # "down"
    /\ catchup[w] = 0
    /\ Idle(w)
    /\ wt[w].branch # target /\ IsAncestor(wt[w].branch, target)
    /\ catchup' = [catchup EXCEPT ![w] = target]
    /\ UNCHANGED <<commits, refs, wt, rec, proc, made, faults>>

\* git merge --ff-only moves whatever HEAD is by then, a paused rebase's too.
CatchUpMerges(w) ==
    /\ catchup[w] # 0
    /\ wt' = [wt EXCEPT ![w] =
                IF @.stopped \/ ~IsAncestor(@.head, catchup[w]) THEN @
                ELSE IF @.op = "rebase" THEN [@ EXCEPT !.head = catchup[w]]
                ELSE OnBranch(catchup[w])]
    /\ catchup' = [catchup EXCEPT ![w] = 0]
    /\ UNCHANGED <<commits, refs, rec, proc, made, faults>>

RunEnds(w) ==
    /\ proc[w].pc = "run"
    /\ Exit(w)
    /\ UNCHANGED <<commits, refs, wt, rec, made, faults>>

Kill(w) ==
    /\ proc[w].pc \notin {"down", "run"}
    /\ Fault
    /\ Exit(w)
    /\ UNCHANGED <<commits, refs, wt, rec, made>>

-----------------------------------------------------------------------------

Attempt(w) ==
    \/ SeamSkips(w) \/ SeamStarts(w) \/ WriteIntegrating(w)
    \/ SeamRaises(w) \/ run_rebase_or_merge(w) \/ ReplayEnds(w) \/ ReplayStops(w)
    \/ ReplayFails(w) \/ StopsResolved(w) \/ StopsUnresolved(w)
    \/ _fallback_to_endpoint_merge(w) \/ MergeEnds(w) \/ MergeStops(w) \/ MergeResolved(w)
    \/ abort_merge(w) \/ WriteIntegrated(w) \/ HeadUnread(w)
    \/ LookUpTarget(w) \/ ObserveTarget(w) \/ compare_and_swap_branch(w)
    \/ fast_forward_via_worktree(w) \/ reclaim_dirty_target_worktree(w)
    \/ ClearIntegrated(w) \/ GateAgain(w)

Recovery(w) ==
    \/ RecoverUnowned(w) \/ RecoverAborts(w) \/ RecoverResets(w)
    \/ RecoverDecides(w) \/ _land_and_reconcile(w)

Next ==
    \E w \in Worktrees :
        \/ Commit(w) \/ Boundary(w) \/ GateResolved(w) \/ GateUnresolved(w)
        \/ Attempt(w) \/ Start(w) \/ Recovery(w)
        \/ CatchUpObserves(w) \/ CatchUpMerges(w) \/ RunEnds(w) \/ Kill(w)

Spec == Init /\ [][Next]_vars

\* A resolver session of the seam is under way.
Resolving(w) == proc[w].pc \in {"resolve", "mresolve"}

\* Every git command ends or is timed out.  Nothing makes a phase commit, a stopped
\* run start again, or a resolver session end: by default it has no total cap, and an
\* agent that stays active is never stopped.
FairSpec ==
    Spec /\ \A w \in Worktrees : WF_vars(~Resolving(w) /\ (Attempt(w) \/ Recovery(w)))

-----------------------------------------------------------------------------
(* Properties *)

\* Every ref, record and remembered commit names a stored commit (or 0, none),
\* and a seam makes at most MaxAttempts attempts.
TypeOK ==
    /\ target \in DOMAIN commits
    /\ \A w \in Worktrees :
         /\ {wt[w].branch, wt[w].head} \subseteq DOMAIN commits
         /\ {wt[w].other, rec[w].pre, rec[w].feature, proc[w].seen, catchup[w]}
              \subseteq {0} \cup DOMAIN commits
         /\ made[w] \in 0..MaxChanges
         /\ proc[w].attempt \in 0..MaxAttempts
    /\ faults \in 0..MaxFaults

\* fast_forward_target never force-moves the target: whoever lands or recovers,
\* and whoever landed since it looked, the new tip holds the old one.
MainlineOnlyAdvances == [][(target \in commits'[target'].anc)]_vars

\* The target moves only to a tip that a durable "integrated" record names, and
\* that tip has lost none of the work the branch held before the attempt, even
\* when the catch-up thread or a paused rebase got in between.
OnlyRecordedTipsLand ==
    [][target' # target =>
         \E w \in Worktrees :
            /\ rec[w].phase = "integrated"
            /\ rec[w].feature = target'
            /\ Work(rec[w].pre) \subseteq Work(target')]_vars

\* An attempt that has not written "integrated" yet, which a kill may end now.
InAttempt(w) ==
    /\ ~proc[w].recovering
    /\ proc[w].pc \in {"rebase", "replay", "resolve", "fallback", "merge", "mresolve", "mabort"}

\* Killed anywhere inside an attempt, the next startup restores the branch from
\* the record; what it restores, with the target, holds all the branch holds.
CrashInsideAttemptIsSafe ==
    \A w \in Worktrees :
        InAttempt(w) =>
            /\ rec[w].phase = "integrating"
            /\ Work(wt[w].branch) \subseteq Work(rec[w].pre) \cup Work(target)

\* fast_forward_target reports a landing only when the target then holds the
\* recorded tip, however the compare-and-swap or the checkout's merge raced with
\* a sibling; as the mainline only advances, it holds it from then on.
LandingsAreReal ==
    [][\A w \in Worktrees :
         proc'[w].pc = "landed" /\ proc'[w].result = "ok" =>
            \/ UNCHANGED <<proc[w], rec[w]>>
            \/ rec'[w].feature \in commits'[target'].anc]_vars

\* No abort, replay, merge, catch-up or failed attempt takes committed work off
\* a branch: only recover_integrating_record does, back to the recorded tip.
OnlyRecoveryTakesBack ==
    [][\A w \in Worktrees :
         \/ Work(wt[w].branch) \subseteq commits'[wt'[w].branch].work
         \/ /\ proc[w].pc = "reset" /\ rec[w].phase = "integrating"
            /\ wt'[w].branch = rec[w].pre]_vars

\* However often siblings move the target or the target's checkout refuses, a run
\* comes out of every seam and out of its recovery, unless one resolver session
\* never ends: no run goes from attempt to attempt for ever.
SeamsAndRecoveriesEnd ==
    \A w \in Worktrees : []<>(proc[w].pc \in {"run", "down"}) \/ <>[]Resolving(w)
=============================================================================
