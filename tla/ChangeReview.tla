----------------------------- MODULE ChangeReview -----------------------------
(***************************************************************************)
(* The life of a change review: from the draft a teammate leaves behind,   *)
(* through the decision of an operator or of the leader agent, to a patch  *)
(* in the workspace.  The modelled code is services/safe-apply,            *)
(* repositories/change-review-repository.ts and routes/change-reviews.ts.  *)
(*                                                                         *)
(* One change_reviews row per review, one git workspace.  An SQL statement *)
(* or a synchronous transaction is one action; so is each git command, and *)
(* a run of reads that no other handler can tell apart.  Calls of the two  *)
(* apply paths interleave at every await, and the API process may die at   *)
(* any of them.  The workspace's lock file keeps nobody out for certain    *)
(* (ApplyLock's MutualExclusion), so here it is only a reason to refuse an *)
(* apply; and the operator's own git looks at no lock at all.  Hash checks *)
(* are left out: the diffHash of a row never changes, so a caller with     *)
(* another hash only gets an error.                                        *)
(***************************************************************************)
EXTENDS Naturals, FiniteSets

CONSTANTS
  Reviews,        \* change reviews of one workspace
  OperatorCalls,  \* concurrent POST /change-reviews/:id/apply requests
  LeaderCalls,    \* concurrent leader_apply_change_review tool calls
  Leaders,        \* leader role runtimes
  IdOf,           \* the decidedBy string of a leader call
  None,           \* stands for the review of a call that has not begun
  FilesOf,        \* the files a review's patch touches
  BaseRequired,   \* every draft records a base revision
  MaxRev,         \* bound on commits made outside the leader path
  MaxCrashes      \* bound on process deaths

Calls == OperatorCalls \cup LeaderCalls

ASSUME CallAssumption == /\ OperatorCalls \cap LeaderCalls = {}
                         /\ IdOf \in [LeaderCalls -> Leaders]
                         /\ "nobody" \notin Leaders
                         /\ "operator" \notin Leaders
ASSUME NoneAssumption == None \notin Reviews
ASSUME FlagAssumption == /\ BaseRequired \in BOOLEAN
                         /\ MaxRev \in Nat
                         /\ MaxCrashes \in Nat

VARIABLES
  row,       \* the change_reviews table
  pc, on,    \* where each apply call stands, and the review it is for
  discards,  \* discard requests past their applicability probe
  head,      \* patches contained in the commit HEAD names
  log,       \* reviews with a "leader-applied change_review" commit
  index,     \* patches in the git index
  tree,      \* what of each patch is in the working tree
  rev,       \* the revision HEAD names
  up,        \* the API process is running
  orphans,   \* rows the boot-time reconciler selected and has yet to settle
  crashes,
  abandoned, \* history: rows left applying with no call to settle them
  misled     \* history: commits git made, and reported as not there

gitVars == <<head, log, index, tree, rev>>
runVars == <<up, orphans, crashes, abandoned>>
vars == <<row, pc, on, discards, gitVars, runVars, misled>>

------------------------------------------------------------------------------
Decisions == {"pending", "approved", "rejected", "revision_requested",
              "not_required", "superseded"}
ApplyStates == {"not_applied", "applying", "applied", "apply_failed",
                "partially_applied"}
Actors == Leaders \cup {"operator", "nobody"}

Row == [decision : Decisions \cup {"none"},  \* "none": not materialized yet
        apply    : ApplyStates,
        assignee : {"user", "leader"},
        by       : Actors,                   \* decidedBy
        verdict  : {"none", "approve", "other"},  \* "approve": APPROVE, high
        base     : SUBSET Nat,                 \* baseRevision, {} when null
        old      : BOOLEAN]                  \* updatedAt is past the TTL

OpInside == {"op_base", "op_clean", "op_check", "op_apply", "op_record",
             "op_fail"}
InSlot   == {"lock", "base", "clean", "check", "apply", "stage", "commit",
             "reverse", "mark_failed", "mark_partial", "final"}
Locations == {"idle", "op_lock", "op_validate", "claim"}
               \cup OpInside \cup InSlot

TypeOK == /\ row \in [Reviews -> Row]
          /\ pc \in [Calls -> Locations]
          /\ on \in [Calls -> Reviews \cup {None}]
          /\ \A c \in Calls : on[c] = None <=> pc[c] = "idle"
          /\ discards \subseteq Reviews
          /\ head \subseteq Reviews
          /\ log \subseteq Reviews
          /\ index \subseteq Reviews
          /\ tree \in [Reviews -> {"absent", "partial", "full"}]
          /\ rev \in Nat
          /\ up \in BOOLEAN
          /\ orphans \subseteq Reviews
          /\ crashes \in Nat
          /\ abandoned \subseteq Reviews
          /\ misled \subseteq Reviews

NoRow == [decision |-> "none", apply |-> "not_applied", assignee |-> "user",
          by |-> "nobody", verdict |-> "none", base |-> {}, old |-> FALSE]

Init == /\ row = [r \in Reviews |-> NoRow]
        /\ pc = [c \in Calls |-> "idle"]
        /\ on = [c \in Calls |-> None]
        /\ discards = {}
        /\ head = {}
        /\ log = {}
        /\ index = {}
        /\ tree = [r \in Reviews |-> "absent"]
        /\ rev = 0
        /\ up = TRUE
        /\ orphans = {}
        /\ crashes = 0
        /\ abandoned = {}
        /\ misled = {}

------------------------------------------------------------------------------
\* Every write of a row refreshes its updatedAt.
Update(r, new) == row' = [row EXCEPT ![r] = [new EXCEPT !.old = FALSE]]

Goto(c, l) == pc' = [pc EXCEPT ![c] = l]

\* The call is over.
Return(c) == Goto(c, "idle") /\ on' = [on EXCEPT ![c] = None]

\* What git status, git apply --check and git rev-parse say.
Committed(p)   == IF p \in head THEN "full" ELSE "absent"
Dirty(p)       == \/ tree[p] # Committed(p)
                  \/ (p \in index) # (p \in head)
SharesFiles(p, r) == FilesOf[p] \cap FilesOf[r] # {}
CleanFor(r)    == \A p \in Reviews : SharesFiles(p, r) => ~Dirty(p)
Applies(r)     == tree[r] = "absent"

\* Mutant: the applying state is forgotten.
UndecidedOnly(r) == row[r].decision = "pending"
Undecided(r)   == row[r].decision = "pending" /\ row[r].apply # "applying"
Appliable(r)   == row[r].decision = "approved" /\ row[r].apply = "not_applied"
OwnsSlot(c)    == row[on[c]].apply = "applying" /\ row[on[c]].by = IdOf[c]

------------------------------------------------------------------------------
\* Handlers that are one statement or one transaction.

\* materializeChangeReviewFromDraft: the row is created once, pending or not
\* required; routeAssignment gives a pending one to the leader or the user.
Materialize(r) ==
  /\ row[r].decision = "none"
  /\ \E d \in {"pending", "not_required"}, a \in {"user", "leader"},
        b \in {{n} : n \in 0..rev} \cup (IF BaseRequired THEN {} ELSE {{}}) :
       /\ a = "leader" => d = "pending"
       /\ Update(r, [NoRow EXCEPT !.decision = d, !.assignee = a, !.base = b])
  /\ UNCHANGED <<pc, on, discards, gitVars, runVars, misled>>

\* recordDecision: the operator's decision on a row nobody is applying.
Decide(r) ==
  /\ Undecided(r)
  /\ \E d \in {"approved", "rejected", "revision_requested"} :
       Update(r, [row[r] EXCEPT !.decision = d, !.by = "operator"])
  /\ UNCHANGED <<pc, on, discards, gitVars, runVars, misled>>

LeaderReject(r) ==
  /\ Undecided(r)
  /\ row[r].assignee = "leader"
  /\ \E l \in Leaders :
       Update(r, [row[r] EXCEPT !.decision = "rejected", !.by = l])
  /\ UNCHANGED <<pc, on, discards, gitVars, runVars, misled>>

\* escalateChangeReviewToUser
Escalate(r) ==
  /\ Undecided(r)
  /\ row[r].assignee = "leader"
  /\ Update(r, [row[r] EXCEPT !.assignee = "user"])
  /\ UNCHANGED <<pc, on, discards, gitVars, runVars, misled>>

\* persistReviewerVerdict: the verdict slot is filled once.
SubmitVerdict(r) ==
  /\ row[r].decision # "none"
  /\ row[r].verdict = "none"
  /\ row[r].apply # "applying"
  /\ \E v \in {"approve", "other"} : Update(r, [row[r] EXCEPT !.verdict = v])
  /\ UNCHANGED <<pc, on, discards, gitVars, runVars, misled>>

\* POST /discard: the probe, and after its awaits the conditional UPDATE.  A
\* git command or a read that fails makes a review inapplicable, too.
DiscardProbe(r) ==
  /\ Appliable(r)
  /\ discards' = discards \cup {r}
  /\ UNCHANGED <<row, pc, on, gitVars, runVars, misled>>

\* Mutant: the UPDATE trusts the probe.
DiscardUpdateBlind(r) ==
  /\ r \in discards
  /\ discards' = discards \ {r}
  /\ Update(r, [row[r] EXCEPT !.decision = "superseded", !.by = "operator"])
  /\ UNCHANGED <<pc, on, gitVars, runVars, misled>>

DiscardUpdate(r) ==
  /\ r \in discards
  /\ discards' = discards \ {r}
  /\ \/ /\ Appliable(r)
        /\ Update(r, [row[r] EXCEPT !.decision = "superseded",
                                    !.by = "operator"])
     \/ ~Appliable(r) /\ UNCHANGED row
  /\ UNCHANGED <<pc, on, gitVars, runVars, misled>>

------------------------------------------------------------------------------
\* git apply: all of the patch, or a failure that may leave part of it when
\* the command was killed.
GitApply(c, ok, failed) ==
  \/ /\ Applies(on[c])
     /\ tree' = [tree EXCEPT ![on[c]] = "full"]
     /\ Goto(c, ok)
  \/ /\ \/ UNCHANGED tree
        \/ /\ tree[on[c]] = "absent"
           /\ tree' = [tree EXCEPT ![on[c]] = "partial"]
     /\ Goto(c, failed)

------------------------------------------------------------------------------
\* applyChangeReview: the operator's path.
OpStart(c) ==
  /\ pc[c] = "idle"
  /\ \E r \in Reviews : /\ row[r].decision # "none"
                        /\ on' = [on EXCEPT ![c] = r]
  /\ Goto(c, "op_lock")
  /\ UNCHANGED <<row, discards, gitVars, runVars, misled>>

\* The call ends, or goes on to l, without a trace in the rows or in git.
OpEnds(c) == Return(c) /\ UNCHANGED <<row, discards, gitVars, runVars, misled>>
OpGoes(c, l) ==
  Goto(c, l) /\ UNCHANGED <<row, on, discards, gitVars, runVars, misled>>

\* acquireApplyLock, or a 409 or another error instead of it.
OpLock(c) == pc[c] = "op_lock" /\ (OpGoes(c, "op_validate") \/ OpEnds(c))

\* The row is read again under the lock: validateReviewEligibility.
OpValidate(c) ==
  /\ pc[c] = "op_validate"
  /\ \/ Appliable(on[c]) /\ OpGoes(c, "op_base")
     \/ ~Appliable(on[c]) /\ OpEnds(c)

\* assertWorkspaceAtBaseRevision, assertWorkspaceClean, git apply --check: the
\* patch may not apply to its base, and a command or a file may fail.
OpPreflight(c) ==
  \/ pc[c] = "op_base" /\ row[on[c]].base = {rev} /\ OpGoes(c, "op_clean")
  \/ pc[c] = "op_clean" /\ CleanFor(on[c]) /\ OpGoes(c, "op_check")
  \/ pc[c] = "op_check" /\ Applies(on[c]) /\ OpGoes(c, "op_apply")
  \/ pc[c] \in {"op_base", "op_clean", "op_check"} /\ OpEnds(c)

OpApply(c) ==
  /\ pc[c] = "op_apply"
  /\ GitApply(c, "op_record", "op_fail")
  /\ UNCHANGED <<row, on, discards, head, log, index, rev, runVars, misled>>

\* recordApplySuccess, and recordApplyFailure on the other branch: a row
\* that is no longer approved and not applied makes either one throw.
OpRecord(c) ==
  /\ pc[c] \in {"op_record", "op_fail"}
  /\ IF Appliable(on[c])
       THEN Update(on[c], [row[on[c]] EXCEPT
              !.apply = IF pc[c] = "op_record" THEN "applied" ELSE "apply_failed"])
       ELSE UNCHANGED row
  /\ Return(c)
  /\ UNCHANGED <<discards, gitVars, runVars, misled>>

------------------------------------------------------------------------------
\* applyChangeReviewAsLeader.

\* Step 1, the verdict gate.
Gate(c) ==
  /\ pc[c] = "idle"
  /\ \E r \in Reviews : /\ row[r].decision # "none"
                        /\ row[r].assignee = "leader"
                        /\ row[r].verdict = "approve"
                        /\ on' = [on EXCEPT ![c] = r]
  /\ Goto(c, "claim")
  /\ UNCHANGED <<row, discards, gitVars, runVars, misled>>

\* Mutants: a claimed row, or one handed to the user, can be claimed.
ClaimableTwice(r) == row[r].assignee = "leader" /\ row[r].decision = "pending"
ClaimableByAny(r) == /\ row[r].decision = "pending"
                     /\ row[r].apply = "not_applied"
Claimable(r) == /\ row[r].assignee = "leader"
                /\ row[r].decision = "pending"
                /\ row[r].apply = "not_applied"

\* Step 2, claimApplyingSlot: one conditional UPDATE.
Claim(c) ==
  LET r == on[c] IN
  /\ pc[c] = "claim"
  /\ \/ /\ Claimable(r)
        /\ Update(r, [row[r] EXCEPT !.apply = "applying", !.by = IdOf[c]])
        /\ Goto(c, "lock")
        /\ UNCHANGED on
     \/ /\ ~Claimable(r)
        /\ Return(c)
        /\ UNCHANGED row
  /\ UNCHANGED <<discards, gitVars, runVars, misled>>

\* Writes guarded by apply_state = applying AND decided_by = self.
Settle(c, new) == IF OwnsSlot(c) THEN Update(on[c], new) ELSE UNCHANGED row

\* revertApplyingSlot
RevertSlot(c) == Settle(c, [row[on[c]] EXCEPT !.apply = "not_applied",
                                              !.by = "nobody"])

\* Mutant: the slot is not given back.
GiveUpKeeping(c) == UNCHANGED row /\ Return(c)

\* The call returns an error and gives its slot back.
GiveUp(c) == RevertSlot(c) /\ Return(c)

\* Step 3: acquireApplyLock; it may stay busy through every retry, or fail.
Lock(c) ==
  /\ pc[c] = "lock"
  /\ \/ Goto(c, "base") /\ UNCHANGED <<row, on>>
     \/ GiveUp(c)
  /\ UNCHANGED <<discards, gitVars, runVars, misled>>

\* Steps 4 to 6: HEAD and base revision, then git status.  A row without a
\* base revision skips the first; a command or a read may fail.
Preflight(c) ==
  /\ \/ /\ pc[c] = "base"
        /\ row[on[c]].base \subseteq {rev}
        /\ Goto(c, "clean")
        /\ UNCHANGED <<row, on>>
     \/ /\ pc[c] = "clean"
        /\ CleanFor(on[c])
        /\ Goto(c, "check")
        /\ UNCHANGED <<row, on>>
     \/ pc[c] \in {"base", "clean"} /\ GiveUp(c)
  /\ UNCHANGED <<discards, gitVars, runVars, misled>>

\* Step 7: the patch is read and written to a file, and git apply --check.  A
\* patch that cannot be read gives the slot back; one that cannot be written
\* throws, and leaves the slot claimed.
Check(c) ==
  /\ pc[c] = "check"
  /\ \/ GiveUp(c) /\ UNCHANGED abandoned
     \/ /\ Return(c)
        /\ abandoned' = abandoned \cup {on[c]}
        /\ UNCHANGED row
     \/ /\ \/ Applies(on[c]) /\ Goto(c, "apply")
           \/ Goto(c, "mark_failed")
        /\ UNCHANGED <<row, on, abandoned>>
  /\ UNCHANGED <<discards, gitVars, up, orphans, crashes, misled>>

\* Step 8: git apply.
Apply(c) ==
  /\ pc[c] = "apply"
  /\ GitApply(c, "stage", "reverse")
  /\ UNCHANGED <<row, on, discards, head, log, index, rev, runVars, misled>>

\* Step 9: git add of the review's files, with all that is in them.
Stage(c) ==
  /\ pc[c] = "stage"
  /\ \/ /\ index' = {p \in Reviews : IF SharesFiles(p, on[c])
                                     THEN tree[p] = "full" ELSE p \in index}
        /\ Goto(c, "commit")
     \/ UNCHANGED index /\ Goto(c, "reverse")
  /\ UNCHANGED <<row, on, discards, head, log, tree, rev, runVars, misled>>

\* Step 9: git commit takes the whole index.  The command may be killed at
\* its time limit after the commit was made.
CommitIndex(c) == /\ head' = index
                  /\ log' = log \cup {on[c]}
                  /\ rev' = rev + 1

\* Mutant: the outcome of git commit is not looked at.
CommitUnchecked(c) ==
  /\ pc[c] = "commit"
  /\ CommitIndex(c) \/ UNCHANGED <<head, log, rev>>
  /\ Goto(c, "final")
  /\ UNCHANGED <<row, on, discards, index, tree, runVars, misled>>

Commit(c) ==
  /\ pc[c] = "commit"
  /\ \/ CommitIndex(c) /\ Goto(c, "final") /\ UNCHANGED misled
     \/ UNCHANGED <<head, log, rev, misled>> /\ Goto(c, "reverse")
     \/ /\ CommitIndex(c)
        /\ Goto(c, "reverse")
        /\ misled' = misled \cup {on[c]}
  /\ UNCHANGED <<row, on, discards, index, tree, runVars>>

\* Steps 8 and 10: git apply -R.  It changes the working tree only, and
\* fails unless the whole patch is there.
Reverse(c) ==
  /\ pc[c] = "reverse"
  /\ \/ /\ tree[on[c]] = "full"
        /\ tree' = [tree EXCEPT ![on[c]] = "absent"]
        /\ Goto(c, "mark_failed")
     \/ UNCHANGED tree /\ Goto(c, "mark_partial")
  /\ UNCHANGED <<row, on, discards, head, log, index, rev, runVars, misled>>

\* markApplyFailed, markPartiallyApplied
Mark(c) ==
  /\ pc[c] \in {"mark_failed", "mark_partial"}
  /\ Settle(c, [row[on[c]] EXCEPT
       !.apply = IF pc[c] = "mark_failed" THEN "apply_failed"
                                          ELSE "partially_applied"])
  /\ Return(c)
  /\ UNCHANGED <<discards, gitVars, runVars, misled>>

\* Step 11: the final conditional UPDATE.
Final(c) ==
  /\ pc[c] = "final"
  /\ Settle(c, [row[on[c]] EXCEPT !.apply = "applied", !.decision = "approved"])
  /\ Return(c)
  /\ UNCHANGED <<discards, gitVars, runVars, misled>>

------------------------------------------------------------------------------
\* The process, and the clock behind updatedAt.

\* All calls end where they stand, and leave the rows they had claimed.
Crash ==
  /\ up
  /\ crashes < MaxCrashes
  /\ up' = FALSE
  /\ crashes' = crashes + 1
  /\ pc' = [c \in Calls |-> "idle"]
  /\ on' = [c \in Calls |-> None]
  /\ discards' = {}
  /\ orphans' = {}
  /\ abandoned' = {r \in Reviews : row[r].apply = "applying"}
  /\ UNCHANGED <<row, gitVars, misled>>

\* server.ts starts reconcileOrphanApplyingReviews and does not wait for it.
Boot ==
  /\ ~up
  /\ up' = TRUE
  /\ orphans' = {r \in Reviews : row[r].apply = "applying" /\ row[r].old}
  /\ UNCHANGED <<row, pc, on, discards, gitVars, crashes, abandoned, misled>>

\* The answers of the reconciler's git log --grep for the marker commit: a
\* scan that fails finds nothing.
ScanFinds(r)  == r \in log /\ UNCHANGED misled
ScanMisses(r) == misled' = misled \cup (log \cap {r})

\* Mutant: every orphan is reverted, git is not asked.
ReconcileBlind(r) ==
  /\ r \in orphans
  /\ orphans' = orphans \ {r}
  /\ IF row[r].apply = "applying" /\ row[r].old
       THEN /\ Update(r, [row[r] EXCEPT !.apply = "not_applied", !.by = "nobody"])
            /\ abandoned' = abandoned \ {r}
       ELSE UNCHANGED <<row, abandoned>>
  /\ UNCHANGED <<pc, on, discards, gitVars, up, crashes, misled>>

\* One round of the reconciler's loop: the scan, then an UPDATE conditional
\* on the row as it was selected.
Reconcile(r) ==
  /\ r \in orphans
  /\ orphans' = orphans \ {r}
  /\ IF row[r].apply = "applying" /\ row[r].old
       THEN /\ abandoned' = abandoned \ {r}
            /\ \/ /\ ScanFinds(r)
                  /\ Update(r, [row[r] EXCEPT !.apply = "applied",
                                              !.decision = "approved"])
               \/ /\ ScanMisses(r)
                  /\ Update(r, [row[r] EXCEPT !.apply = "not_applied",
                                              !.by = "nobody"])
       ELSE UNCHANGED <<row, abandoned, misled>>
  /\ UNCHANGED <<pc, on, discards, gitVars, up, crashes>>

\* A row in the applying state reaches the TTL.
Age(r) ==
  /\ row[r].apply = "applying"
  /\ ~row[r].old
  /\ row' = [row EXCEPT ![r].old = TRUE]
  /\ UNCHANGED <<pc, on, discards, gitVars, runVars, misled>>

\* The operator's own git in the workspace, at any time: stage an applied
\* patch, commit everything, or go back to HEAD.
OperatorStages ==
  /\ \E r \in Reviews \ index : tree[r] = "full" /\ index' = index \cup {r}
  /\ UNCHANGED <<row, pc, on, discards, head, log, tree, rev, runVars, misled>>

OperatorCommits ==
  /\ rev < MaxRev
  /\ \A r \in Reviews : tree[r] # "partial"
  /\ head' = {r \in Reviews : tree[r] = "full"}
  /\ head' # head
  /\ index' = head'
  /\ rev' = rev + 1
  /\ UNCHANGED <<row, pc, on, discards, log, tree, runVars, misled>>

OperatorResets ==
  /\ index' = head
  /\ tree' = [r \in Reviews |-> Committed(r)]
  /\ UNCHANGED <<row, pc, on, discards, head, log, rev, runVars, misled>>

OperatorGit == OperatorStages \/ OperatorCommits \/ OperatorResets

------------------------------------------------------------------------------
OpStep(c) == \/ OpStart(c) \/ OpLock(c) \/ OpValidate(c)
             \/ OpPreflight(c) \/ OpApply(c) \/ OpRecord(c)

LeaderStep(c) == \/ Gate(c) \/ Claim(c) \/ Lock(c)
                 \/ Preflight(c) \/ Check(c) \/ Apply(c) \/ Stage(c)
                 \/ Commit(c) \/ Reverse(c) \/ Mark(c) \/ Final(c)

RowStep(r) == \/ Materialize(r) \/ Decide(r) \/ LeaderReject(r) \/ Escalate(r)
              \/ SubmitVerdict(r) \/ DiscardProbe(r) \/ DiscardUpdate(r)
              \/ Reconcile(r)

Next == \/ up /\ \E c \in OperatorCalls : OpStep(c)
        \/ up /\ \E c \in LeaderCalls : LeaderStep(c)
        \/ up /\ \E r \in Reviews : RowStep(r)
        \/ \E r \in Reviews : Age(r)
        \/ Crash \/ Boot \/ OperatorGit

Spec == Init /\ [][Next]_vars

\* A call that has begun goes on, the reconciler finishes its list, and a
\* dead process is started again; no new request has to arrive.
Fairness == /\ \A c \in OperatorCalls :
                 WF_vars(up /\ pc[c] # "idle" /\ OpStep(c))
            /\ \A c \in LeaderCalls :
                 WF_vars(up /\ pc[c] # "idle" /\ LeaderStep(c))
            /\ \A r \in Reviews : WF_vars(up /\ Reconcile(r))
            /\ WF_vars(Boot)

FairSpec == Spec /\ Fairness
------------------------------------------------------------------------------
\* One call at a time is between the claim and the settlement of a review,
\* and never while an operator's apply of it is past its eligibility check:
\* the conditional UPDATE of claimApplyingSlot excludes both, whatever the
\* file lock does and although calls of one leader share their decidedBy.
OneApplyPathPerReview ==
  \A c, d \in Calls :
    /\ c # d
    /\ on[c] = on[d]
    /\ pc[c] \in InSlot
    => pc[d] \notin InSlot \cup OpInside

\* A call between claim and settlement still owns its slot, so none of its
\* guarded writes (revert, mark, final) is lost, whatever the other calls, the
\* other handlers and the reconciler do.
SlotOwnerKeepsSlot ==
  \A c \in LeaderCalls : pc[c] \in InSlot => OwnsSlot(c)

\* No sequence of decisions, discards, applies and reconciliations reopens
\* what was settled. A decision is final, but that an approved review that was
\* not applied may still become superseded; and an apply that ended stays
\* ended: applied, failed and partial rows are never applied, reverted or
\* reconciled again.
NothingIsReopened ==
  [][\A r \in Reviews :
       LET d == row[r].decision IN
       /\ d \notin {"none", "pending"} /\ row'[r].decision # d
          => /\ d = "approved"
             /\ row'[r].decision = "superseded"
             /\ row[r].apply = "not_applied"
       /\ row[r].apply \in {"applied", "apply_failed", "partially_applied"}
          => row'[r].apply = row[r].apply]_vars

\* A review the leader landed was assigned to it and carries a
\* high-confidence APPROVE, although both are read before the claim and
\* other handlers run in between; and only an approved review is applied.
LandedWasReviewed ==
  \A r \in Reviews : row[r].apply = "applied" =>
    /\ row[r].decision = "approved"
    /\ row[r].by \in Leaders => /\ row[r].assignee = "leader"
                                /\ row[r].verdict = "approve"

\* The database and git agree on what the leader landed.  A row that says the
\* leader applied it has its commit in git; and from the commit on, through a
\* crash, a restart and the reconciler, the row is applied or still applying,
\* unless git made the commit and denied it: the command was killed after it,
\* or the reconciler's scan failed.
LandedIsInGit ==
  \A r \in Reviews :
    row[r].apply = "applied" /\ row[r].by \in Leaders => r \in log

CommitIsNeverForgotten ==
  \A r \in log \ misled : row[r].apply \in {"applying", "applied"}

\* A claimed row always has somebody to settle it: either exactly one call is
\* between claim and settlement, or the row was abandoned, by a patch file
\* that could not be written or by a crash, and nobody is.
ApplyingHasOwner ==
  \A r \in Reviews :
    LET owners == {c \in LeaderCalls : on[c] = r /\ pc[c] \in InSlot}
    IN  IF row[r].apply = "applying" /\ r \notin abandoned
        THEN \E c \in LeaderCalls : owners = {c}
        ELSE owners = {}

\* A claimed row is settled again, however busy the lock and whatever git does,
\* unless it is abandoned (the reconciler runs at boots only, and leaves a
\* young row alone).
ClaimSettles ==
  \A r \in Reviews :
    row[r].apply = "applying" ~> row[r].apply # "applying" \/ r \in abandoned

\* What the code does not keep.  A leader commit is made on the revision the
\* review was written against; it takes no patch an operator applied and left
\* uncommitted; every claimed row is settled.
CommitLandsOnReviewedBase ==
  [][\A c \in LeaderCalls :
       Commit(c) /\ rev' # rev => row[on[c]].base \subseteq {rev}]_vars

CommitTakesNoOperatorWork ==
  [][\A c \in LeaderCalls : Commit(c) =>
       \A r \in head' \ head :
         ~(row[r].apply = "applied" /\ row[r].by = "operator")]_vars

EveryClaimSettles ==
  \A r \in Reviews : row[r].apply = "applying" ~> row[r].apply # "applying"

\* "Lands a reviewed patch on disk + commits it": the leader's commit adds
\* that patch and nothing else (leader-apply-service.ts:4-5).
CommitIsTheReviewedPatch ==
  [][\A c \in LeaderCalls : Commit(c) => head' \ head \subseteq {on[c]}]_vars

\* "an already-applied row has no supersede semantics (the patch landed)":
\* no superseded review's patch is in the tree (routes/change-reviews.ts).
SupersededNeverLanded ==
  \A r \in Reviews : row[r].decision = "superseded" => tree[r] # "full"
==============================================================================
