----------------------------- MODULE Publication -----------------------------
(***************************************************************************)
(* How an accepted run is finalized and published: finalizeRun             *)
(* (finalize.ts) with the git object writer (git-object-writer.ts), and    *)
(* publishFinalizedRunV4 (publication.ts) with the GitHub adapter          *)
(* (github-publication.ts), acting on a worktree, a task ref, a remote     *)
(* branch and a pull request.                                              *)
(*                                                                         *)
(* `Callers` are concurrent finalize calls of one run.  Every await ends   *)
(* an action; any awaited call may throw, before or after its effect, the  *)
(* process may die, the run may be aborted, a merge may land late, and     *)
(* others may write the worktree, the task ref and the remote branch.      *)
(*                                                                         *)
(* Abstractions.  Message, author and time of the commit are given by the  *)
(* caller and the same in every call, so a commit is named by its tree.    *)
(* The evidence checks that depend on the input alone (contract,           *)
(* validation, attestation, policy and provenance hashes) are passed: the  *)
(* calls modelled are those the checks let through.  The daemon is its     *)
(* reducer and the command ids it knows; how it persists is BrokerDaemon's *)
(* subject.                                                                *)
(***************************************************************************)
EXTENDS RunState

CONSTANTS
    Callers,     \* bound: concurrent finalize calls
    MaxFaults,   \* bound: thrown calls and crashes
    MaxForeign   \* bound: writes by others

ASSUME PublicationSizes == MaxFaults \in Nat /\ MaxForeign \in Nat
ASSUME NoCallerIsNone == "none" \notin Callers

VARIABLES
    run,        \* the run, as the daemon reduced it
    recorded,   \* the deterministic commands journaled for it
    policy,     \* what policy and contract say of publication
    worktree,   \* the tree the worktree holds
    taskRef,    \* the commit of the task ref; None is the base of the run
    branch,     \* the commit of the remote task branch; None: there is none
    pr,         \* the forge's pull request: state, head once merged, how many were created
    queued,     \* a merge the forge has taken and not performed
    pc,         \* where each call is
    lock,       \* who holds the run and repository locks
    snapshot,   \* the tree the holder has read
    faults, foreign

durable == <<run, recorded, policy>>
repo    == <<worktree, taskRef>>
forge   == <<branch, pr, queued>>
calls   == <<pc, lock, snapshot>>
bounds  == <<faults, foreign>>
vars    == <<durable, repo, forge, calls, bounds>>

Policies    == {"DISABLED", "CHECKS", "NO_CHECKS"}
NoCaller    == "none"
LockedSteps == {"inspect", "snapshot", "reinspect", "write", "ref", "update", "verify", "commit",
                "push", "ls-remote", "pushed", "find", "create", "created", "open", "already merged",
                "checks", "checked", "merge", "view", "merged"}
Steps       == LockedSteps \cup {"idle", "finalize", "publish", "skip"}

This(type, arg) == Command(type, 1, arg)

-----------------------------------------------------------------------------
(* Steps of a call. *)

Goto(c, l) == pc' = [pc EXCEPT ![c] = l] /\ UNCHANGED <<lock, snapshot>>

\* Mutant: releasing writes a null that is not the one acquire looks for.
LeaveNulled(c, l) ==
    /\ pc' = [pc EXCEPT ![c] = l]
    /\ lock' = (IF lock = c THEN "" ELSE lock)
    /\ snapshot' = (IF lock = c THEN None ELSE snapshot)

\* `finally` releases the locks, whether the function returns or throws.
Leave(c, l) ==
    /\ pc' = [pc EXCEPT ![c] = l]
    /\ lock' = (IF lock = c THEN NoCaller ELSE lock)
    /\ snapshot' = (IF lock = c THEN None ELSE snapshot)

End(c) == Leave(c, "idle")

\* A command id that is already journaled is answered without a transition, and
\* refused when it comes with other bytes.
Takes(e, permitted) == e \in recorded \/ (permitted /\ ~\E d \in recorded : d.type = e.type)

Append(c, e, permitted, after) ==
    /\ IF Takes(e, permitted)
       THEN /\ run' = (IF e \in recorded THEN run ELSE RunAfter(run, e))
            /\ recorded' = recorded \cup {e} /\ after
       ELSE UNCHANGED <<run, recorded>> /\ End(c)
    /\ UNCHANGED policy

AppendPublicationEvent(c, type, after) ==
    LET e == This(type, run.commit) IN Append(c, e, RunPermits(run, e), after)

-----------------------------------------------------------------------------
\* The review accepted the tree that the worktree holds.
Init ==
    /\ run = [AcceptedRun EXCEPT !.state = "REVIEW_ACCEPTED", !.attempts = 1, !.tree = 1]
    /\ recorded = {} /\ policy \in Policies
    /\ worktree = run.tree /\ taskRef = None
    /\ branch = None /\ pr = [state |-> "NONE", head |-> None, count |-> 0] /\ queued = FALSE
    /\ pc = [c \in Callers |-> "idle"] /\ lock = NoCaller /\ snapshot = None
    /\ faults = 0 /\ foreign = 0

\* The host's finalize operation: a finalized run may be finalized again or published.
Finalize(c) ==
    /\ pc[c] = "idle"
    /\ \/ Goto(c, "finalize")
       \/ run.commit # None /\ Goto(c, IF policy = "DISABLED" THEN "skip" ELSE "publish")
    /\ UNCHANGED <<durable, repo, forge, bounds>>

-----------------------------------------------------------------------------
(* finalizeRun. *)

\* acquire_run_lock and acquire_repository_lock, the host's: a lock that is held is waited
\* for; that the port throws instead is a Throw.
AcquireLocks(c) ==
    /\ pc[c] \in {"finalize", "publish"} /\ lock = NoCaller
    /\ lock' = c /\ pc' = [pc EXCEPT ![c] = IF @ = "finalize" THEN "inspect" ELSE "push"]
    /\ UNCHANGED <<durable, repo, forge, bounds, snapshot>>

\* Mutant: the diff is not inspected again after the snapshot.
ReinspectDiffOnce(c) ==
    /\ pc[c] \in {"inspect", "reinspect"}
    /\ CASE pc[c] = "reinspect"    -> Goto(c, "write")
         [] worktree # run.tree    -> End(c)
         [] OTHER                  -> Goto(c, "snapshot")
    /\ UNCHANGED <<durable, repo, forge, bounds>>

\* reinspect_diff, before and after the snapshot: still the accepted diff.
ReinspectDiff(c) ==
    /\ pc[c] \in {"inspect", "reinspect"}
    /\ IF worktree # run.tree THEN End(c)
       ELSE Goto(c, IF pc[c] = "inspect" THEN "snapshot" ELSE "write")
    /\ UNCHANGED <<durable, repo, forge, bounds>>

\* snapshot_accepted_tree reads every file and verifySnapshot hashes the changed ones: a
\* tree that differs elsewhere gets through here.
SnapshotAcceptedTree(c) ==
    /\ pc[c] = "snapshot"
    /\ \/ worktree # run.tree /\ End(c)
       \/ pc' = [pc EXCEPT ![c] = "reinspect"] /\ snapshot' = worktree /\ UNCHANGED lock
    /\ UNCHANGED <<durable, repo, forge, bounds>>

\* writeAcceptedTree and createCommit add objects that nothing refers to yet.
WriteCommit(c) ==
    /\ pc[c] = "write" /\ Goto(c, "ref")
    /\ UNCHANGED <<durable, repo, forge, bounds>>

\* Mutant: a ref that already is the commit counts as a concurrent change.
ReadTaskRefAtBase(c) ==
    /\ pc[c] = "ref"
    /\ IF taskRef = None THEN Goto(c, "update") ELSE End(c)
    /\ UNCHANGED <<durable, repo, forge, bounds>>

\* The task ref must be the base, or already the commit.
ReadTaskRef(c) ==
    /\ pc[c] = "ref"
    /\ CASE taskRef = snapshot -> Goto(c, "verify")
         [] taskRef = None     -> Goto(c, "update")
         [] OTHER              -> End(c)
    /\ UNCHANGED <<durable, repo, forge, bounds>>

\* git update-ref <ref> <new> <old> compares and swaps.
UpdateTaskRef(c) ==
    /\ pc[c] = "update"
    /\ IF taskRef = None THEN taskRef' = snapshot /\ Goto(c, "verify")
       ELSE End(c) /\ UNCHANGED taskRef
    /\ UNCHANGED <<durable, worktree, forge, bounds>>

VerifyTaskRef(c) ==
    /\ pc[c] = "verify"
    /\ IF taskRef = snapshot THEN Goto(c, "commit") ELSE End(c)
    /\ UNCHANGED <<durable, repo, forge, bounds>>

\* The event names the commit that was written; the evidence that the reducer compares is
\* that of the accepted diff, whatever was committed.
AppendCommitCreated(c) ==
    /\ pc[c] = "commit"
    /\ Append(c, This("COMMIT_CREATED", snapshot), RunPermits(run, This("COMMIT_CREATED", run.tree)),
              Leave(c, IF policy = "DISABLED" THEN "skip" ELSE "publish"))
    /\ UNCHANGED <<repo, forge, bounds>>

\* skipFinalizedRunPublicationV4, which takes no lock.
SkipPublication(c) ==
    /\ pc[c] = "skip"
    /\ AppendPublicationEvent(c, "PUBLICATION_SKIPPED", End(c))
    /\ UNCHANGED <<repo, forge, bounds>>

-----------------------------------------------------------------------------
(* publishFinalizedRunV4 with the GitHub adapter. *)

\* Mutant: the push is forced.
PushForced(c) ==
    /\ pc[c] = "push" /\ branch' = run.commit /\ Goto(c, "ls-remote")
    /\ UNCHANGED <<durable, repo, pr, queued, bounds>>

\* git push of the exact commit; without force it does not replace another one.
Push(c) ==
    /\ pc[c] = "push"
    /\ IF branch \in {None, run.commit} THEN branch' = run.commit /\ Goto(c, "ls-remote")
       ELSE End(c) /\ UNCHANGED branch
    /\ UNCHANGED <<durable, repo, pr, queued, bounds>>

LsRemote(c) ==
    /\ pc[c] = "ls-remote"
    /\ IF branch = run.commit THEN Goto(c, "pushed") ELSE End(c)
    /\ UNCHANGED <<durable, repo, forge, bounds>>

AppendBranchPushed(c) ==
    /\ pc[c] = "pushed" /\ AppendPublicationEvent(c, "BRANCH_PUSHED", Goto(c, "find"))
    /\ UNCHANGED <<repo, forge, bounds>>

Head == IF pr.state = "MERGED" THEN pr.head ELSE branch

\* findPullRequest in any state, and the view that follows a creation: the head must be the
\* accepted commit.  More than one pull request is an ambiguous answer.
ReadPullRequest(c) ==
    /\ pc[c] \in {"find", "created"}
    /\ IF pr.state = "NONE"                      THEN Goto(c, "create")
       ELSE IF Head # run.commit \/ pr.count > 1 THEN End(c)
       ELSE Goto(c, IF pr.state = "MERGED" THEN "already merged" ELSE "open")
    /\ UNCHANGED <<durable, repo, forge, bounds>>

CreatePullRequest(c) ==
    /\ pc[c] = "create" /\ Goto(c, "created")
    /\ pr' = [pr EXCEPT !.state = "OPEN", !.count = @ + 1]
    /\ UNCHANGED <<durable, repo, branch, queued, bounds>>

\* What follows depends on the pull request as it was read before the append.
AppendPullRequest(c) ==
    /\ pc[c] \in {"open", "already merged"}
    /\ AppendPublicationEvent(c, "PULL_REQUEST_RECORDED",
           Goto(c, IF pc[c] = "already merged" THEN "merged"
                   ELSE IF policy = "CHECKS"   THEN "checks" ELSE "merge"))
    /\ UNCHANGED <<repo, forge, bounds>>

\* gh pr checks --required --watch; a failing check throws.
WaitForRequiredChecks(c) ==
    /\ pc[c] = "checks" /\ Goto(c, "checked")
    /\ UNCHANGED <<durable, repo, forge, bounds>>

AppendChecksPassed(c) ==
    /\ pc[c] = "checked" /\ AppendPublicationEvent(c, "REQUIRED_CHECKS_PASSED", Goto(c, "merge"))
    /\ UNCHANGED <<repo, forge, bounds>>

\* gh pr merge --match-head-commit: the forge takes it, refuses it, or says it was merged.
MergePullRequest(c) ==
    /\ pc[c] = "merge"
    /\ \/ pr.state = "OPEN" /\ branch = run.commit /\ queued' = TRUE /\ Goto(c, "view")
       \/ pr.state = "MERGED" /\ UNCHANGED queued /\ Goto(c, "view")
       \/ ~(pr.state = "OPEN" /\ branch = run.commit) /\ UNCHANGED queued /\ End(c)
    /\ UNCHANGED <<durable, repo, branch, pr, bounds>>

\* The poll sees the merge, or the deadline passes before.
ViewPullRequest(c) ==
    /\ pc[c] = "view"
    /\ IF pr.state = "MERGED" /\ pr.head = run.commit THEN Goto(c, "merged") ELSE End(c)
    /\ UNCHANGED <<durable, repo, forge, bounds>>

AppendMerged(c) ==
    /\ pc[c] = "merged" /\ AppendPublicationEvent(c, "RUN_MERGED", End(c))
    /\ UNCHANGED <<repo, forge, bounds>>

-----------------------------------------------------------------------------
(* Faults and the outside world. *)

\* An awaited call throws; its effect may have happened.
Throw(c) ==
    /\ pc[c] # "idle" /\ faults < MaxFaults /\ faults' = faults + 1 /\ End(c)
    /\ UNCHANGED <<durable, repo, forge, foreign>>

Crash ==
    /\ faults < MaxFaults /\ faults' = faults + 1
    /\ pc' = [c \in Callers |-> "idle"] /\ lock' = NoCaller /\ snapshot' = None
    /\ UNCHANGED <<durable, repo, forge, foreign>>

\* recordAbort, on the control plane.
RecordAbort ==
    /\ ActiveRun(run) /\ run' = RunAfter(run, This("RUN_ABORTED", None))
    /\ UNCHANGED <<recorded, policy, repo, forge, calls, bounds>>

\* Others write something that is neither the accepted tree nor a commit of it.
ForeignWrite ==
    /\ foreign < MaxForeign /\ foreign' = foreign + 1
    /\ \E t \in Trees \ {run.tree} :
          \/ worktree' = t /\ UNCHANGED <<taskRef, branch>>
          \/ taskRef' = t /\ UNCHANGED <<worktree, branch>>
          \/ branch' = t /\ UNCHANGED repo
    /\ UNCHANGED <<durable, pr, queued, calls, faults>>

\* The forge performs the merge it took, if the head still is what it was asked to merge,
\* and may delete the merged branch.
MergeLands ==
    /\ queued /\ queued' = FALSE
    /\ IF branch = run.commit /\ pr.state = "OPEN"
       THEN pr' = [pr EXCEPT !.state = "MERGED", !.head = branch] /\ branch' \in {branch, None}
       ELSE UNCHANGED <<pr, branch>>
    /\ UNCHANGED <<durable, repo, calls, bounds>>

-----------------------------------------------------------------------------
FinalizeStep(c) ==
    \/ AcquireLocks(c) \/ ReinspectDiff(c) \/ SnapshotAcceptedTree(c) \/ WriteCommit(c)
    \/ ReadTaskRef(c) \/ UpdateTaskRef(c) \/ VerifyTaskRef(c) \/ AppendCommitCreated(c) \/ SkipPublication(c)

PublishStep(c) ==
    \/ Push(c) \/ LsRemote(c) \/ AppendBranchPushed(c) \/ ReadPullRequest(c) \/ CreatePullRequest(c)
    \/ AppendPullRequest(c) \/ WaitForRequiredChecks(c) \/ AppendChecksPassed(c)
    \/ MergePullRequest(c) \/ ViewPullRequest(c) \/ AppendMerged(c)

CallStep(c) == FinalizeStep(c) \/ PublishStep(c)

Next ==
    \/ \E c \in Callers : Finalize(c) \/ CallStep(c) \/ Throw(c)
    \/ Crash \/ RecordAbort \/ ForeignWrite \/ MergeLands

Spec == Init /\ [][Next]_vars

\* Awaited calls settle, the forge performs what it took, and the host calls finalize again.
FairSpec ==
    /\ Spec /\ WF_vars(MergeLands)
    /\ \A c \in Callers : WF_vars(CallStep(c)) /\ WF_vars(Finalize(c))

-----------------------------------------------------------------------------
(* Properties. *)

\* Every variable has its type.
TypeOK ==
    /\ run \in RunRecords /\ recorded \in SUBSET Commands /\ policy \in Policies
    /\ worktree \in Trees \cup {None} /\ taskRef \in Trees \cup {None} /\ branch \in Trees \cup {None}
    /\ pr \in [state : {"NONE", "OPEN", "MERGED"}, head : Trees \cup {None}, count : Nat]
    /\ queued \in BOOLEAN /\ pc \in [Callers -> Steps] /\ lock \in Callers \cup {NoCaller}
    /\ snapshot \in Trees \cup {None} /\ faults \in Nat /\ foreign \in Nat

\* Only the tree that was accepted is committed, only its commit is merged, and the journal
\* says "merged" of nothing else.
PublishedIsAccepted ==
    /\ run.commit \in {None, run.tree}
    /\ pr.state = "MERGED" => pr.head = run.tree
    /\ run.merged => pr.state = "MERGED"

\* However often publication is cut off and retried, and by however many calls at once,
\* one pull request is created.
OnePullRequest == pr.count <= 1

\* Each remote boundary is journaled before the next one is crossed: no pull request before
\* the push is recorded, no merge before the pull request is and, when the policy requires
\* checks, before they are.
BoundariesJournaled ==
    /\ pr.count > 0 => This("BRANCH_PUSHED", run.commit) \in recorded
    /\ queued \/ pr.state = "MERGED" =>
          /\ This("PULL_REQUEST_RECORDED", run.commit) \in recorded
          /\ policy = "CHECKS" => This("REQUIRED_CHECKS_PASSED", run.commit) \in recorded

\* What is published is what was accepted, once, and with every boundary journaled.
PublicationSound == PublishedIsAccepted /\ OnePullRequest /\ BoundariesJournaled

\* A task ref or remote branch that has a value is moved by nobody but its owner: no retry
\* and no race of two calls overwrites what others pushed.
RefsNeverOverwritten ==
    [][foreign' = foreign => /\ taskRef' # taskRef => taskRef = None
                             /\ branch' # branch => None \in {branch, branch'}]_vars

\* Retry-safe: whatever was cut off and wherever, calling finalize again brings the run to
\* its end, unless others have taken the worktree or a ref over.
PublicationEnds == <>[](run.state \in Ended \/ foreign > 0)
=============================================================================
