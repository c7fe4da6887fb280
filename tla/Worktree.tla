------------------------------ MODULE Worktree ------------------------------
(***************************************************************************)
(* createWorktreeManagerV4 (worktree.ts): the serialized operations of one *)
(* worktree manager on ownership records, Git registrations, directories   *)
(* and branches.  An operation is a sequence of awaited effects; it may    *)
(* throw and the process may die at any of them, executors write in the    *)
(* worktrees meanwhile, time passes, and others may delete a directory.    *)
(*                                                                         *)
(* Left out: names and self-hashes of records (a record is what its run    *)
(* wrote), and the byte quota and bounded measurement, which only add      *)
(* reasons to throw.                                                       *)
(***************************************************************************)
EXTENDS Naturals, FiniteSets

CONSTANTS
    WtRuns,         \* runs, numbered in the order of their identifiers
    MaxActive,      \* quotas.max_active_worktrees
    MaxManaged,     \* quotas.max_managed_worktrees
    MaxWtFaults,    \* bound: thrown effects and crashes
    MaxMeddled     \* bound: what others do to the directories

ASSUME RunsAssumption == WtRuns # {} /\ WtRuns \subseteq Nat /\ IsFiniteSet(WtRuns)

ASSUME WorktreeSizes ==
    MaxActive \in Nat \ {0} /\ MaxManaged \in Nat \ {0} /\ MaxWtFaults \in Nat /\ MaxMeddled \in Nat

VARIABLES
    record,      \* the ownership record of each run
    keep,        \* the runs whose disposition is KEEP_BRANCH
    expired,     \* the runs whose retention has passed
    git,         \* registration, directory, uncommitted changes and branch of each run
    wt,          \* the operation in progress
    shown,       \* the report the operation, or the operator, holds
    unseen,      \* history: the runs whose branch a failed lookup hid from the cleanup
    wtFaults, meddled

wtVars == <<record, keep, expired, git, wt, shown, unseen, wtFaults, meddled>>
files  == <<record, keep, git>>

WtSteps == {"idle", "terminal", "report", "confirm", "pick", "remove", "branch", "tombstone",
            "quota", "add", "manifest", "verify", "undoWorktree", "undoBranch", "undoRecord"}
NoTree  == [registered |-> FALSE, onDisk |-> FALSE, dirty |-> FALSE, branch |-> FALSE]
WtIdle  == [step |-> "idle", op |-> "none", run |-> CHOOSE r \in WtRuns : TRUE, todo |-> {}, forced |-> {}]

WtInit ==
    /\ record = [r \in WtRuns |-> "none"] /\ keep = {} /\ expired = {}
    /\ git = [r \in WtRuns |-> NoTree] /\ wt = WtIdle /\ shown = [r \in WtRuns |-> "ABSENT"]
    /\ unseen = {} /\ wtFaults = 0 /\ meddled = 0

-----------------------------------------------------------------------------
(* buildReport. *)

Classification(r) ==
    IF record[r] = "none" THEN (IF git[r].onDisk THEN "UNOWNED" ELSE "ABSENT")
    ELSE IF record[r] = "cleaned" THEN "OWNED_CLEANED"
    ELSE IF ~git[r].onDisk /\ ~git[r].registered /\ record[r] = "terminal"
         THEN (IF r \in expired THEN "OWNED_TERMINAL_SAFE" ELSE "OWNED_TERMINAL_RETAINED")
    ELSE IF ~git[r].onDisk \/ ~git[r].registered THEN "INDETERMINATE"
    ELSE IF record[r] = "active" THEN "OWNED_ACTIVE"
    ELSE IF r \notin expired    THEN "OWNED_TERMINAL_RETAINED"
    ELSE IF git[r].dirty         THEN "OWNED_TERMINAL_DIRTY"
    ELSE "OWNED_TERMINAL_SAFE"

Report     == [r \in WtRuns |-> Classification(r)]
Classed(c) == {r \in WtRuns : Classification(r) \in c}
Removable == {"OWNED_TERMINAL_SAFE", "OWNED_TERMINAL_DIRTY"}
Managed == {"OWNED_ACTIVE", "OWNED_TERMINAL_RETAINED", "OWNED_TERMINAL_SAFE", "OWNED_TERMINAL_DIRTY"}

-----------------------------------------------------------------------------
WtGoto(l) == wt' = [wt EXCEPT !.step = l] /\ UNCHANGED <<shown, expired, unseen, wtFaults, meddled>>
WtEnd     == wt' = WtIdle /\ UNCHANGED <<shown, expired, unseen, wtFaults, meddled>>

WtBegin(op, r, l) ==
    /\ wt.step = "idle" /\ wt' = [WtIdle EXCEPT !.step = l, !.op = op, !.run = r]
    /\ UNCHANGED <<files, expired, shown, unseen, wtFaults, meddled>>

CreateWorktree(r) == WtBegin("create", r, "report")

\* reconcile: REPORT hands out a report, APPLY comes back with the one it was handed.
ShowReport ==
    /\ wt.step = "idle" /\ shown' = Report
    /\ UNCHANGED <<files, expired, wt, unseen, wtFaults, meddled>>

ApplyShown(r) == WtBegin("reconcile", r, "confirm")

\* markTerminal of a run that has a record and no tombstone, with the disposition it has if
\* it is terminal already.
MarkTerminal(r) == record[r] \in {"active", "terminal"} /\ WtBegin("terminal", r, "terminal")

RecordTerminal(r) ==
    /\ wt.step = "terminal" /\ r = wt.run /\ WtGoto("report") /\ UNCHANGED git
    /\ record' = [record EXCEPT ![r] = "terminal"]
    /\ IF record[r] = "active" THEN keep' \in {keep, keep \cup {r}} ELSE UNCHANGED keep

BuildReport ==
    /\ wt.step = "report" /\ shown' = Report /\ wt' = [wt EXCEPT !.step = "confirm"]
    /\ UNCHANGED <<files, expired, unseen, wtFaults, meddled>>

-----------------------------------------------------------------------------
(* applyReport. *)

\* The report is built again and must be the expected one.
ConfirmReport ==
    /\ wt.step = "confirm" /\ UNCHANGED files
    /\ IF Report # shown THEN WtEnd
       ELSE /\ wt' = [wt EXCEPT !.step = "pick", !.todo = Classed(Removable),
                                !.forced = Classed({"OWNED_TERMINAL_DIRTY"})]
            /\ UNCHANGED <<shown, expired, unseen, wtFaults, meddled>>

\* create goes on with the quotas, the other operations return the report they end with.
PickRemovable ==
    /\ wt.step = "pick" /\ UNCHANGED files
    /\ IF wt.todo = {} THEN (IF wt.op = "create" THEN WtGoto("quota") ELSE WtEnd)
       ELSE WtGoto("remove")

Current == IF wt.todo = {} THEN wt.run ELSE CHOOSE r \in wt.todo : \A s \in wt.todo : r <= s

\* Mutant: nothing is left to do for a worktree that a cut-off cleanup has removed already.
RemoveWorktreeOnce ==
    /\ wt.step = "remove" /\ UNCHANGED <<record, keep>>
    /\ LET r == Current IN
       IF (git[r].registered /\ git[r].dirty /\ r \notin wt.forced) \/ (~git[r].registered /\ git[r].onDisk)
       THEN WtEnd /\ UNCHANGED git
       ELSE /\ git' = [git EXCEPT ![r] = [NoTree EXCEPT !.branch = git[r].branch]]
            /\ WtGoto(IF git[r].registered THEN "branch" ELSE "tombstone")

\* A registered worktree is removed, by force only if it was reported dirty; a directory
\* that is not registered is in the way.
RemoveWorktree ==
    /\ wt.step = "remove" /\ UNCHANGED <<record, keep>>
    /\ LET r == Current IN
       IF (git[r].registered /\ git[r].dirty /\ r \notin wt.forced) \/ (~git[r].registered /\ git[r].onDisk)
       THEN WtEnd /\ UNCHANGED git
       ELSE /\ git' = [git EXCEPT ![r] = [NoTree EXCEPT !.branch = git[r].branch]]
            /\ WtGoto("branch")

\* A branch that is not to be kept is looked for, and deleted if it is there.
DeleteBranch ==
    /\ wt.step = "branch" /\ wt' = [wt EXCEPT !.step = "tombstone"]
    /\ git' = [git EXCEPT ![Current].branch = @ /\ Current \in keep]
    /\ unseen' = unseen \ {Current}
    /\ UNCHANGED <<record, keep, expired, shown, wtFaults, meddled>>

\* branchExists takes every failure of show-ref for its answer that there is no branch.
LookupFails ==
    /\ wt.step = "branch" /\ Current \notin keep /\ wtFaults < MaxWtFaults
    /\ wt' = [wt EXCEPT !.step = "tombstone"] /\ wtFaults' = wtFaults + 1
    /\ unseen' = unseen \cup {Current}
    /\ UNCHANGED <<files, expired, shown, meddled>>

WriteTombstone ==
    /\ wt.step = "tombstone" /\ record' = [record EXCEPT ![Current] = "cleaned"]
    /\ wt' = [wt EXCEPT !.step = "pick", !.todo = @ \ {Current}]
    /\ UNCHANGED <<keep, git, shown, expired, unseen, wtFaults, meddled>>

-----------------------------------------------------------------------------
(* create, after the reconciliation. *)

\* The quotas, and that path and record of the run are free.
CheckQuotas ==
    /\ wt.step = "quota" /\ UNCHANGED files
    /\ IF \/ Classed({"INDETERMINATE"}) # {}
          \/ Cardinality(Classed({"OWNED_ACTIVE"})) >= MaxActive
          \/ Cardinality(Classed(Managed)) >= MaxManaged
          \/ git[wt.run].onDisk \/ record[wt.run] # "none"
       THEN WtEnd ELSE WtGoto("add")

\* git worktree add -b, which fails if the branch exists; this is outside the try.
AddWorktree ==
    /\ wt.step = "add" /\ UNCHANGED <<record, keep>>
    /\ IF git[wt.run].branch THEN WtEnd /\ UNCHANGED git
       ELSE /\ git' = [git EXCEPT ![wt.run] = [NoTree EXCEPT !.registered = TRUE, !.onDisk = TRUE, !.branch = TRUE]]
            /\ WtGoto("manifest")

WriteManifest ==
    /\ wt.step = "manifest" /\ record' = [record EXCEPT ![wt.run] = "active"] /\ WtGoto("verify")
    /\ UNCHANGED <<keep, git>>

VerifyCreated ==
    /\ wt.step = "verify" /\ UNCHANGED files
    /\ IF git[wt.run].onDisk /\ ~git[wt.run].dirty THEN WtEnd ELSE WtGoto("undoWorktree")

\* The catch: each of the three is attempted, and what it throws is dropped.
UndoWorktree ==
    /\ wt.step = "undoWorktree" /\ WtGoto("undoBranch") /\ UNCHANGED <<record, keep>>
    /\ git' \in {git, [git EXCEPT ![wt.run] = [NoTree EXCEPT !.branch = git[wt.run].branch]]}

UndoBranch ==
    /\ wt.step = "undoBranch" /\ WtGoto("undoRecord") /\ UNCHANGED <<record, keep>>
    /\ git' \in {git, [git EXCEPT ![wt.run].branch = git[wt.run].registered]}

UndoRecord ==
    /\ wt.step = "undoRecord" /\ WtEnd /\ UNCHANGED <<keep, git>>
    /\ record' \in {record, [record EXCEPT ![wt.run] = "none"]}

-----------------------------------------------------------------------------
(* Faults and the outside world. *)

\* An awaited effect throws, or the process dies.
WtFault ==
    /\ wt.step # "idle" /\ wtFaults < MaxWtFaults /\ wtFaults' = wtFaults + 1
    /\ \/ wt' = WtIdle
       \/ wt.step \in {"manifest", "verify"} /\ wt' = [wt EXCEPT !.step = "undoWorktree"]
    /\ UNCHANGED <<files, expired, shown, unseen, meddled>>

RetentionExpires(r) ==
    /\ record[r] = "terminal" /\ r \notin expired /\ expired' = expired \cup {r}
    /\ UNCHANGED <<files, wt, shown, unseen, wtFaults, meddled>>

\* An executor changes files, or commits them.
WorkIn(r) ==
    /\ git[r].onDisk /\ record[r] = "active" /\ git' = [git EXCEPT ![r].dirty = ~@]
    /\ UNCHANGED <<record, keep, expired, wt, shown, unseen, wtFaults, meddled>>

\* Somebody else deletes the directory, or writes in it after the run ended.
Meddle(r) ==
    /\ git[r].onDisk /\ meddled < MaxMeddled /\ meddled' = meddled + 1
    /\ git' \in {[git EXCEPT ![r].onDisk = FALSE], [git EXCEPT ![r].dirty = ~@]}
    /\ UNCHANGED <<record, keep, expired, wt, shown, unseen, wtFaults>>

-----------------------------------------------------------------------------
WtStep ==
    \/ (\E r \in WtRuns : RecordTerminal(r)) \/ BuildReport \/ ConfirmReport \/ PickRemovable
    \/ RemoveWorktree \/ DeleteBranch \/ WriteTombstone \/ CheckQuotas \/ AddWorktree
    \/ WriteManifest \/ VerifyCreated \/ UndoWorktree \/ UndoBranch \/ UndoRecord

WtNext ==
    \/ WtStep \/ LookupFails \/ WtFault \/ ShowReport
    \/ \E r \in WtRuns : \/ CreateWorktree(r) \/ ApplyShown(r) \/ MarkTerminal(r)
                         \/ RetentionExpires(r) \/ WorkIn(r) \/ Meddle(r)

WtSpec == WtInit /\ [][WtNext]_wtVars

\* The effects of an operation settle; whether a caller comes back is nobody's promise.
WtFair == WF_wtVars(WtStep)

\* Records, git and the operation in progress have their types.
WtTypeOK ==
    /\ record \in [WtRuns -> {"none", "active", "terminal", "cleaned"}]
    /\ keep \in SUBSET WtRuns /\ expired \in SUBSET WtRuns
    /\ git \in [WtRuns -> [registered : BOOLEAN, onDisk : BOOLEAN, dirty : BOOLEAN, branch : BOOLEAN]]
    /\ wt \in [step : WtSteps, op : {"none", "create", "reconcile", "terminal"}, run : WtRuns,
               todo : SUBSET WtRuns, forced : SUBSET WtRuns]
    /\ DOMAIN shown = WtRuns /\ unseen \in SUBSET WtRuns /\ wtFaults \in 0..MaxWtFaults /\ meddled \in 0..MaxMeddled

\* After any sequence of crashes and cut-off cleanups a tombstone (applyReport) is of a
\* worktree whose registration and directory are gone.  Its branch is gone too, unless it
\* was to be kept or the lookup of branchExists failed: then it stays for good, since
\* nobody looks behind a tombstone.
TombstoneIsTrue ==
    \A r \in WtRuns : record[r] = "cleaned" =>
        ~git[r].registered /\ ~git[r].onDisk /\ (git[r].branch => r \in keep \cup unseen)

\* Quotas hold in every state, not only when create checks them.
QuotaKept ==
    /\ Cardinality({r \in WtRuns : record[r] = "active"}) <= MaxActive
    /\ Cardinality({r \in WtRuns : record[r] \in {"active", "terminal"}}) <= MaxManaged

\* Tombstones are of what is gone (applyReport), and create keeps the quotas.
WorktreesSound == TombstoneIsTrue /\ QuotaKept

\* The manager takes away a directory or a branch only of a run that is terminal and past
\* its retention, a branch only if it is not to be kept, and otherwise only what the
\* creation in progress made itself.
OnlyExpiredRemoved ==
    [][\A r \in WtRuns :
         LET mine == wt.op = "create" /\ wt.run = r
             ended == record[r] = "terminal" /\ r \in expired IN
         /\ git[r].registered /\ ~git'[r].registered => mine \/ ended
         /\ git[r].branch /\ ~git'[r].branch => mine \/ (ended /\ r \notin keep)]_wtVars

\* Every create and markTerminal begins with, or ends in, a cleanup.
CleanupsKeepBeginning == []<><<\E r \in WtRuns : CreateWorktree(r) \/ MarkTerminal(r)>>_wtVars

\* Whatever fails on the way, a terminal run past its retention is cleaned up (applyReport)
\* as long as cleanups keep being begun, which is up to the callers.
ExpiredIsCleaned == CleanupsKeepBeginning =>
    \A r \in WtRuns : record[r] = "terminal" /\ r \in expired ~> record[r] = "cleaned" \/ meddled > 0
=============================================================================
