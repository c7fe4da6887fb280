-------------------------- MODULE PublicationProofs --------------------------
(***************************************************************************)
(* What Publication promises for every number of calls, faults and foreign *)
(* writes: only the accepted tree is committed and merged, one pull        *)
(* request is created, and each remote boundary is journaled before the    *)
(* next one is crossed.                                                    *)
(*                                                                         *)
(* None of it is inductive as it stands: it rests on what each call knows  *)
(* at the step it has reached (StepOK), which other calls cannot undo      *)
(* because the steps that matter are taken under the lock (LockHeld), and  *)
(* because the journal, the commit and the pull request only ever grow     *)
(* (Stable).                                                               *)
(***************************************************************************)
EXTENDS Publication, TLAPS

\* Where a call is in finalizeRun and in publishFinalizedRunV4.
Committing == {"write", "ref", "update", "verify", "commit"}
AfterPush  == {"find", "create", "created", "open", "already merged"}
AfterOpen  == {"checks", "checked", "merge", "view", "merged"}
Publishing == {"publish", "skip", "push", "ls-remote", "pushed"} \cup AfterPush \cup AfterOpen

\* What holds when a call is at step l: after the second inspection the snapshot is the
\* accepted tree (before it, it is that or the worktree has moved for good), a call is past
\* a boundary only when the boundary is journaled, and what it read of the pull request
\* still is so.
StepOK(l) ==
    /\ l = "reinspect" => snapshot = run.tree \/ worktree # run.tree
    /\ l \in Committing => snapshot = run.tree
    /\ l \in Publishing => run.commit = run.tree
    /\ l \in AfterPush \cup AfterOpen => This("BRANCH_PUSHED", run.tree) \in recorded
    /\ l \in AfterOpen => This("PULL_REQUEST_RECORDED", run.tree) \in recorded
    /\ l \in {"merge", "view"} /\ policy = "CHECKS" => This("REQUIRED_CHECKS_PASSED", run.tree) \in recorded
    /\ l = "create" => pr.state = "NONE"
    /\ l \in {"created", "open"} \cup AfterOpen => pr.state # "NONE"
    /\ l \in {"already merged", "merged"} => pr.state = "MERGED"

CallsOK == \A c \in Callers : StepOK(pc[c])

\* The lock is held by the call that is where it is needed, and by no other.
LockHeld == \A c \in Callers : pc[c] \in LockedSteps <=> lock = c

\* Everything journaled is of the accepted tree.
JournalAccepted ==
    /\ run.tree \in Trees /\ run.commit \in {None, run.tree}
    /\ \A e \in recorded : e.arg = run.tree
    /\ recorded # {} => run.commit = run.tree

\* The forge holds what was journaled.
ForgeAccepted ==
    /\ pr.count = (IF pr.state = "NONE" THEN 0 ELSE 1)
    /\ pr.state # "NONE" => This("BRANCH_PUSHED", run.tree) \in recorded
    /\ queued \/ pr.state = "MERGED" =>
          /\ This("PULL_REQUEST_RECORDED", run.tree) \in recorded
          /\ policy = "CHECKS" => This("REQUIRED_CHECKS_PASSED", run.tree) \in recorded
    /\ pr.state = "MERGED" => pr.head = run.tree
    /\ run.merged => pr.state = "MERGED"

Ind == TypeOK /\ LockHeld /\ CallsOK /\ JournalAccepted /\ ForgeAccepted

-----------------------------------------------------------------------------
\* Tree and run numbers start at 1; None is not a tree.
LEMMA Sizes == 1 \in Runs /\ 1 \in Trees /\ None \notin Trees /\ Trees \subseteq Nat
BY BrokerSizes DEF Runs, Trees, None

\* What the reducer does to a run that is being published.
LEMMA PublicationAfter ==
    ASSUME NEW r \in RunRecords, NEW type \in PublicationTypes, NEW arg
    PROVE  /\ RunAfter(r, This(type, arg)) \in RunRecords
           /\ RunAfter(r, This(type, arg)).tree = r.tree
           /\ RunAfter(r, This(type, arg)).commit = r.commit
           /\ RunAfter(r, This(type, arg)).merged => r.merged \/ type = "RUN_MERGED"
<1> USE DEF RunAfter, This, Command, RunRecords, States, Ended
<1>1. CASE type = "BRANCH_PUSHED"
    BY <1>1
<1>2. CASE type = "PULL_REQUEST_RECORDED"
    BY <1>2
<1>3. CASE type = "REQUIRED_CHECKS_PASSED"
    BY <1>3
<1>4. CASE type = "RUN_MERGED"
    BY <1>4
<1>5. CASE type = "PUBLICATION_SKIPPED"
    BY <1>5
<1> QED
    BY <1>1, <1>2, <1>3, <1>4, <1>5 DEF PublicationTypes

\* COMMIT_CREATED sets the commit and leaves the accepted tree.
LEMMA CommitAfter ==
    ASSUME NEW r \in RunRecords, NEW t \in Trees
    PROVE  /\ RunAfter(r, This("COMMIT_CREATED", t)) \in RunRecords
           /\ RunAfter(r, This("COMMIT_CREATED", t)).tree = r.tree
           /\ RunAfter(r, This("COMMIT_CREATED", t)).commit = t
           /\ RunAfter(r, This("COMMIT_CREATED", t)).merged = r.merged
BY DEF RunAfter, This, Command, RunRecords, States, Ended

\* RUN_ABORTED leaves tree, commit and merge evidence.
LEMMA AbortAfter ==
    ASSUME NEW r \in RunRecords
    PROVE  /\ RunAfter(r, This("RUN_ABORTED", None)) \in RunRecords
           /\ RunAfter(r, This("RUN_ABORTED", None)).tree = r.tree
           /\ RunAfter(r, This("RUN_ABORTED", None)).commit = r.commit
           /\ RunAfter(r, This("RUN_ABORTED", None)).merged = r.merged
BY DEF RunAfter, This, Command, RunRecords, States, Ended, None

\* The invariant holds when the review has accepted the run.
LEMMA InitInd == Init => Ind
<1> SUFFICES ASSUME Init PROVE Ind
    OBVIOUS
<1> USE Sizes, NoCallerIsNone DEF Init
<1>1. run \in RunRecords /\ run.tree = 1 /\ run.commit = None /\ run.merged = FALSE
    BY DEF AcceptedRun, NoRunYet, RunRecords, States, Ended, None
<1>2. TypeOK
    BY <1>1 DEF TypeOK, Policies, Steps, NoCaller
<1>3. LockHeld
    BY DEF LockHeld, LockedSteps, NoCaller
<1>4. CallsOK
    BY DEF CallsOK, StepOK, Committing, Publishing, AfterPush, AfterOpen
<1>5. JournalAccepted
    BY <1>1 DEF JournalAccepted
<1>6. ForgeAccepted
    BY <1>1 DEF ForgeAccepted
<1> QED
    BY <1>2, <1>3, <1>4, <1>5, <1>6 DEF Ind

-----------------------------------------------------------------------------
(* How calls disturb each other. *)

\* What grows and never shrinks: the commit, the journal, the pull request.
Grows ==
    /\ run'.tree = run.tree /\ policy' = policy
    /\ run.commit = run.tree => run'.commit = run.tree
    /\ recorded \subseteq recorded'
    /\ worktree' = worktree \/ worktree' # run.tree

\* What a call knows survives such a step, if it leaves the snapshot alone and creates no
\* pull request.
LEMMA Stable ==
    ASSUME Grows, snapshot' = snapshot, pr.state = "NONE" <=> pr'.state = "NONE",
           pr.state = "MERGED" => pr'.state = "MERGED", NEW l, StepOK(l)
    PROVE  StepOK(l)'
BY DEF Grows, StepOK

\* A call that does not hold the lock only relies on the commit.
LEMMA StableUnlocked ==
    ASSUME Grows, NEW l \in Steps \ LockedSteps, StepOK(l)
    PROVE  StepOK(l)'
BY DEF Grows, StepOK, Steps, LockedSteps, Committing, Publishing, AfterPush, AfterOpen

\* The holder of the lock goes on, with or without it: nobody else is disturbed.
LEMMA HolderMoves ==
    ASSUME TypeOK, LockHeld, CallsOK, Grows, NEW c \in Callers, NEW l \in Steps, lock = c,
           pc' = [pc EXCEPT ![c] = l], lock' \in {c, NoCaller}, l \in LockedSteps <=> lock' = c, StepOK(l)'
    PROVE  LockHeld' /\ CallsOK'
<1>1. ASSUME NEW d \in Callers, d # c PROVE pc'[d] = pc[d] /\ pc[d] \in Steps \ LockedSteps
    BY <1>1 DEF TypeOK, LockHeld
<1>2. pc'[c] = l
    BY DEF TypeOK
<1>3. LockHeld'
    BY <1>1, <1>2, NoCallerIsNone DEF LockHeld, NoCaller
<1>4. CallsOK'
  <2> SUFFICES ASSUME NEW d \in Callers PROVE StepOK(pc[d])'
      BY DEF CallsOK
  <2>1. CASE d = c
      BY <2>1, <1>2 DEF StepOK
  <2>2. CASE d # c
    <3>1. StepOK(pc[d]) /\ pc[d] \in Steps \ LockedSteps /\ pc'[d] = pc[d]
        BY <2>2, <1>1 DEF CallsOK
    <3>2. ASSUME NEW m, m = pc[d] PROVE StepOK(m)'
        BY <3>1, <3>2, StableUnlocked
    <3> QED
        BY <3>1, <3>2 DEF StepOK
  <2> QED
      BY <2>1, <2>2
<1> QED
    BY <1>3, <1>4

\* A call without the lock goes on without it.
LEMMA OutsiderMoves ==
    ASSUME TypeOK, LockHeld, CallsOK, Grows, NEW c \in Callers, NEW l \in Steps \ LockedSteps,
           lock # c, lock' = lock, pc' = [pc EXCEPT ![c] = l], snapshot' = snapshot, pr' = pr, StepOK(l)'
    PROVE  LockHeld' /\ CallsOK'
<1>1. ASSUME NEW d \in Callers, d # c PROVE pc'[d] = pc[d]
    BY <1>1 DEF TypeOK
<1>2. pc'[c] = l
    BY DEF TypeOK
<1>3. LockHeld'
    BY <1>1, <1>2 DEF LockHeld
<1>4. CallsOK'
  <2> SUFFICES ASSUME NEW d \in Callers PROVE StepOK(pc[d])'
      BY DEF CallsOK
  <2>1. CASE d = c
      BY <2>1, <1>2 DEF StepOK
  <2>2. CASE d # c
    <3>1. StepOK(pc[d]) /\ pc'[d] = pc[d]
        BY <2>2, <1>1 DEF CallsOK
    <3>2. ASSUME NEW m, m = pc[d] PROVE StepOK(m)'
        BY <3>1, <3>2, Stable
    <3> QED
        BY <3>1, <3>2 DEF StepOK
  <2> QED
      BY <2>1, <2>2
<1> QED
    BY <1>3, <1>4

\* A step of the outside world.
LEMMA WorldMoves ==
    ASSUME CallsOK, LockHeld, Grows, UNCHANGED calls, pr.state = "NONE" <=> pr'.state = "NONE",
           pr.state = "MERGED" => pr'.state = "MERGED"
    PROVE  LockHeld' /\ CallsOK'
<1>1. LockHeld'
    BY DEF LockHeld, calls
<1>2. CallsOK'
  <2> SUFFICES ASSUME NEW d \in Callers PROVE StepOK(pc[d])'
      BY DEF CallsOK
  <2>1. StepOK(pc[d]) /\ pc'[d] = pc[d] /\ snapshot' = snapshot
      BY DEF CallsOK, calls
  <2>2. ASSUME NEW m, m = pc[d] PROVE StepOK(m)'
      BY <2>1, <2>2, Stable
  <2> QED
      BY <2>1, <2>2 DEF StepOK
<1> QED
    BY <1>1, <1>2

\* The holder takes a step that touches neither the journal nor the pull request.
LEMMA GotoInd ==
    ASSUME Ind, NEW c \in Callers, pc[c] \in LockedSteps, NEW l \in LockedSteps, Goto(c, l),
           UNCHANGED <<run, recorded, policy, worktree, pr, queued>>, StepOK(l), TypeOK'
    PROVE  Ind'
<1>1. lock = c /\ l \in Steps /\ Grows
    BY DEF Ind, LockHeld, Steps, Grows
<1>2. StepOK(l)'
    BY <1>1, Stable DEF Goto
<1>3. LockHeld' /\ CallsOK'
    BY <1>1, <1>2, HolderMoves DEF Ind, Goto
<1>4. JournalAccepted' /\ ForgeAccepted'
    BY DEF Ind, JournalAccepted, ForgeAccepted
<1> QED
    BY <1>3, <1>4 DEF Ind

\* A call ends, or goes on without the locks, and touches nothing else.
LEMMA LeaveInd ==
    ASSUME Ind, NEW c \in Callers, NEW l \in Steps \ LockedSteps, Leave(c, l),
           UNCHANGED <<run, recorded, policy, worktree, pr, queued>>, StepOK(l), TypeOK'
    PROVE  Ind'
<1>1. l \in Steps /\ Grows
    BY DEF Grows
<1>2. StepOK(l)'
    BY <1>1, StableUnlocked
<1>3. LockHeld' /\ CallsOK'
  <2>1. CASE lock = c
      BY <2>1, <1>1, <1>2, HolderMoves, NoCallerIsNone DEF Ind, Leave, NoCaller
  <2>2. CASE lock # c
      BY <2>2, <1>1, <1>2, OutsiderMoves DEF Ind, Leave
  <2> QED
      BY <2>1, <2>2
<1>4. JournalAccepted' /\ ForgeAccepted'
    BY DEF Ind, JournalAccepted, ForgeAccepted
<1> QED
    BY <1>3, <1>4 DEF Ind

\* A call that has ended relies on nothing.
LEMMA IdleOK == StepOK("idle") /\ "idle" \in Steps \ LockedSteps
BY DEF StepOK, Steps, LockedSteps, Committing, Publishing, AfterPush, AfterOpen

\* A publication event of the accepted commit is journaled, or was.
LEMMA Journaled ==
    ASSUME Ind, NEW type \in PublicationTypes, run.commit = run.tree,
           run' = (IF This(type, run.commit) \in recorded THEN run ELSE RunAfter(run, This(type, run.commit))),
           recorded' = recorded \cup {This(type, run.commit)}, UNCHANGED <<policy, worktree, pr, queued>>,
           type = "RUN_MERGED" => pr.state = "MERGED"
    PROVE  /\ run' \in RunRecords /\ recorded' \in SUBSET Commands /\ Grows
           /\ This(type, run.tree) \in recorded' /\ JournalAccepted' /\ ForgeAccepted'
<1>1. /\ run' \in RunRecords /\ run'.tree = run.tree /\ run'.commit = run.tree
      /\ run'.merged => run.merged \/ type = "RUN_MERGED"
  <2>1. run \in RunRecords
      BY DEF Ind, TypeOK
  <2>2. CASE This(type, run.commit) \in recorded
      BY <2>1, <2>2
  <2>3. CASE This(type, run.commit) \notin recorded
      BY <2>1, <2>3, PublicationAfter
  <2> QED
      BY <2>2, <2>3
<1>2. This(type, run.tree) \in Commands /\ This(type, run.tree).arg = run.tree
    BY Sizes DEF This, Command, Commands, CommandTypes, PublicationTypes, Ind, JournalAccepted
<1>3. recorded' \in SUBSET Commands /\ Grows
    BY <1>1, <1>2 DEF Ind, TypeOK, Grows
<1>4. JournalAccepted'
    BY <1>1, <1>2 DEF Ind, JournalAccepted
<1>5. ForgeAccepted'
    BY <1>1 DEF Ind, ForgeAccepted
<1> QED
    BY <1>1, <1>2, <1>3, <1>4, <1>5

-----------------------------------------------------------------------------
(* One lemma per part of the next-state relation. *)

\* A call of finalizeRun.
LEMMA FinalizeStepInd ==
    ASSUME Ind, NEW c \in Callers, FinalizeStep(c)
    PROVE  Ind'
<1> USE DEF Ind, durable, repo, forge, calls, bounds
<1> USE DEF LockedSteps, Steps, Committing, Publishing, AfterPush, AfterOpen
<1>0. StepOK(pc[c]) /\ pc[c] \in Steps /\ run.tree \in Trees /\ run.tree # None
    BY Sizes DEF CallsOK, TypeOK, JournalAccepted
<1>1. CASE AcquireLocks(c)
  <2>0. PICK l : l = IF pc[c] = "finalize" THEN "inspect" ELSE "push"
      OBVIOUS
  <2>1. lock = NoCaller /\ lock' = c /\ pc' = [pc EXCEPT ![c] = l] /\ UNCHANGED <<run, recorded, policy, worktree, pr, queued, snapshot>>
      BY <1>1, <2>0 DEF AcquireLocks
  <2>2. StepOK(l)' /\ l \in LockedSteps /\ pc[c] \notin LockedSteps
      BY <1>0, <1>1, <2>0, <2>1 DEF AcquireLocks, StepOK
  <2>3. TypeOK'
      BY <1>1 DEF AcquireLocks, TypeOK
  <2>4. \A d \in Callers \ {c} : pc'[d] = pc[d] /\ pc[d] \notin LockedSteps
      BY <2>1, NoCallerIsNone DEF LockHeld, NoCaller, TypeOK
  <2>5. pc'[c] = l
      BY <2>1 DEF TypeOK
  <2>6. LockHeld'
      BY <2>1, <2>2, <2>4, <2>5 DEF LockHeld
  <2>7. CallsOK'
    <3> SUFFICES ASSUME NEW d \in Callers PROVE StepOK(pc[d])'
        BY DEF CallsOK
    <3>1. CASE d = c
        BY <3>1, <2>2, <2>5 DEF StepOK
    <3>2. CASE d # c
        BY <3>2, <2>1, <2>4 DEF CallsOK, StepOK
    <3> QED
        BY <3>1, <3>2
  <2>8. JournalAccepted' /\ ForgeAccepted'
      BY <2>1 DEF JournalAccepted, ForgeAccepted
  <2> QED
      BY <2>3, <2>6, <2>7, <2>8
<1>2. CASE ReinspectDiff(c)
  <2>1. TypeOK' /\ pc[c] \in LockedSteps /\ UNCHANGED <<run, recorded, policy, worktree, pr, queued>>
      BY <1>2 DEF ReinspectDiff, Goto, End, Leave, NoCaller, TypeOK
  <2>2. (Goto(c, "snapshot") /\ StepOK("snapshot")) \/ (Goto(c, "write") /\ StepOK("write")) \/ End(c)
      BY <1>0, <1>2 DEF ReinspectDiff, StepOK
  <2> QED
      BY <2>1, <2>2, GotoInd, LeaveInd, IdleOK DEF End
<1>3. CASE SnapshotAcceptedTree(c)
  <2>1. TypeOK' /\ pc[c] \in LockedSteps /\ UNCHANGED <<run, recorded, policy, worktree, pr, queued>>
      BY <1>3 DEF SnapshotAcceptedTree, End, Leave, NoCaller, TypeOK
  <2>2. CASE End(c)
      BY <2>1, <2>2, LeaveInd, IdleOK DEF End
  <2>3. CASE pc' = [pc EXCEPT ![c] = "reinspect"] /\ snapshot' = worktree /\ UNCHANGED lock
    <3>1. lock = c /\ Grows /\ StepOK("reinspect")'
        BY <2>1, <2>3 DEF LockHeld, Grows, StepOK
    <3>2. LockHeld' /\ CallsOK'
        BY <2>3, <3>1, HolderMoves
    <3>3. JournalAccepted' /\ ForgeAccepted'
        BY <2>1 DEF JournalAccepted, ForgeAccepted
    <3> QED
        BY <2>1, <3>2, <3>3
  <2> QED
      BY <1>3, <2>2, <2>3 DEF SnapshotAcceptedTree
<1>3a. CASE WriteCommit(c)
  <2>1. TypeOK' /\ pc[c] \in LockedSteps /\ UNCHANGED <<run, recorded, policy, worktree, pr, queued>>
      BY <1>3a DEF WriteCommit, Goto, End, Leave, NoCaller, TypeOK
  <2>2. (Goto(c, "ref") /\ StepOK("ref"))
      BY <1>0, <1>3a DEF WriteCommit, StepOK
  <2> QED
      BY <2>1, <2>2, GotoInd
<1>4. CASE ReadTaskRef(c)
  <2>1. TypeOK' /\ pc[c] \in LockedSteps /\ UNCHANGED <<run, recorded, policy, worktree, pr, queued>>
      BY <1>4 DEF ReadTaskRef, Goto, End, Leave, NoCaller, TypeOK
  <2>2. (Goto(c, "verify") /\ StepOK("verify")) \/ (Goto(c, "update") /\ StepOK("update")) \/ End(c)
      BY <1>0, <1>4 DEF ReadTaskRef, StepOK
  <2> QED
      BY <2>1, <2>2, GotoInd, LeaveInd, IdleOK DEF End
<1>5. CASE UpdateTaskRef(c)
  <2>1. TypeOK' /\ pc[c] \in LockedSteps /\ UNCHANGED <<run, recorded, policy, worktree, pr, queued>>
      BY <1>0, <1>5 DEF UpdateTaskRef, Goto, End, Leave, NoCaller, TypeOK
  <2>2. (Goto(c, "verify") /\ StepOK("verify")) \/ End(c)
      BY <1>0, <1>5 DEF UpdateTaskRef, StepOK
  <2> QED
      BY <2>1, <2>2, GotoInd, LeaveInd, IdleOK DEF End
<1>6. CASE VerifyTaskRef(c)
  <2>1. TypeOK' /\ pc[c] \in LockedSteps /\ UNCHANGED <<run, recorded, policy, worktree, pr, queued>>
      BY <1>6 DEF VerifyTaskRef, Goto, End, Leave, NoCaller, TypeOK
  <2>2. (Goto(c, "commit") /\ StepOK("commit")) \/ End(c)
      BY <1>0, <1>6 DEF VerifyTaskRef, StepOK
  <2> QED
      BY <2>1, <2>2, GotoInd, LeaveInd, IdleOK DEF End
<1>7. CASE AppendCommitCreated(c)
  <2> DEFINE e == This("COMMIT_CREATED", snapshot)
             l == IF policy = "DISABLED" THEN "skip" ELSE "publish"
  <2>1. /\ pc[c] = "commit" /\ lock = c /\ snapshot = run.tree
        /\ UNCHANGED <<policy, worktree, taskRef, branch, pr, queued, faults, foreign>>
      BY <1>0, <1>7 DEF AppendCommitCreated, Append, StepOK, LockHeld
  <2>2. CASE UNCHANGED <<run, recorded>> /\ End(c)
    <3>1. TypeOK'
        BY <2>1, <2>2 DEF End, Leave, NoCaller, TypeOK
    <3> QED
        BY <2>1, <2>2, <3>1, LeaveInd, IdleOK DEF End
  <2>3. CASE /\ run' = (IF e \in recorded THEN run ELSE RunAfter(run, e))
             /\ recorded' = recorded \cup {e} /\ Leave(c, l)
    <3>1. e \in Commands /\ e.arg = run.tree
        BY <1>0, <2>1, Sizes DEF This, Command, Commands, CommandTypes
    <3>2. run' \in RunRecords /\ run'.tree = run.tree /\ run'.commit = run.tree /\ run'.merged = run.merged
      <4>1. CASE e \in recorded
          BY <4>1, <2>3 DEF TypeOK, JournalAccepted
      <4>2. CASE e \notin recorded
          BY <4>2, <1>0, <2>1, <2>3, CommitAfter DEF TypeOK
      <4> QED
          BY <4>1, <4>2
    <3>3. Grows /\ recorded' \in SUBSET Commands
        BY <2>1, <2>3, <3>1, <3>2 DEF Grows, TypeOK
    <3>4. pc' = [pc EXCEPT ![c] = l] /\ lock' = NoCaller /\ snapshot' = None
        BY <2>1, <2>3 DEF Leave
    <3>5. TypeOK'
        BY <2>1, <3>2, <3>3, <3>4 DEF TypeOK
    <3>6. StepOK(l)' /\ l \in Steps \ LockedSteps
        BY <3>2 DEF StepOK
    <3>7. LockHeld' /\ CallsOK'
        BY <2>1, <3>3, <3>4, <3>6, HolderMoves, NoCallerIsNone DEF NoCaller
    <3>8. JournalAccepted'
        BY <1>0, <2>3, <3>1, <3>2 DEF JournalAccepted
    <3>9. ForgeAccepted'
        BY <2>1, <2>3, <3>2 DEF ForgeAccepted
    <3> QED
        BY <3>5, <3>7, <3>8, <3>9
  <2> QED
      BY <1>7, <2>2, <2>3 DEF AppendCommitCreated, Append
<1>8. CASE SkipPublication(c)
  <2>1. /\ pc[c] = "skip" /\ lock # c /\ run.commit = run.tree /\ "PUBLICATION_SKIPPED" \in PublicationTypes
        /\ UNCHANGED <<policy, worktree, taskRef, branch, pr, queued, faults, foreign>> /\ Leave(c, "idle")
      BY <1>0, <1>8 DEF SkipPublication, AppendPublicationEvent, Append, StepOK, LockHeld, End, PublicationTypes
  <2>2. CASE UNCHANGED <<run, recorded>>
    <3>1. TypeOK'
        BY <2>1, <2>2 DEF Leave, NoCaller, TypeOK
    <3> QED
        BY <2>1, <2>2, <3>1, LeaveInd, IdleOK
  <2>3. CASE ~UNCHANGED <<run, recorded>>
    <3>1. /\ run' \in RunRecords /\ recorded' \in SUBSET Commands /\ Grows /\ JournalAccepted' /\ ForgeAccepted'
        BY <1>8, <2>1, <2>3, Journaled DEF SkipPublication, AppendPublicationEvent, Append
    <3>2. pc' = [pc EXCEPT ![c] = "idle"] /\ lock' = lock /\ snapshot' = snapshot
        BY <2>1 DEF Leave
    <3>3. TypeOK'
        BY <2>1, <3>1, <3>2 DEF TypeOK
    <3>4. StepOK("idle")'
        BY DEF StepOK
    <3>5. LockHeld' /\ CallsOK'
        BY <2>1, <3>1, <3>2, <3>4, IdleOK, OutsiderMoves
    <3> QED
        BY <3>1, <3>3, <3>5
  <2> QED
      BY <2>2, <2>3
<1> QED
    BY <1>1, <1>2, <1>3, <1>4, <1>5, <1>6, <1>3a, <1>7, <1>8 DEF FinalizeStep

\* A call of publishFinalizedRunV4.
LEMMA PublishStepInd ==
    ASSUME Ind, NEW c \in Callers, PublishStep(c)
    PROVE  Ind'
<1> USE DEF Ind, durable, repo, forge, calls, bounds
<1> USE DEF LockedSteps, Steps, Committing, Publishing, AfterPush, AfterOpen
<1>0. StepOK(pc[c]) /\ pc[c] \in Steps /\ run.tree \in Trees /\ run.tree # None
    BY Sizes DEF CallsOK, TypeOK, JournalAccepted
\* The holder journals an event and goes on, or is refused and ends.
<1>j. ASSUME NEW type \in PublicationTypes, NEW l \in {"find", "merged", "checks", "merge"},
             pc[c] \in LockedSteps \cap Publishing, AppendPublicationEvent(c, type, Goto(c, l)),
             UNCHANGED <<repo, forge, bounds>>, type # "RUN_MERGED",
             This(type, run.tree) \in recorded' => StepOK(l)' \/ ~Grows
      PROVE  Ind'
  <2>1. lock = c /\ run.commit = run.tree /\ UNCHANGED <<policy, worktree, taskRef, branch, pr, queued, faults, foreign>>
      BY <1>0, <1>j DEF LockHeld, StepOK, AppendPublicationEvent, Append
  <2>2. CASE UNCHANGED <<run, recorded>> /\ End(c)
    <3>1. TypeOK'
        BY <2>1, <2>2 DEF End, Leave, NoCaller, TypeOK
    <3> QED
        BY <2>1, <2>2, <3>1, LeaveInd, IdleOK DEF End
  <2>3. CASE ~(UNCHANGED <<run, recorded>> /\ End(c))
    <3>1. /\ run' \in RunRecords /\ recorded' \in SUBSET Commands /\ Grows
          /\ This(type, run.tree) \in recorded' /\ JournalAccepted' /\ ForgeAccepted'
        BY <1>j, <2>1, <2>3, Journaled DEF AppendPublicationEvent, Append
    <3>2. pc' = [pc EXCEPT ![c] = l] /\ lock' = lock /\ snapshot' = snapshot
        BY <1>j, <2>3 DEF AppendPublicationEvent, Append, Goto
    <3>3. TypeOK'
        BY <2>1, <3>1, <3>2 DEF TypeOK
    <3>4. StepOK(l)'
        BY <1>j, <3>1
    <3>5. LockHeld' /\ CallsOK'
        BY <2>1, <3>1, <3>2, <3>4, HolderMoves
    <3> QED
        BY <3>1, <3>3, <3>5
  <2> QED
      BY <2>2, <2>3
<1>1. CASE Push(c)
  <2>1. TypeOK' /\ pc[c] \in LockedSteps /\ UNCHANGED <<run, recorded, policy, worktree, pr, queued>>
      BY <1>0, <1>1 DEF Push, StepOK, Goto, End, Leave, NoCaller, TypeOK
  <2>2. (Goto(c, "ls-remote") /\ StepOK("ls-remote")) \/ End(c)
      BY <1>0, <1>1 DEF Push, StepOK
  <2> QED
      BY <2>1, <2>2, GotoInd, LeaveInd, IdleOK DEF End
<1>2. CASE LsRemote(c)
  <2>1. TypeOK' /\ pc[c] \in LockedSteps /\ UNCHANGED <<run, recorded, policy, worktree, pr, queued>>
      BY <1>2 DEF LsRemote, Goto, End, Leave, NoCaller, TypeOK
  <2>2. (Goto(c, "pushed") /\ StepOK("pushed")) \/ End(c)
      BY <1>0, <1>2 DEF LsRemote, StepOK
  <2> QED
      BY <2>1, <2>2, GotoInd, LeaveInd, IdleOK DEF End
<1>3. CASE AppendBranchPushed(c)
  <2>1. /\ pc[c] = "pushed" /\ AppendPublicationEvent(c, "BRANCH_PUSHED", Goto(c, "find"))
        /\ UNCHANGED <<repo, forge, bounds>> /\ run.commit = run.tree
      BY <1>0, <1>3 DEF AppendBranchPushed, StepOK
  <2>2. Grows /\ This("BRANCH_PUSHED", run.tree) \in recorded' => StepOK("find")'
      BY <2>1 DEF StepOK, Grows
  <2> QED
      BY <1>j, <2>1, <2>2 DEF PublicationTypes
<1>4. CASE ReadPullRequest(c)
  <2>1. TypeOK' /\ pc[c] \in LockedSteps /\ UNCHANGED <<run, recorded, policy, worktree, pr, queued>>
      BY <1>4 DEF ReadPullRequest, Goto, End, Leave, NoCaller, TypeOK, Head
  <2>2. (Goto(c, "create") /\ StepOK("create")) \/ (Goto(c, "already merged") /\ StepOK("already merged")) \/ (Goto(c, "open") /\ StepOK("open")) \/ End(c)
      BY <1>0, <1>4 DEF ReadPullRequest, StepOK, Head
  <2> QED
      BY <2>1, <2>2, GotoInd, LeaveInd, IdleOK DEF End
<1>5. CASE CreatePullRequest(c)
  <2>1. /\ pc[c] = "create" /\ lock = c /\ pr.state = "NONE" /\ pr.count = 0
        /\ UNCHANGED <<run, recorded, policy, worktree, taskRef, branch, queued, faults, foreign, lock, snapshot>>
        /\ pc' = [pc EXCEPT ![c] = "created"]
      BY <1>0, <1>5 DEF CreatePullRequest, Goto, LockHeld, StepOK, ForgeAccepted
  <2>2. /\ pr' \in [state : {"NONE", "OPEN", "MERGED"}, head : Trees \cup {None}, count : Nat]
        /\ pr'.state = "OPEN" /\ pr'.count = 1
    <3>1. pr \in [state : {"NONE", "OPEN", "MERGED"}, head : Trees \cup {None}, count : Nat]
        BY DEF TypeOK
    <3>2. pr' = [pr EXCEPT !.state = "OPEN", !.count = 1]
        BY <1>5, <2>1 DEF CreatePullRequest
    <3> QED
        BY <3>1, <3>2
  <2>3. TypeOK'
      BY <2>1, <2>2 DEF TypeOK
  <2>4. Grows /\ StepOK("created")'
      BY <1>0, <2>1, <2>2 DEF Grows, StepOK
  <2>5. LockHeld' /\ CallsOK'
      BY <2>1, <2>4, HolderMoves
  <2>6. JournalAccepted'
      BY <2>1 DEF JournalAccepted
  <2>7. ForgeAccepted'
      BY <1>0, <2>1, <2>2 DEF ForgeAccepted, StepOK
  <2> QED
      BY <2>3, <2>5, <2>6, <2>7
<1>6. CASE AppendPullRequest(c)
  <2>0. PICK l : l = IF pc[c] = "already merged" THEN "merged"
                     ELSE IF policy = "CHECKS"   THEN "checks" ELSE "merge"
      OBVIOUS
  <2>1. /\ pc[c] \in {"open", "already merged"} /\ AppendPublicationEvent(c, "PULL_REQUEST_RECORDED", Goto(c, l))
        /\ UNCHANGED <<repo, forge, bounds>> /\ run.commit = run.tree
        /\ l \in {"merged", "checks", "merge"}
      BY <1>0, <1>6, <2>0 DEF AppendPullRequest, StepOK
  <2>2. Grows /\ This("PULL_REQUEST_RECORDED", run.tree) \in recorded' => StepOK(l)'
      BY <1>0, <2>0, <2>1 DEF StepOK, Grows
  <2> QED
      BY <1>j, <2>1, <2>2 DEF PublicationTypes
<1>7. CASE WaitForRequiredChecks(c)
  <2>1. TypeOK' /\ pc[c] \in LockedSteps /\ UNCHANGED <<run, recorded, policy, worktree, pr, queued>>
      BY <1>7 DEF WaitForRequiredChecks, Goto, End, Leave, NoCaller, TypeOK
  <2>2. (Goto(c, "checked") /\ StepOK("checked"))
      BY <1>0, <1>7 DEF WaitForRequiredChecks, StepOK
  <2> QED
      BY <2>1, <2>2, GotoInd
<1>8. CASE AppendChecksPassed(c)
  <2>1. /\ pc[c] = "checked" /\ AppendPublicationEvent(c, "REQUIRED_CHECKS_PASSED", Goto(c, "merge"))
        /\ UNCHANGED <<repo, forge, bounds>> /\ run.commit = run.tree
      BY <1>0, <1>8 DEF AppendChecksPassed, StepOK
  <2>2. Grows /\ This("REQUIRED_CHECKS_PASSED", run.tree) \in recorded' => StepOK("merge")'
      BY <1>0, <2>1 DEF StepOK, Grows
  <2> QED
      BY <1>j, <2>1, <2>2 DEF PublicationTypes
<1>9. CASE MergePullRequest(c)
  <2>1. /\ TypeOK' /\ pc[c] = "merge" /\ lock = c
        /\ UNCHANGED <<run, recorded, policy, worktree, taskRef, branch, pr, faults, foreign>>
      BY <1>9 DEF MergePullRequest, Goto, End, Leave, NoCaller, TypeOK, LockHeld
  <2>2. CASE UNCHANGED queued
    <3>1. (Goto(c, "view") /\ StepOK("view")) \/ End(c)
        BY <1>0, <1>9, <2>1 DEF MergePullRequest, StepOK
    <3> QED
        BY <2>1, <2>2, <3>1, GotoInd, LeaveInd, IdleOK DEF End
  <2>3. CASE ~UNCHANGED queued
    <3>1. pc' = [pc EXCEPT ![c] = "view"] /\ UNCHANGED <<lock, snapshot>>
        BY <1>9, <2>3 DEF MergePullRequest, Goto
    <3>2. Grows /\ StepOK("view")'
        BY <1>0, <2>1, <3>1 DEF Grows, StepOK
    <3>3. LockHeld' /\ CallsOK'
        BY <2>1, <3>1, <3>2, HolderMoves
    <3>4. JournalAccepted'
        BY <2>1 DEF JournalAccepted
    <3>5. ForgeAccepted'
        BY <1>0, <2>1 DEF ForgeAccepted, StepOK
    <3> QED
        BY <2>1, <3>3, <3>4, <3>5
  <2> QED
      BY <2>2, <2>3
<1>10. CASE ViewPullRequest(c)
  <2>1. TypeOK' /\ pc[c] \in LockedSteps /\ UNCHANGED <<run, recorded, policy, worktree, pr, queued>>
      BY <1>10 DEF ViewPullRequest, Goto, End, Leave, NoCaller, TypeOK
  <2>2. (Goto(c, "merged") /\ StepOK("merged")) \/ End(c)
      BY <1>0, <1>10 DEF ViewPullRequest, StepOK
  <2> QED
      BY <2>1, <2>2, GotoInd, LeaveInd, IdleOK DEF End
<1>11. CASE AppendMerged(c)
  <2>1. /\ pc[c] = "merged" /\ lock = c /\ run.commit = run.tree /\ pr.state = "MERGED"
        /\ UNCHANGED <<policy, worktree, taskRef, branch, pr, queued, faults, foreign>> /\ Leave(c, "idle")
      BY <1>0, <1>11 DEF AppendMerged, AppendPublicationEvent, Append, StepOK, LockHeld, End
  <2>2. CASE UNCHANGED <<run, recorded>>
    <3>1. TypeOK'
        BY <2>1, <2>2 DEF Leave, NoCaller, TypeOK
    <3> QED
        BY <2>1, <2>2, <3>1, LeaveInd, IdleOK
  <2>3. CASE ~UNCHANGED <<run, recorded>>
    <3>0. "RUN_MERGED" \in PublicationTypes
        BY DEF PublicationTypes
    <3>1. /\ run' \in RunRecords /\ recorded' \in SUBSET Commands /\ Grows /\ JournalAccepted' /\ ForgeAccepted'
        BY <1>11, <2>1, <2>3, <3>0, Journaled DEF AppendMerged, AppendPublicationEvent, Append
    <3>2. pc' = [pc EXCEPT ![c] = "idle"] /\ lock' = NoCaller /\ snapshot' = None
        BY <2>1 DEF Leave
    <3>3. TypeOK'
        BY <2>1, <3>1, <3>2 DEF TypeOK
    <3>4. StepOK("idle")'
        BY DEF StepOK
    <3>5. LockHeld' /\ CallsOK'
        BY <2>1, <3>1, <3>2, <3>4, IdleOK, HolderMoves, NoCallerIsNone DEF NoCaller
    <3> QED
        BY <3>1, <3>3, <3>5
  <2> QED
      BY <2>2, <2>3
<1> QED
    BY <1>1, <1>2, <1>3, <1>4, <1>5, <1>6, <1>7, <1>8, <1>9, <1>10, <1>11 DEF PublishStep

\* Every step keeps the inductive invariant.
LEMMA StepInd == Ind /\ [Next]_vars => Ind'
<1> SUFFICES ASSUME Ind, [Next]_vars PROVE Ind'
    OBVIOUS
<1> USE DEF Ind, durable, repo, forge, calls, bounds
<1>1. ASSUME NEW c \in Callers, Finalize(c) PROVE Ind'
  <2>1. /\ TypeOK' /\ pc[c] = "idle" /\ UNCHANGED <<run, recorded, policy, worktree, pr, queued, lock, snapshot>>
      BY <1>1 DEF Finalize, Goto, TypeOK, Steps
  <2>2. PICK l \in {"finalize", "skip", "publish"} : Goto(c, l) /\ (l # "finalize" => run.commit # None)
      BY <1>1 DEF Finalize
  <2>3. StepOK(l) /\ l \in Steps \ LockedSteps
      BY <2>2 DEF StepOK, Steps, LockedSteps, Committing, Publishing, AfterPush, AfterOpen, JournalAccepted
  <2>4. lock # c
      BY <2>1 DEF LockHeld, LockedSteps
  <2>5. Leave(c, l)
      BY <2>2, <2>4 DEF Goto, Leave
  <2> QED
      BY <2>1, <2>3, <2>5, LeaveInd
<1>2. ASSUME NEW c \in Callers, Throw(c) PROVE Ind'
  <2>1. TypeOK' /\ UNCHANGED <<run, recorded, policy, worktree, pr, queued>> /\ Leave(c, "idle")
      BY <1>2 DEF Throw, End, Leave, NoCaller, TypeOK, Steps
  <2> QED
      BY <2>1, LeaveInd, IdleOK
<1>3. CASE Crash
  <2>1. TypeOK'
      BY <1>3 DEF Crash, TypeOK, Steps
  <2>2. LockHeld'
      BY <1>3, NoCallerIsNone DEF Crash, LockHeld, LockedSteps, NoCaller
  <2>3. CallsOK'
      BY <1>3 DEF Crash, CallsOK, StepOK, Committing, Publishing, AfterPush, AfterOpen
  <2>4. JournalAccepted' /\ ForgeAccepted'
      BY <1>3 DEF Crash, JournalAccepted, ForgeAccepted
  <2> QED
      BY <2>1, <2>2, <2>3, <2>4
<1>4. CASE RecordAbort
  <2>1. /\ run' \in RunRecords /\ run'.tree = run.tree /\ run'.commit = run.commit /\ run'.merged = run.merged
        /\ UNCHANGED <<recorded, policy, worktree, taskRef, branch, pr, queued, pc, lock, snapshot, faults, foreign>>
      BY <1>4, AbortAfter DEF RecordAbort, TypeOK
  <2>2. TypeOK' /\ Grows
      BY <2>1 DEF TypeOK, Grows
  <2>3. LockHeld' /\ CallsOK'
      BY <2>1, <2>2, WorldMoves
  <2>4. JournalAccepted' /\ ForgeAccepted'
      BY <2>1 DEF JournalAccepted, ForgeAccepted
  <2> QED
      BY <2>2, <2>3, <2>4
<1>5. CASE ForeignWrite
  <2>1. TypeOK' /\ Grows /\ UNCHANGED <<run, recorded, policy, pr, queued, calls>>
      BY <1>5 DEF ForeignWrite, TypeOK, Grows
  <2>2. LockHeld' /\ CallsOK'
      BY <2>1, WorldMoves
  <2>3. JournalAccepted' /\ ForgeAccepted'
      BY <2>1 DEF JournalAccepted, ForgeAccepted
  <2> QED
      BY <2>1, <2>2, <2>3
<1>6. CASE MergeLands
  <2>1. UNCHANGED <<run, recorded, policy, worktree, taskRef, calls, faults, foreign>> /\ queued /\ queued' = FALSE
      BY <1>6 DEF MergeLands
  <2>2. \/ UNCHANGED <<pr, branch>>
        \/ /\ branch = run.commit /\ pr.state = "OPEN" /\ branch' \in {branch, None}
           /\ pr' = [state |-> "MERGED", head |-> branch, count |-> pr.count]
      BY <1>6 DEF MergeLands, TypeOK
  <2>3. run.commit = run.tree
      BY <2>1 DEF ForgeAccepted, JournalAccepted
  <2>4. TypeOK' /\ Grows
    <3>1. pr' \in [state : {"NONE", "OPEN", "MERGED"}, head : Trees \cup {None}, count : Nat] /\ branch' \in Trees \cup {None}
        BY <2>2 DEF TypeOK
    <3> QED
        BY <2>1, <3>1 DEF TypeOK, Grows
  <2>5. LockHeld' /\ CallsOK'
      BY <2>1, <2>2, <2>4, WorldMoves
  <2>6. JournalAccepted'
      BY <2>1 DEF JournalAccepted
  <2>7. ForgeAccepted'
      BY <2>1, <2>2, <2>3 DEF ForgeAccepted
  <2> QED
      BY <2>4, <2>5, <2>6, <2>7
<1>7. CASE UNCHANGED vars
  <2>1. UNCHANGED <<run, recorded, policy, worktree, taskRef, branch, pr, queued, pc, lock, snapshot, faults, foreign>>
      BY <1>7 DEF vars
  <2>2. TypeOK' /\ Grows
      BY <2>1 DEF TypeOK, Grows
  <2>3. LockHeld' /\ CallsOK'
      BY <2>1, <2>2, WorldMoves
  <2>4. JournalAccepted' /\ ForgeAccepted'
      BY <2>1 DEF JournalAccepted, ForgeAccepted
  <2> QED
      BY <2>2, <2>3, <2>4
<1> QED
    BY <1>1, <1>2, <1>3, <1>4, <1>5, <1>6, <1>7, FinalizeStepInd, PublishStepInd DEF Next, CallStep

-----------------------------------------------------------------------------
\* The inductive invariant holds throughout.
LEMMA Invariant == Spec => []Ind
BY InitInd, StepInd, PTL DEF Spec

\* Every variable has its type, whatever the number of calls, faults and foreign writes.
THEOREM TypeCorrect == Spec => []TypeOK
<1>1. Ind => TypeOK
    BY DEF Ind
<1> QED
    BY <1>1, Invariant, PTL

\* finalizeRun commits only the accepted tree, publishFinalizedRunV4 merges only its commit
\* and RUN_MERGED is journaled of nothing else.
THEOREM OnlyAcceptedIsPublished == Spec => []PublishedIsAccepted
<1>1. Ind => PublishedIsAccepted
    BY DEF Ind, PublishedIsAccepted, JournalAccepted, ForgeAccepted
<1> QED
    BY <1>1, Invariant, PTL

\* Retries and concurrent calls of publishFinalizedRunV4 create one pull request.
THEOREM PullRequestIsUnique == Spec => []OnePullRequest
<1>1. Ind => OnePullRequest
    BY DEF Ind, OnePullRequest, ForgeAccepted
<1> QED
    BY <1>1, Invariant, PTL

\* Each remote boundary of publishFinalizedRunV4 is journaled before the next is crossed.
THEOREM BoundariesAreJournaled == Spec => []BoundariesJournaled
<1>1. Ind => BoundariesJournaled
    BY DEF Ind, BoundariesJournaled, JournalAccepted, ForgeAccepted
<1> QED
    BY <1>1, Invariant, PTL

\* The publication contract as a whole: what publishFinalizedRunV4 publishes is the
\* accepted tree, in one pull request, with every boundary journaled.
THEOREM PublicationIsSound == Spec => []PublicationSound
<1>1. PublishedIsAccepted /\ OnePullRequest /\ BoundariesJournaled => PublicationSound
    BY DEF PublicationSound
<1> QED
    BY <1>1, OnlyAcceptedIsPublished, PullRequestIsUnique, BoundariesAreJournaled, PTL

\* No step of the broker moves a task ref or a remote branch that others have set.
THEOREM RefsKept == Spec => RefsNeverOverwritten
<1>1. ASSUME Ind, [Next]_vars
      PROVE  [foreign' = foreign => /\ taskRef' # taskRef => taskRef = None
                                    /\ branch' # branch => None \in {branch, branch'}]_vars
  <2> USE DEF durable, repo, forge, calls, bounds
  <2>1. ASSUME NEW c \in Callers, FinalizeStep(c) PROVE (taskRef' # taskRef => taskRef = None) /\ branch' = branch
      BY <2>1 DEF FinalizeStep, AcquireLocks, ReinspectDiff, SnapshotAcceptedTree, WriteCommit, ReadTaskRef, UpdateTaskRef,
                  VerifyTaskRef, AppendCommitCreated, SkipPublication
  <2>2. ASSUME NEW c \in Callers, PublishStep(c) PROVE taskRef' = taskRef /\ (branch' # branch => branch = None)
      BY <2>2 DEF PublishStep, Push, LsRemote, AppendBranchPushed, ReadPullRequest, CreatePullRequest,
                  AppendPullRequest, WaitForRequiredChecks, AppendChecksPassed, MergePullRequest,
                  ViewPullRequest, AppendMerged
  <2>3. ASSUME NEW c \in Callers, Finalize(c) \/ Throw(c) PROVE taskRef' = taskRef /\ branch' = branch
      BY <2>3 DEF Finalize, Throw
  <2>4. CASE Crash \/ RecordAbort \/ MergeLands
      BY <2>4 DEF Crash, RecordAbort, MergeLands
  <2>5. CASE ForeignWrite
      BY <1>1, <2>5 DEF ForeignWrite, Ind, TypeOK
  <2>6. CASE UNCHANGED vars
      BY <2>6
  <2> QED
      BY <1>1, <2>1, <2>2, <2>3, <2>4, <2>5, <2>6 DEF Next, CallStep
<1> QED
    BY <1>1, Invariant, PTL DEF Spec, RefsNeverOverwritten
=============================================================================
