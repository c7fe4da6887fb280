-------------------------- MODULE BrokerDaemonProofs --------------------------
(***************************************************************************)
(* The broker's files, memory, audit trail and locks, for every number of  *)
(* runs, requests and trees, every schedule of stops and every combination *)
(* of I/O errors.                                                          *)
(*                                                                         *)
(* The argument.  Well-formed states are closed under the reducer          *)
(* (ReduceOK).  Of the actions only four touch journal, cache or memory    *)
(* in a way that matters; the others start a persist or are quiet          *)
(* (Footprint).  FilesAgree, with CommandReady it rests on, is inductive:  *)
(* the journal is ahead of the memory by exactly the command in flight.    *)
(*                                                                         *)
(* On top of it, DaemonInv: what a state shows a journaled command has     *)
(* caused (AllBacked); the trail has audited the journal up to a point     *)
(* that the place in persist or doRecover determines (AuditComplete); the  *)
(* locks are those of the live runs but for what the operation in flight   *)
(* adds or still owes (LocksBalance); and a run that claims an external    *)
(* process has it, or waits for its reconciliation (ProcessesKnown).       *)
(***************************************************************************)
EXTENDS BrokerDaemon, SequenceTheorems, FiniteSetTheorems, WellFoundedInduction, TLAPS

-----------------------------------------------------------------------------
(* The reducer. *)

BeforeReview == {"NONE", "READY_FOR_EXECUTOR", "EXECUTION_STARTED", "AWAITING_REINSPECTION"}
Publishing   == {"READY_FOR_PUBLICATION", "PUBLICATION_PUSHED", "PULL_REQUEST_OPEN",
                 "REQUIRED_CHECKS_PASSED"}

\* What every replayed run satisfies: each attempt but the one awaiting its
\* inspection has one, and evidence only accumulates past the review.
InspectionOK(run) ==
    /\ run.inspection_required => run.epoch >= run.attempts
    /\ run.state # "NONE" /\ ~run.inspection_required => run.epoch > run.attempts
    /\ run.external_process => run.state = "EXECUTION_STARTED" /\ ~run.inspection_required

EvidenceOK(run) ==
    /\ run.state \in BeforeReview => run.tree = None
    /\ run.tree = None => run.commit = None /\ ~run.merged
    /\ run.tree # None => run.state # "NONE" /\ run.attempts >= 1 /\ ~run.inspection_required
    /\ run.state = "REVIEW_ACCEPTED" => run.tree # None
    /\ run.state \in Publishing => run.commit # None
    /\ run.commit # None => run.commit = run.tree
    /\ run.merged => run.commit # None /\ run.state = "FINALIZED"

RunOK(run) == run \in RunRecords /\ InspectionOK(run) /\ EvidenceOK(run)

StateOK(s) == s \in BrokerStates /\ \A r \in Runs : RunOK(s.runs[r])

\* What the daemon sends.
CommandOK(c) == c \in Commands /\ (c.type = "CANDIDATE_ACCEPTED" => c.arg \in Trees)

\* A permitted command takes a well-formed run to a well-formed run: no command
\* of the reducer loses an inspection, a candidate or a commit.
LEMMA RunAfterOK ==
    ASSUME NEW run, RunOK(run), NEW c, CommandOK(c), RunPermits(run, c)
    PROVE  RunOK(RunAfter(run, c))
<1> USE BrokerSizes DEF RunOK, RunRecords, States, Ended, Trees, None, InspectionOK, EvidenceOK,
                        BeforeReview, Publishing
<1>0. c.arg \in Nat /\ c.type \in CommandTypes  BY DEF CommandOK, Commands
<1>1. CASE c.type = "ATTEMPT_RECORDED"
    <2>1. AttemptAllowed(run, c)
        BY <1>1 DEF RunPermits, PublicationAllowed, PublicationTypes
    <2>2. RunAfter(run, c) =
              [run EXCEPT !.state = "AWAITING_REINSPECTION", !.attempts = @ + 1, !.verdict = FALSE,
                          !.inspection_required = TRUE, !.external_process = FALSE]
        BY <1>1 DEF RunAfter
    <2>3. run.tree = None /\ run.epoch >= run.attempts + 1 /\ run.commit = None /\ ~run.merged
        BY <2>1 DEF AttemptAllowed
    <2>4. RunAfter(run, c) \in RunRecords
        <3>1. run.attempts + 1 \in Nat /\ "AWAITING_REINSPECTION" \in States /\ run \in RunRecords
            OBVIOUS
        <3> HIDE DEF RunOK, States, Trees, None, InspectionOK, EvidenceOK
        <3> QED  BY <2>2, <3>1
    <2>5. /\ RunAfter(run, c).state = "AWAITING_REINSPECTION" /\ RunAfter(run, c).inspection_required
          /\ RunAfter(run, c).attempts = run.attempts + 1 /\ RunAfter(run, c).epoch = run.epoch
          /\ ~RunAfter(run, c).external_process /\ RunAfter(run, c).tree = None
          /\ RunAfter(run, c).commit = None /\ ~RunAfter(run, c).merged
        BY <2>2, <2>3
    <2>6. InspectionOK(RunAfter(run, c))  BY <2>3, <2>5
    <2>7. EvidenceOK(RunAfter(run, c))    BY <2>5
    <2> QED  BY <2>4, <2>6, <2>7
<1>2. CASE c.type = "PATHS_REINSPECTED"
    <2>1. ReinspectionAllowed(run, c)
        BY <1>2 DEF RunPermits, PublicationAllowed, PublicationTypes
    <2>2. RunAfter(run, c) = [run EXCEPT !.state = "READY_FOR_EXECUTOR", !.epoch = c.arg,
                                        !.inspection_required = FALSE]
        BY <1>2 DEF RunAfter
    <2>3. /\ run.tree = None /\ run.commit = None /\ ~run.merged /\ ~run.external_process
          /\ c.arg > run.attempts
        BY <1>0, <2>1 DEF ReinspectionAllowed
    <2> QED  BY <1>0, <2>2, <2>3
<1>3. CASE c.type = "EXTERNAL_PROCESS_STARTED"
    BY <1>0, <1>3 DEF RunAfter, RunPermits, LaunchAllowed, Idle, PublicationAllowed, PublicationTypes
<1>4. CASE c.type = "CANDIDATE_ACCEPTED"
    <2>1. CandidateAllowed(run) /\ c.arg \in Trees
        BY <1>4 DEF RunPermits, CommandOK, PublicationAllowed, PublicationTypes
    <2>2. RunAfter(run, c) = [run EXCEPT !.state = "REVIEW_ACCEPTED", !.tree = c.arg, !.verdict = FALSE]
        BY <1>4 DEF RunAfter
    <2>3. run.commit = None /\ ~run.merged /\ c.arg # None
        BY <2>1 DEF CandidateAllowed
    <2>4. RunAfter(run, c) \in RunRecords  BY <2>1, <2>2
    <2>5. InspectionOK(RunAfter(run, c))   BY <2>1, <2>2 DEF CandidateAllowed, Idle
    <2>6. EvidenceOK(RunAfter(run, c))     BY <2>1, <2>2, <2>3 DEF CandidateAllowed, Idle
    <2> QED  BY <2>4, <2>5, <2>6
<1>5. CASE c.type = "REVIEW_VERDICT_RECORDED"
    BY <1>0, <1>5 DEF RunAfter, RunPermits, VerdictAllowed, PublicationAllowed, PublicationTypes
<1>6. CASE c.type = "COMMIT_CREATED"
    BY <1>0, <1>6 DEF RunAfter, RunPermits, CommitAllowed, Idle, PublicationAllowed, PublicationTypes
<1>7. CASE c.type \in PublicationTypes
    <2>1. run.state \in PublicationFrom(c.type)
        BY <1>7 DEF RunPermits, PublicationAllowed, PublicationTypes
    <2>2. CASE c.type = "BRANCH_PUSHED"           BY <2>1, <2>2 DEF RunAfter, PublicationFrom
    <2>3. CASE c.type = "PULL_REQUEST_RECORDED"   BY <2>1, <2>3 DEF RunAfter, PublicationFrom
    <2>4. CASE c.type = "REQUIRED_CHECKS_PASSED"  BY <2>1, <2>4 DEF RunAfter, PublicationFrom
    <2>5. CASE c.type = "RUN_MERGED"              BY <2>1, <2>5 DEF RunAfter, PublicationFrom
    <2>6. CASE c.type = "PUBLICATION_SKIPPED"     BY <2>1, <2>6 DEF RunAfter, PublicationFrom
    <2> QED  BY <1>7, <2>2, <2>3, <2>4, <2>5, <2>6 DEF PublicationTypes
<1>8. CASE c.type \in {"RUN_ABORTED", "RUN_FAILED"}
    <2>1. PICK end \in {"ABORTED", "FAILED"} :
              RunAfter(run, c) = [run EXCEPT !.state = end, !.external_process = FALSE]
        BY <1>8 DEF RunAfter
    <2>2. ~run.merged  BY DEF RunPermits, ActiveRun
    <2>3. run.state # "NONE"  BY DEF RunPermits, ActiveRun
    <2> QED  BY <2>1, <2>2, <2>3
<1>9. c.type # "RUN_ACCEPTED"
    BY DEF RunPermits, PublicationAllowed, PublicationTypes
<1> QED  BY <1>0, <1>1, <1>2, <1>3, <1>4, <1>5, <1>6, <1>7, <1>8, <1>9 DEF CommandTypes

\* A run_id that is not known is well-formed.
LEMMA NoRunYetOK == RunOK(NoRunYet)
BY DEF RunOK, NoRunYet, RunRecords, States, InspectionOK, EvidenceOK, None, BeforeReview, Publishing

\* The state the daemon starts from, and the one that stands for a refused journal.
LEMMA InitialStateOK == StateOK(initialBrokerState) /\ StateOK(Corrupt) /\ initialBrokerState.ok
<1>1. [r \in Runs |-> NoRunYet] \in [Runs -> RunRecords]  BY NoRunYetOK DEF RunOK
<1>2. [q \in Requests |-> None] \in [Requests -> Runs \cup {None}]  OBVIOUS
<1>3. initialBrokerState \in BrokerStates /\ initialBrokerState.runs = [r \in Runs |-> NoRunYet]
    BY <1>1, <1>2 DEF initialBrokerState, BrokerStates
<1>4. Corrupt \in BrokerStates /\ Corrupt.runs = [r \in Runs |-> NoRunYet]
    BY <1>1, <1>2, <1>3 DEF Corrupt, initialBrokerState, BrokerStates
<1>5. initialBrokerState.ok  BY DEF initialBrokerState
<1> QED  BY <1>3, <1>4, <1>5, NoRunYetOK DEF StateOK

\* The reducer keeps states well-formed, whatever command it is given.
LEMMA ReduceOK ==
    ASSUME NEW s, StateOK(s), NEW c, CommandOK(c)
    PROVE  StateOK(Reduce(s, c))
<1>1. CASE ~(s.ok /\ Permits(s, c))  BY <1>1, InitialStateOK DEF Reduce
<1>2. CASE s.ok /\ Permits(s, c)
    <2>0. Reduce(s, c) = Apply(s, c) /\ c.run \in Runs /\ s \in BrokerStates
        BY <1>2 DEF Reduce, CommandOK, Commands, StateOK
    <2>1. CASE c.type = "RUN_ACCEPTED"
        <3>1. RunOK(AcceptedRun)
            <4>1. AcceptedRun = [NoRunYet EXCEPT !.state = "READY_FOR_EXECUTOR", !.epoch = 1]
                BY DEF AcceptedRun
            <4>2. /\ NoRunYet \in RunRecords /\ NoRunYet.attempts = 0 /\ NoRunYet.tree = None
                  /\ NoRunYet.commit = None /\ ~NoRunYet.merged /\ ~NoRunYet.external_process
                  /\ ~NoRunYet.inspection_required
                BY NoRunYetOK DEF NoRunYet, RunOK
            <4>3. AcceptedRun \in RunRecords  BY <4>1, <4>2 DEF RunRecords, States
            <4>4. /\ AcceptedRun.state = "READY_FOR_EXECUTOR" /\ AcceptedRun.epoch = 1
                  /\ AcceptedRun.attempts = 0 /\ AcceptedRun.tree = None
                  /\ AcceptedRun.commit = None /\ ~AcceptedRun.merged
                  /\ ~AcceptedRun.external_process /\ ~AcceptedRun.inspection_required
                BY <4>1, <4>2 DEF RunRecords
            <4> QED  BY <4>3, <4>4 DEF RunOK, InspectionOK, EvidenceOK, BeforeReview, Publishing
        <3>2. c.arg \in Requests  BY <1>2, <2>1 DEF Permits
        <3>3. Apply(s, c) = [s EXCEPT !.runs[c.run] = AcceptedRun, !.requests[c.arg] = c.run]
            BY <2>1 DEF Apply
        <3>4. Apply(s, c) \in BrokerStates
            <4>1. [s.runs EXCEPT ![c.run] = AcceptedRun] \in [Runs -> RunRecords]
                BY <2>0, <3>1 DEF BrokerStates, RunOK
            <4>2. [s.requests EXCEPT ![c.arg] = c.run] \in [Requests -> Runs \cup {None}]
                BY <2>0, <3>2 DEF BrokerStates
            <4> QED  BY <2>0, <3>3, <4>1, <4>2 DEF BrokerStates
        <3>5. \A r \in Runs : Apply(s, c).runs[r] = IF r = c.run THEN AcceptedRun ELSE s.runs[r]
            BY <2>0, <3>3 DEF BrokerStates
        <3> QED  BY <2>0, <3>1, <3>4, <3>5 DEF StateOK
    <2>2. CASE c.type # "RUN_ACCEPTED"
        <3>1. RunOK(RunAfter(s.runs[c.run], c))
            BY <1>2, <2>0, <2>2, RunAfterOK DEF Permits, StateOK
        <3>3. Apply(s, c) = [s EXCEPT !.runs[c.run] = RunAfter(s.runs[c.run], c)]
            BY <2>2 DEF Apply
        <3>4. Apply(s, c) \in BrokerStates
            BY <2>0, <3>1, <3>3 DEF BrokerStates, RunOK
        <3>5. \A r \in Runs :
                  Apply(s, c).runs[r] = IF r = c.run THEN RunAfter(s.runs[c.run], c) ELSE s.runs[r]
            BY <2>0, <3>3 DEF BrokerStates
        <3> QED  BY <2>0, <3>1, <3>4, <3>5 DEF StateOK
    <2> QED  BY <2>1, <2>2
<1> QED  BY <1>1, <1>2

\* A permitted command leaves ended runs and known requests alone and keeps the
\* replay going; an accepted request becomes known.
LEMMA ReduceKeeps ==
    ASSUME NEW s, StateOK(s), s.ok, NEW c, CommandOK(c), Permits(s, c)
    PROVE  /\ Reduce(s, c).ok
           /\ \A r \in Runs : s.runs[r].state \in Ended => Reduce(s, c).runs[r] = s.runs[r]
           /\ \A q \in Requests : s.requests[q] # None => Reduce(s, c).requests[q] # None
           /\ c.type = "RUN_ACCEPTED" =>
                c.arg \in Requests /\ s.requests[c.arg] = None /\ Reduce(s, c).requests[c.arg] # None
<1>0. Reduce(s, c) = Apply(s, c) /\ c.run \in Runs /\ c.run # None /\ s \in BrokerStates
    BY BrokerSizes DEF Reduce, CommandOK, Commands, StateOK, Runs, None
<1>1. CASE c.type = "RUN_ACCEPTED"
    <2>1. c.arg \in Requests /\ s.requests[c.arg] = None /\ s.runs[c.run].state = "NONE"
        BY <1>1 DEF Permits
    <2>2. Apply(s, c) = [s EXCEPT !.runs[c.run] = AcceptedRun, !.requests[c.arg] = c.run]
        BY <1>1 DEF Apply
    <2> QED  BY <1>0, <2>1, <2>2 DEF BrokerStates, Ended
<1>2. CASE c.type # "RUN_ACCEPTED"
    <2>1. s.runs[c.run].state \notin Ended  BY <1>2 DEF Permits, RunPermits, ActiveRun
    <2>2. Apply(s, c) = [s EXCEPT !.runs[c.run] = RunAfter(s.runs[c.run], c)]
        BY <1>2 DEF Apply
    <2> QED  BY <1>0, <1>2, <2>1, <2>2 DEF BrokerStates
<1> QED  BY <1>1, <1>2

-----------------------------------------------------------------------------
(* The footprint of a step on journal, cache and memory. *)

\* An operation or the reconciliation passed the guards of persist.
Begin ==
    /\ pc # "cache" /\ (up \/ pc # "idle") /\ pc' = "append"
    /\ CommandOK(cmd') /\ Permits(mem, cmd')
    /\ UNCHANGED <<journal, unsynced, torn, cache, mem, up, degraded>>

Quiet ==
    /\ pc # "cache" /\ pc' \notin {"append", "cache"} /\ (pc' = "idle" \/ pc # "idle")
    /\ UNCHANGED <<journal, unsynced, cache, mem, up, degraded>>
    /\ "journal" \in torn' <=> "journal" \in torn

\* The guards every persist passes, for a command with a well-formed argument.
LEMMA BeginPersistBegins ==
    ASSUME NEW c, CommandOK(c), BeginPersist(c), pc # "cache", up \/ pc # "idle",
           UNCHANGED <<journal, unsynced, torn, cache, mem, up, degraded>>
    PROVE  Begin
BY DEF BeginPersist, Begin

\* A failing audit append leaves the journal as it is.
LEMMA AuditThrowsFrame ==
    ASSUME NEW e, AuditThrows(e)
    PROVE  /\ ("journal" \in torn' <=> "journal" \in torn) /\ auditFailed' = TRUE /\ snapshots' = snapshots
           /\ torn \subseteq {"journal", "audit"} => torn' \subseteq {"journal", "audit"}
           /\ audit' = audit \/ (audit' = Append(audit, e) /\ ~auditFailed)
BY DEF AuditThrows, AuditWriteFails

\* Every command the daemon builds from its arguments and its memory is one.
LEMMA BuiltCommandOK ==
    ASSUME NEW type \in CommandTypes, NEW r \in Runs, NEW a \in Nat,
           type = "CANDIDATE_ACCEPTED" => a \in Trees
    PROVE  CommandOK(Command(type, r, a))
BY DEF CommandOK, Command, Commands

\* Every step of the daemon has one of nine effects on journal, cache and memory.
LEMMA Footprint ==
    ASSUME StateOK(mem), Next
    PROVE  \/ AppendJournal \/ AppendFails \/ ReplaceCache \/ CacheFails
           \/ ReadFiles \/ AuditUnreadable \/ Stop \/ Begin \/ Quiet
<1>0. Trees \subseteq Nat /\ Requests \subseteq Nat /\ 0 \in Nat /\ 1 \in Nat
    BY BrokerSizes DEF Trees, Requests
<1>1. CASE PersistStep
    <2>2. CASE FinishPersist  BY <2>2 DEF FinishPersist, Quiet, world
    <2>3. CASE ProjectionFails  BY <2>3, AuditThrowsFrame DEF ProjectionFails, Throw, Quiet
    <2> QED  BY <1>1, <2>2, <2>3 DEF PersistStep
<1>2. CASE RecoveryStep
    <2>1. CASE ProjectRecorded  BY <2>1 DEF ProjectRecorded, Quiet, world
    <2>2. CASE ProjectRecordedFails  BY <2>2, AuditThrowsFrame DEF ProjectRecordedFails, Throw, Quiet
    <2>3. CASE AcquireLocks  BY <2>3 DEF AcquireLocks, Quiet, world, files
    <2>4. CASE LocksBusy  BY <2>4 DEF LocksBusy, Throw, Quiet, files
    <2>5. CASE EndRecovery  BY <2>5 DEF EndRecovery, Quiet, world, files
    <2>6. ASSUME NEW r \in Runs, KeepProcess(r)  PROVE Quiet
        BY <2>6 DEF KeepProcess, Quiet, world, files
    <2>7. ASSUME NEW r \in Runs, FailProcess(r)  PROVE Begin
        <3>1. CommandOK(Command("RUN_FAILED", r, 0))  BY <1>0, BuiltCommandOK DEF CommandTypes
        <3>2. /\ pc = "reconcile" /\ BeginPersist(Command("RUN_FAILED", r, 0))
              /\ UNCHANGED <<journal, unsynced, torn, cache, mem, up, degraded>>
            BY <2>7 DEF FailProcess, world, files
        <3> QED  BY <3>1, <3>2, BeginPersistBegins
    <2> QED  BY <1>2, <2>1, <2>2, <2>3, <2>4, <2>5, <2>6, <2>7 DEF RecoveryStep
<1>3. CASE Operation
    <2>1. ASSUME NEW c, Record(c), CommandOK(c)  PROVE Begin
        <3>1. /\ pc = "idle" /\ up /\ BeginPersist(c)
              /\ UNCHANGED <<journal, unsynced, torn, cache, mem, up, degraded>>
            BY <2>1 DEF Record, Ready, files
        <3> QED  BY <2>1, <3>1, BeginPersistBegins
    <2>2. ASSUME NEW q \in Requests, Submit(q)  PROVE Begin
        <3>1. CommandOK(Command("RUN_ACCEPTED", NewRun, q))
            BY <1>0, <2>2, BuiltCommandOK DEF CommandTypes, Submit
        <3>2. /\ pc = "idle" /\ up /\ BeginPersist(Command("RUN_ACCEPTED", NewRun, q))
              /\ UNCHANGED <<journal, unsynced, torn, cache, mem, up, degraded>>
            BY <2>2 DEF Submit, Ready, files, world
        <3> QED  BY <3>1, <3>2, BeginPersistBegins
    <2>3. ASSUME NEW r \in Runs, RetryEnding(r) \/ RecordAuditEvidence(r)  PROVE Quiet
        BY <2>3, AuditThrowsFrame DEF RetryEnding, RecordAuditEvidence, Quiet, files, world
    <2>4. \A r \in Runs : mem.runs[r].attempts + 1 \in Nat /\ mem.runs[r].epoch + 1 \in Nat
        <3>1. \A r \in Runs : mem.runs[r].attempts \in Nat /\ mem.runs[r].epoch \in Nat
            BY DEF StateOK, BrokerStates, RunRecords
        <3> QED  BY <3>1
    <2>5. ASSUME NEW r \in Runs,
                 \/ RecordExternalProcessStarted(r) \/ RecordAttempt(r) \/ Reinspect(r)
                 \/ RecordFailure(r) \/ RecordAbort(r)
          PROVE  Begin
        <3>1. CASE RecordExternalProcessStarted(r)
            BY <1>0, <2>1, <3>1, BuiltCommandOK DEF RecordExternalProcessStarted, CommandTypes
        <3>2. CASE RecordAttempt(r)
            BY <2>1, <2>4, <3>2, BuiltCommandOK DEF RecordAttempt, CommandTypes
        <3>3. CASE Reinspect(r)
            BY <2>1, <2>4, <3>3, BuiltCommandOK DEF Reinspect, CommandTypes
        <3>4. CASE RecordFailure(r)
            BY <1>0, <2>1, <3>4, BuiltCommandOK DEF RecordFailure, CommandTypes
        <3>5. CASE RecordAbort(r)
            BY <1>0, <2>1, <3>5, BuiltCommandOK DEF RecordAbort, CommandTypes
        <3> QED  BY <2>5, <3>1, <3>2, <3>3, <3>4, <3>5
    <2>6. ASSUME NEW r \in Runs, NEW t \in Trees,
                 \/ RecordAcceptedCandidate(r, t) \/ RecordReviewVerdict(r, t)
                 \/ RecordCommitCreated(r, t) \/ RecordPublication(r, t)
          PROVE  Begin
        <3>0. t \in Nat  BY <1>0
        <3>1. CASE RecordAcceptedCandidate(r, t)
            BY <3>0, <2>1, <3>1, BuiltCommandOK DEF RecordAcceptedCandidate, CommandTypes
        <3>2. CASE RecordReviewVerdict(r, t)
            BY <3>0, <2>1, <3>2, BuiltCommandOK DEF RecordReviewVerdict, CommandTypes
        <3>3. CASE RecordCommitCreated(r, t)
            BY <3>0, <2>1, <3>3, BuiltCommandOK DEF RecordCommitCreated, CommandTypes
        <3>4. CASE RecordPublication(r, t)
            <4>1. PICK type \in PublicationTypes : Record(Command(type, r, t))
                BY <3>4 DEF RecordPublication
            <4>2. CommandOK(Command(type, r, t))
                BY <3>0, BuiltCommandOK DEF CommandTypes
            <4> QED  BY <2>1, <4>1, <4>2
        <3> QED  BY <2>6, <3>1, <3>2, <3>3, <3>4
    <2> QED  BY <1>3, <2>2, <2>3, <2>5, <2>6 DEF Operation
<1> QED  BY <1>1, <1>2, <1>3 DEF Next

-----------------------------------------------------------------------------
(* The inductive invariant. *)

JournalRecords == [cmd : Commands, after : BrokerStates]

FilesTyped ==
    /\ journal \in Seq(JournalRecords) /\ StateOK(mem)
    /\ \A i \in DOMAIN journal : StateOK(journal[i].after)

\* The file has at most one line that memory has not, and only while it still parses.
UnsyncedOK ==
    /\ \A c \in unsynced : CommandOK(c)
    /\ \A c, d \in unsynced : c = d
    /\ unsynced # {} => "journal" \notin torn /\ pc # "cache"

CommandReady ==
    /\ pc # "idle" => up
    /\ pc \in {"append", "cache"} => CommandOK(cmd)

RequestsKnown ==
    /\ \A i \in DOMAIN journal : journal[i].cmd.type = "RUN_ACCEPTED" =>
        journal[i].cmd.arg \in Requests /\ Replayed.requests[journal[i].cmd.arg] # None
    /\ \A i, j \in DOMAIN journal :
        /\ journal[i].cmd.type = "RUN_ACCEPTED" /\ journal[j].cmd.type = "RUN_ACCEPTED"
        /\ journal[i].cmd.arg = journal[j].cmd.arg
        => i = j

CacheIsPrefix == cache.sequence \in 0..Len(journal) /\ cache.state = PrefixState(cache.sequence)

\* The journal is ahead of the memory by the command in flight, or by the one whose append
\* threw after its line was complete, and by nothing else.
FilesAgree ==
    /\ \A i \in DOMAIN journal : journal[i].after.ok
    /\ CacheIsPrefix
    /\ up /\ pc # "cache" => mem = Replayed
    /\ pc = "append" => Permits(mem, cmd)
    /\ pc = "cache" => Replayed = Reduce(mem, cmd)
    /\ \A c \in unsynced : Permits(Replayed, c)
    /\ RequestsKnown

BrokerInv == FilesTyped /\ UnsyncedOK /\ CommandReady /\ (~degraded => FilesAgree)

\* What a replay yields is well-formed, and not corrupt unless a cache replacement failed.
LEMMA ReplayedOK ==
    ASSUME FilesTyped
    PROVE  StateOK(Replayed) /\ ((\A i \in DOMAIN journal : journal[i].after.ok) => Replayed.ok)
<1>1. CASE journal = <<>>  BY <1>1, InitialStateOK DEF Replayed
<1>2. CASE journal # <<>>
    <2>1. Len(journal) \in DOMAIN journal  BY <1>2 DEF FilesTyped
    <2> QED  BY <1>2, <2>1 DEF Replayed, FilesTyped
<1> QED  BY <1>1, <1>2

\* The empty state directory satisfies the invariant.
LEMMA InitBrokerInv == Init => BrokerInv
<1> SUFFICES ASSUME Init PROVE BrokerInv  OBVIOUS
<1>1. journal = <<>> /\ unsynced = {} /\ mem = initialBrokerState /\ pc = "idle" /\ up = FALSE
      /\ cache = [sequence |-> 0, state |-> initialBrokerState]
    BY DEF Init
<1>2. FilesTyped  BY <1>1, InitialStateOK DEF FilesTyped
<1>3. CommandReady  BY <1>1 DEF CommandReady
<1>4. CacheIsPrefix  BY <1>1 DEF CacheIsPrefix, PrefixState
<1>5. RequestsKnown  BY <1>1 DEF RequestsKnown
<1>6. FilesAgree  BY <1>1, <1>4, <1>5 DEF FilesAgree
<1>7. UnsyncedOK  BY <1>1 DEF UnsyncedOK
<1> QED  BY <1>2, <1>3, <1>6, <1>7 DEF BrokerInv

\* What a journal with one more record is, and what it keeps when the record is permitted.
LEMMA RecordKeeps ==
    ASSUME FilesTyped, NEW c, CommandOK(c), journal' = Append(journal, RecordOf(c)), cache' = cache
    PROVE  /\ journal' \in Seq(JournalRecords) /\ Len(journal') = Len(journal) + 1 /\ Len(journal) \in Nat
           /\ DOMAIN journal' = 1..(Len(journal) + 1) /\ DOMAIN journal = 1..Len(journal)
           /\ journal'[Len(journal) + 1] = RecordOf(c)
           /\ \A i \in DOMAIN journal : journal'[i] = journal[i]
           /\ \A i \in DOMAIN journal' : StateOK(journal'[i].after)
           /\ Replayed' = Reduce(Replayed, c)
           /\ (\A i \in DOMAIN journal : journal[i].after.ok) /\ CacheIsPrefix /\ RequestsKnown /\ Permits(Replayed, c) =>
                /\ \A i \in DOMAIN journal' : journal'[i].after.ok
                /\ CacheIsPrefix' /\ RequestsKnown'
                /\ \A r \in Runs : Replayed.runs[r].state \in Ended => Replayed'.runs[r] = Replayed.runs[r]
<1>a. PICK next : next = Reduce(Replayed, c)  OBVIOUS
<1>b. PICK rec : rec = RecordOf(c)  OBVIOUS
<1>0. rec = [cmd |-> c, after |-> next] /\ journal' = Append(journal, rec)  BY <1>a, <1>b DEF RecordOf
<1>1. StateOK(next) /\ StateOK(Replayed) /\ next \in BrokerStates
    BY <1>a, ReplayedOK, ReduceOK DEF StateOK
<1>2. rec \in JournalRecords  BY <1>0, <1>1 DEF JournalRecords, CommandOK
<1>3. journal \in Seq(JournalRecords)  BY DEF FilesTyped
<1>4. /\ journal' \in Seq(JournalRecords) /\ Len(journal') = Len(journal) + 1 /\ Len(journal) \in Nat
      /\ DOMAIN journal' = 1..(Len(journal) + 1) /\ DOMAIN journal = 1..Len(journal)
      /\ journal'[Len(journal) + 1] = rec
      /\ \A i \in DOMAIN journal : journal'[i] = journal[i]
    BY <1>0, <1>2, <1>3
<1>5. Replayed' = next
    <2>1. Replayed' = journal'[Len(journal')].after  BY <1>4 DEF Replayed
    <2> QED  BY <1>0, <1>4, <2>1
<1>6. \A i \in DOMAIN journal' : StateOK(journal'[i].after)
    BY <1>0, <1>1, <1>4 DEF FilesTyped
<1>8. ASSUME \A i \in DOMAIN journal : journal[i].after.ok, CacheIsPrefix, RequestsKnown, Permits(Replayed, c)
      PROVE  /\ \A i \in DOMAIN journal' : journal'[i].after.ok
             /\ CacheIsPrefix' /\ RequestsKnown'
             /\ \A r \in Runs : Replayed.runs[r].state \in Ended => Replayed'.runs[r] = Replayed.runs[r]
    <2>0. Replayed.ok  BY <1>8, ReplayedOK
    <2>1. /\ next.ok
          /\ \A r \in Runs : Replayed.runs[r].state \in Ended => next.runs[r] = Replayed.runs[r]
          /\ \A q \in Requests : Replayed.requests[q] # None => next.requests[q] # None
          /\ c.type = "RUN_ACCEPTED" =>
               c.arg \in Requests /\ Replayed.requests[c.arg] = None /\ next.requests[c.arg] # None
        BY <1>1, <1>8, <2>0, <1>a, ReduceKeeps
    <2>2. \A i \in DOMAIN journal' : journal'[i].after.ok
        BY <1>0, <1>4, <1>8, <2>1
    <2>3. CacheIsPrefix'
        <3>1. \A n \in 0..Len(journal) : PrefixState(n)' = PrefixState(n)
            BY <1>4 DEF PrefixState
        <3> QED  BY <1>3, <1>4, <1>8, <3>1 DEF CacheIsPrefix, PrefixState
    <2>5. RequestsKnown'
        <3>1. \A i \in DOMAIN journal' : journal'[i].cmd.type = "RUN_ACCEPTED" =>
                 journal'[i].cmd.arg \in Requests /\ Replayed'.requests[journal'[i].cmd.arg] # None
            BY <1>0, <1>4, <1>5, <1>8, <2>1 DEF RequestsKnown
        <3>2. \A i \in DOMAIN journal : journal[i].cmd.type = "RUN_ACCEPTED" =>
                 ~(c.type = "RUN_ACCEPTED" /\ journal[i].cmd.arg = c.arg)
            BY <1>8, <2>1 DEF RequestsKnown
        <3>3. \A i, j \in DOMAIN journal' :
                 /\ journal'[i].cmd.type = "RUN_ACCEPTED" /\ journal'[j].cmd.type = "RUN_ACCEPTED"
                 /\ journal'[i].cmd.arg = journal'[j].cmd.arg
                 => i = j
            BY <1>0, <1>4, <1>8, <3>2 DEF RequestsKnown
        <3> QED  BY <3>1, <3>3 DEF RequestsKnown
    <2> QED  BY <1>5, <2>1, <2>2, <2>3, <2>5
<1> QED  BY <1>a, <1>b, <1>4, <1>5, <1>6, <1>8

\* The journal append keeps the invariant and, for everybody who replays the
\* journal, leaves ended runs alone.
LEMMA AppendKeeps ==
    ASSUME BrokerInv, AppendJournal
    PROVE  /\ BrokerInv'
           /\ ~degraded => \A r \in Runs :
                Replayed.runs[r].state \in Ended => Replayed'.runs[r] = Replayed.runs[r]
<1>0. /\ pc = "append" /\ pc' = "cache" /\ journal' = Append(journal, RecordOf(cmd)) /\ unsynced' = {}
      /\ UNCHANGED <<cache, up, mem, cmd, degraded>> /\ up /\ CommandOK(cmd) /\ FilesTyped
    BY DEF AppendJournal, BrokerInv, CommandReady, world
<1>1. /\ journal' \in Seq(JournalRecords) /\ \A i \in DOMAIN journal' : StateOK(journal'[i].after)
      /\ Replayed' = Reduce(Replayed, cmd)
    BY <1>0, RecordKeeps
<1>2. FilesTyped' /\ UnsyncedOK' /\ CommandReady'
    BY <1>0, <1>1 DEF BrokerInv, FilesTyped, UnsyncedOK, CommandReady
<1>3. ASSUME ~degraded
      PROVE  /\ FilesAgree'
             /\ \A r \in Runs : Replayed.runs[r].state \in Ended => Replayed'.runs[r] = Replayed.runs[r]
    <2>0. FilesAgree /\ mem = Replayed /\ Permits(Replayed, cmd)
        BY <1>0, <1>3 DEF BrokerInv, FilesAgree
    <2>1. (\A i \in DOMAIN journal : journal[i].after.ok) /\ CacheIsPrefix /\ RequestsKnown
        BY <2>0 DEF FilesAgree
    <2>2. /\ \A i \in DOMAIN journal' : journal'[i].after.ok
          /\ CacheIsPrefix' /\ RequestsKnown'
          /\ \A r \in Runs : Replayed.runs[r].state \in Ended => Replayed'.runs[r] = Replayed.runs[r]
        BY <1>0, <2>0, <2>1, RecordKeeps
    <2>3. Replayed' = Reduce(mem, cmd)'  BY <1>0, <1>1, <2>0
    <2> QED  BY <1>0, <2>2, <2>3 DEF FilesAgree
<1> QED  BY <1>0, <1>2, <1>3 DEF BrokerInv

\* A stop leaves the journal as it is, or with the line that was not acknowledged.
LEMMA StopsWith ==
    ASSUME BrokerInv, Stop
    PROVE  \/ journal' = journal
           \/ \E c \in unsynced : CommandOK(c) /\ journal' = Append(journal, RecordOf(c))
                                  /\ (~degraded => Permits(Replayed, c))
<1>1. journal' \in {journal} \cup {Append(journal, RecordOf(c)) : c \in unsynced}  BY DEF Stop
<1>2. \A c \in unsynced : CommandOK(c) /\ (~degraded => Permits(Replayed, c))
    BY DEF BrokerInv, UnsyncedOK, FilesAgree
<1> QED  BY <1>1, <1>2

\* A stop keeps the invariant and leaves ended runs alone.
LEMMA StopKeeps ==
    ASSUME BrokerInv, Stop
    PROVE  /\ BrokerInv'
           /\ ~degraded => \A r \in Runs :
                Replayed.runs[r].state \in Ended => Replayed'.runs[r] = Replayed.runs[r]
<1>0. /\ up' = FALSE /\ mem' = initialBrokerState /\ pc' = "idle" /\ unsynced' = {}
      /\ UNCHANGED <<cache, degraded>> /\ FilesTyped
    BY DEF Stop, BrokerInv
<1>1. UnsyncedOK' /\ CommandReady' /\ StateOK(mem')
    BY <1>0, InitialStateOK DEF UnsyncedOK, CommandReady
<1>2. CASE journal' = journal
    <2>1. FilesTyped'  BY <1>0, <1>1, <1>2 DEF FilesTyped
    <2>2. Replayed' = Replayed /\ RequestsKnown' = RequestsKnown /\ \A n : PrefixState(n)' = PrefixState(n)
        BY <1>2 DEF Replayed, PrefixState, RequestsKnown
    <2>3. ASSUME ~degraded PROVE FilesAgree'
        BY <1>0, <1>2, <2>2, <2>3 DEF BrokerInv, FilesAgree, CacheIsPrefix
    <2> QED  BY <1>0, <1>1, <2>1, <2>2, <2>3 DEF BrokerInv
<1>3. CASE \E c \in unsynced : CommandOK(c) /\ journal' = Append(journal, RecordOf(c))
                               /\ (~degraded => Permits(Replayed, c))
    <2>0. PICK c \in unsynced : CommandOK(c) /\ journal' = Append(journal, RecordOf(c))
                                /\ (~degraded => Permits(Replayed, c))
        BY <1>3
    <2>1. journal' \in Seq(JournalRecords) /\ \A i \in DOMAIN journal' : StateOK(journal'[i].after)
        BY <1>0, <2>0, RecordKeeps
    <2>2. FilesTyped'  BY <1>1, <2>1 DEF FilesTyped
    <2>3. ASSUME ~degraded
          PROVE  /\ FilesAgree'
                 /\ \A r \in Runs : Replayed.runs[r].state \in Ended => Replayed'.runs[r] = Replayed.runs[r]
        <3>1. (\A i \in DOMAIN journal : journal[i].after.ok) /\ CacheIsPrefix /\ RequestsKnown
            BY <2>3 DEF BrokerInv, FilesAgree
        <3>2. /\ \A i \in DOMAIN journal' : journal'[i].after.ok
              /\ CacheIsPrefix' /\ RequestsKnown'
              /\ \A r \in Runs : Replayed.runs[r].state \in Ended => Replayed'.runs[r] = Replayed.runs[r]
            BY <1>0, <2>0, <2>3, <3>1, RecordKeeps
        <3> QED  BY <1>0, <3>2 DEF FilesAgree
    <2> QED  BY <1>0, <1>1, <2>2, <2>3 DEF BrokerInv
<1> QED  BY <1>2, <1>3, StopsWith

\* A line that was complete when its append threw is a command the replay accepts.
LEMMA UnsyncedReplays ==
    ASSUME BrokerInv, Replayed.ok, NEW c \in unsynced, Permits(Replayed, c)
    PROVE  Reduce(Replayed, c).ok
<1>1. StateOK(Replayed) /\ CommandOK(c)  BY ReplayedOK DEF BrokerInv, UnsyncedOK
<1> QED  BY <1>1, ReduceKeeps

\* The other steps leave the journal alone, so what holds of it stays.
LEMMA SameJournal ==
    ASSUME BrokerInv, UNCHANGED journal
    PROVE  /\ Replayed' = Replayed /\ RequestsKnown' = RequestsKnown
           /\ \A n : PrefixState(n)' = PrefixState(n)
BY DEF Replayed, PrefixState, RequestsKnown

\* Every step keeps the invariant.
LEMMA NextBrokerInv ==
    ASSUME BrokerInv, [Next]_vars
    PROVE  BrokerInv'
<1>0. StateOK(mem) /\ journal \in Seq(JournalRecords) /\ StateOK(Replayed) /\ Len(journal) \in Nat
    BY ReplayedOK DEF BrokerInv, FilesTyped
<1>1. CASE AppendJournal  BY <1>1, AppendKeeps
<1>2. CASE ReplaceCache
    <2>0. /\ pc = "cache" /\ pc' = "audit" /\ mem' = Reduce(mem, cmd) /\ up' = up
          /\ cache' = [sequence |-> Len(journal), state |-> Reduce(mem, cmd)]
          /\ UNCHANGED <<journal, unsynced, torn, degraded>> /\ CommandOK(cmd) /\ up
        BY <1>2 DEF ReplaceCache, world, BrokerInv, CommandReady
    <2>1. FilesTyped'  BY <1>0, <2>0, ReduceOK DEF BrokerInv, FilesTyped
    <2>2. CommandReady' /\ UnsyncedOK'  BY <2>0 DEF BrokerInv, CommandReady, UnsyncedOK
    <2>3. ASSUME ~degraded PROVE FilesAgree'
        <3>1. FilesAgree /\ mem' = Replayed  BY <2>0, <2>3 DEF BrokerInv, FilesAgree
        <3>2. CacheIsPrefix'
            BY <1>0, <2>0, <3>1 DEF CacheIsPrefix, PrefixState, Replayed
        <3> QED  BY <2>0, <3>1, <3>2, SameJournal DEF FilesAgree
    <2> QED  BY <2>0, <2>1, <2>2, <2>3 DEF BrokerInv
<1>3. CASE CacheFails
    <2>0. pc' = "idle" /\ degraded' = TRUE /\ UNCHANGED <<journal, unsynced, torn, mem>>
        BY <1>3 DEF CacheFails, Throw
    <2> QED  BY <2>0 DEF BrokerInv, FilesTyped, CommandReady, UnsyncedOK
<1>4. CASE ReadFiles \/ AuditUnreadable
    <2>0. /\ UNCHANGED <<journal, unsynced, torn, degraded>> /\ pc = "idle" /\ ~up
          /\ cache' = [sequence |-> Len(journal), state |-> Replayed]
          /\ \/ up' = TRUE /\ mem' = Replayed /\ pc' = "project"
             \/ up' = up /\ mem' = mem /\ pc' = pc
        BY <1>4 DEF ReadFiles, AuditUnreadable, FreshCache, world
    <2>1. FilesTyped'  BY <1>0, <2>0 DEF BrokerInv, FilesTyped
    <2>2. CommandReady' /\ UnsyncedOK'  BY <2>0 DEF BrokerInv, CommandReady, UnsyncedOK
    <2>3. CacheIsPrefix'  BY <1>0, <2>0 DEF CacheIsPrefix, PrefixState, Replayed
    <2>4. ASSUME ~degraded PROVE FilesAgree'
        <3>1. FilesAgree /\ pc' \notin {"append", "cache"} /\ (up' => mem' = Replayed)
            BY <2>0, <2>4 DEF BrokerInv
        <3>2. \A i \in DOMAIN journal' : journal'[i].after.ok  BY <2>0, <3>1 DEF FilesAgree
        <3>3. Replayed' = Replayed /\ RequestsKnown' /\ \A c \in unsynced' : Permits(Replayed, c)
            BY <2>0, <3>1, SameJournal DEF FilesAgree
        <3> QED  BY <2>3, <3>1, <3>2, <3>3 DEF FilesAgree
    <2> QED  BY <2>0, <2>1, <2>2, <2>4 DEF BrokerInv
<1>5. CASE Stop  BY <1>5, StopKeeps
<1>6. CASE Begin
    <2>1. FilesTyped' /\ UnsyncedOK'  BY <1>6 DEF Begin, BrokerInv, FilesTyped, UnsyncedOK
    <2>2. CommandReady'  BY <1>6 DEF Begin, BrokerInv, CommandReady
    <2>3. ASSUME ~degraded PROVE FilesAgree'
        BY <1>6, <2>3, SameJournal DEF Begin, BrokerInv, FilesAgree, CacheIsPrefix, Permits
    <2> QED  BY <1>6, <2>1, <2>2, <2>3 DEF Begin, BrokerInv
<1>7. CASE Quiet
    <2>1. FilesTyped' /\ UnsyncedOK'  BY <1>7 DEF Quiet, BrokerInv, FilesTyped, UnsyncedOK
    <2>2. CommandReady'  BY <1>7 DEF Quiet, BrokerInv, CommandReady
    <2>3. ASSUME ~degraded PROVE FilesAgree'
        BY <1>7, <2>3, SameJournal DEF Quiet, BrokerInv, FilesAgree, CacheIsPrefix
    <2> QED  BY <1>7, <2>1, <2>2, <2>3 DEF Quiet, BrokerInv
<1>8. CASE UNCHANGED vars
    <2>0. UNCHANGED <<journal, unsynced, torn, cache, mem, up, pc, cmd, degraded>>  BY <1>8 DEF vars
    <2>1. FilesTyped' /\ CommandReady' /\ UnsyncedOK'
        BY <2>0 DEF BrokerInv, FilesTyped, CommandReady, UnsyncedOK
    <2>3. ASSUME ~degraded PROVE FilesAgree'
        BY <2>0, <2>3, SameJournal DEF BrokerInv, FilesAgree, CacheIsPrefix
    <2> QED  BY <2>0, <2>1, <2>3 DEF BrokerInv
<1>9. CASE AppendFails
    <2>0. /\ pc = "append" /\ pc' = "idle" /\ up /\ CommandOK(cmd)
          /\ UNCHANGED <<journal, cache, mem, up, degraded>>
          /\ \/ UNCHANGED <<unsynced, torn>>
             \/ unsynced' = {}
             \/ "journal" \notin torn /\ unsynced' = {cmd} /\ UNCHANGED torn
        BY <1>9 DEF AppendFails, Throw, BrokerInv, CommandReady
    <2>1. FilesTyped' /\ CommandReady'  BY <2>0 DEF BrokerInv, FilesTyped, CommandReady
    <2>2. UnsyncedOK'  BY <2>0 DEF BrokerInv, UnsyncedOK
    <2>3. ASSUME ~degraded PROVE FilesAgree'
        <3>1. FilesAgree /\ mem = Replayed /\ Permits(Replayed, cmd)
            BY <2>0, <2>3 DEF BrokerInv, FilesAgree
        <3>2. \A c \in unsynced' : Permits(Replayed, c)  BY <2>0, <3>1 DEF FilesAgree
        <3> QED  BY <2>0, <3>1, <3>2, SameJournal DEF FilesAgree, CacheIsPrefix
    <2> QED  BY <2>0, <2>1, <2>2, <2>3 DEF BrokerInv
<1> QED  BY <1>0, <1>1, <1>2, <1>3, <1>4, <1>5, <1>6, <1>7, <1>8, <1>9, Footprint

\* The invariant holds in every reachable state.
LEMMA InvariantHolds == Spec => []BrokerInv
<1>1. Init => BrokerInv  BY InitBrokerInv
<1>2. BrokerInv /\ [Next]_vars => BrokerInv'  BY NextBrokerInv
<1> QED  BY <1>1, <1>2, PTL DEF Spec

-----------------------------------------------------------------------------
(* The theorems. *)

\* Wherever the process died, an append threw or its fsync failed: as long as the lines of
\* the journal are whole it replays, with the unacknowledged record too, and the cache is
\* the state of a prefix of it, so recoverBrokerStateV4 accepts the files.
THEOREM FilesAreRestartable == Spec => []Restartable
<1>1. BrokerInv => Restartable
    <2> SUFFICES ASSUME BrokerInv, ~degraded, "journal" \notin torn PROVE Restartable  BY DEF Restartable
    <2>1. Replayed.ok  BY ReplayedOK DEF BrokerInv, FilesAgree
    <2>2. Len(journal) \in Nat  BY DEF BrokerInv, FilesTyped
    <2>3. FilesPass  BY <2>1, <2>2 DEF FilesPass, BrokerInv, FilesAgree, CacheIsPrefix
    <2>4. \A c \in unsynced : Reduce(Replayed, c).ok  BY <2>1, UnsyncedReplays DEF BrokerInv, FilesAgree
    <2> QED  BY <2>3, <2>4 DEF Restartable
<1> QED  BY <1>1, InvariantHolds, PTL

\* persist and doRecover leave `state` equal to what the journal replays to, but for at most
\* one command whose append threw after its line was complete.
THEOREM MemoryIsReplay == Spec => []MemoryMatchesJournal
<1>1. BrokerInv => MemoryMatchesJournal
    <2> SUFFICES ASSUME BrokerInv, up, pc # "cache", ~degraded
                 PROVE  /\ mem = Replayed /\ Cardinality(unsynced) <= 1
                        /\ \A c \in unsynced : Reduce(mem, c).ok /\ "journal" \notin torn
        BY DEF MemoryMatchesJournal
    <2>1. mem = Replayed /\ Replayed.ok  BY ReplayedOK DEF BrokerInv, FilesAgree
    <2>2. \A c \in unsynced : Reduce(mem, c).ok /\ "journal" \notin torn
        BY <2>1, UnsyncedReplays DEF BrokerInv, FilesAgree, UnsyncedOK
    <2>3. Cardinality(unsynced) <= 1
        <3>1. CASE unsynced = {}  BY <3>1, FS_EmptySet
        <3>2. CASE unsynced # {}
            <4>1. PICK c \in unsynced : unsynced = {c}  BY <3>2 DEF BrokerInv, UnsyncedOK
            <4> QED  BY <4>1, FS_Singleton
        <3> QED  BY <3>1, <3>2
    <2> QED  BY <2>1, <2>2, <2>3
<1> QED  BY <1>1, InvariantHolds, PTL

\* submit never journals a second run for a request, over retries and restarts.
THEOREM OneRunPerRequest == Spec => []RequestHasOneRun
<1>1. BrokerInv => RequestHasOneRun
    <2> SUFFICES ASSUME BrokerInv, ~degraded, NEW q \in Requests
                 PROVE  Cardinality(Acceptances(q)) <= 1
        BY DEF RequestHasOneRun
    <2>1. \A i, j \in Acceptances(q) : i = j
        BY DEF BrokerInv, FilesAgree, RequestsKnown, Acceptances
    <2>2. CASE Acceptances(q) = {}  BY <2>2, FS_EmptySet
    <2>3. CASE Acceptances(q) # {}
        <3>1. PICK i \in Acceptances(q) : Acceptances(q) = {i}  BY <2>1, <2>3
        <3> QED  BY <3>1, FS_Singleton
    <2> QED  BY <2>2, <2>3
<1> QED  BY <1>1, InvariantHolds, PTL

\* The reducer never lets an executor start or a candidate through without the
\* inspection of the last attempt, nor a commit of another tree than the accepted one.
THEOREM EvidenceIsBound == Spec => []EvidenceBound
<1>1. BrokerInv => EvidenceBound
    <2> SUFFICES ASSUME BrokerInv, NEW i \in DOMAIN journal, NEW r \in Runs
                 PROVE  LET run == journal[i].after.runs[r] IN
                        /\ run.external_process => run.epoch > run.attempts
                        /\ run.tree # None => run.attempts >= 1 /\ run.epoch > run.attempts
                        /\ run.commit # None => run.commit = run.tree
                        /\ run.merged => run.commit # None /\ run.state = "FINALIZED"
        BY DEF EvidenceBound
    <2>1. RunOK(journal[i].after.runs[r])  BY DEF BrokerInv, FilesTyped, StateOK
    <2> QED  BY <2>1 DEF RunOK, InspectionOK, EvidenceOK
<1> QED  BY <1>1, InvariantHolds, PTL

\* A run that ended in the journal never changes again.
THEOREM EndedRunsAreFinal == Spec => EndedIsFinal
<1> DEFINE Final == ~degraded => \A r \in Runs :
                Replayed.runs[r].state \in Ended => Replayed'.runs[r] = Replayed.runs[r]
<1>1. BrokerInv /\ [Next]_vars => [Final]_vars
    <2> SUFFICES ASSUME BrokerInv, Next PROVE Final  OBVIOUS
    <2>1. CASE AppendJournal  BY <2>1, AppendKeeps
    <2>5. CASE Stop  BY <2>5, StopKeeps
    <2>2. CASE UNCHANGED journal  BY <2>2, SameJournal
    <2>3. StateOK(mem)  BY DEF BrokerInv, FilesTyped
    <2>4. AppendFails \/ ReplaceCache \/ CacheFails \/ ReadFiles \/ AuditUnreadable \/ Begin \/ Quiet => UNCHANGED journal
        BY DEF AppendFails, ReplaceCache, CacheFails, ReadFiles, AuditUnreadable, Begin, Quiet
    <2> QED  BY <2>1, <2>2, <2>3, <2>4, <2>5, Footprint
<1> QED  BY <1>1, InvariantHolds, PTL DEF Spec, EndedIsFinal

-----------------------------------------------------------------------------
(* Audit trail, locks and processes. *)

Fields  == {"finished_at", "diff", "capability_snapshot_hash", "prompt"}
Entries == [event : Nat, run : Runs, fields : SUBSET Fields]

\* A snapshot is the position of an entry, or of none.
SnapshotsReal == \A r \in Runs : snapshots[r] \in 0..Len(audit)

\* Where the steps of a recovery are: it holds a position until it ends or throws.
RecoveryPlace ==
    /\ pc \in {"project", "reconcile"} => position > 0
    /\ pc = "idle" => position = 0
    /\ pc = "project" => position <= Len(journal) + 1
    /\ recovered => up /\ position = 0 /\ todo = {}
    /\ position > 0 /\ pc \in {"append", "cache"} => cmd.type = "RUN_FAILED"
    /\ pc \in {"cache", "audit"} => journal # <<>> /\ journal[Len(journal)].cmd = cmd

DaemonTyped == TypeOK /\ SnapshotsReal /\ RecoveryPlace

\* A state shows nothing that a journal lacks.
JournaledIn(j, r, types) == \E i \in DOMAIN j : j[i].cmd.run = r /\ j[i].cmd.type \in types

Backed(j, s) ==
    \A r \in Runs :
        /\ s.runs[r].state # "NONE" => JournaledIn(j, r, {"RUN_ACCEPTED"})
        /\ s.runs[r].state \in Ended => JournaledIn(j, r, EndingTypes)
        /\ s.runs[r].attempts > 0 => JournaledIn(j, r, {"ATTEMPT_RECORDED"})
        /\ s.runs[r].external_process => JournaledIn(j, r, {"EXTERNAL_PROCESS_STARTED"})

AllBacked == Backed(journal, mem) /\ \A i \in DOMAIN journal : Backed(journal, journal[i].after)

\* The events that have been audited are a prefix of the journal.
Audited(n) == \A k \in 1..n : \E i \in DOMAIN audit : audit[i].event = k

AuditReach ==
    IF pc = "project" THEN position - 1
    ELSE IF pc \in {"cache", "audit"} THEN Len(journal) - 1 ELSE Len(journal)

AuditComplete == ~degraded /\ up /\ ~auditFailed => Audited(AuditReach)

\* The recovery took the locks: it is over, or at its external processes.
Holding == recovered \/ (position > 0 /\ pc # "project")

\* A run whose ending is journaled has ended.
EndingsStay ==
    ~degraded => \A i \in DOMAIN journal :
        journal[i].cmd.type \in EndingTypes => Replayed.runs[journal[i].cmd.run].state \in Ended

\* The locks are those of the live runs, but for what the operation in flight adds and
\* has yet to give back.
LocksBalance ==
    Holding /\ ~auditFailed /\ ~degraded =>
        LET live == LiveRuns(mem) IN
        IF pc \in {"append", "cache"} /\ cmd.type = "RUN_ACCEPTED"
        THEN holders = live \cup {Admission} /\ runLocks = live \cup {cmd.run}
        ELSE IF pc = "audit" /\ cmd.type = "RUN_ACCEPTED"
        THEN holders = (live \ {cmd.run}) \cup {Admission} /\ runLocks = live /\ cmd.run \in live
        ELSE IF pc = "audit" /\ cmd.type \in EndingTypes
        THEN holders = live \cup {cmd.run} /\ runLocks = live \cup {cmd.run} /\ cmd.run \notin live
        ELSE holders = live /\ runLocks = live

\* A run that claims a process has one, or is one the recovery is about to fail.
ProcessesKnown ==
    /\ Holding => \A r \in Runs : mem.runs[r].external_process =>
          \/ r \in procs \cup todo
          \/ position > 0 /\ pc \in {"append", "cache"} /\ r = cmd.run
    /\ pc \in {"append", "cache"} /\ cmd.type = "EXTERNAL_PROCESS_STARTED" => cmd.run \in procs

\* What a command of the reducer leaves of its run's history: a run appears by its acceptance,
\* ends by an ending, and has an attempt or a process only by the command that records it.
LEMMA RunAfterTraces ==
    ASSUME NEW run, RunOK(run), NEW c, CommandOK(c), RunPermits(run, c)
    PROVE  LET next == RunAfter(run, c) IN
           /\ run.state # "NONE" /\ run.state \notin Ended /\ next.state # "NONE"
           /\ c.type \in EndingTypes <=> next.state \in Ended
           /\ next.attempts > 0 => run.attempts > 0 \/ c.type = "ATTEMPT_RECORDED"
           /\ next.external_process =>
                (run.external_process /\ c.type # "RUN_FAILED") \/ c.type = "EXTERNAL_PROCESS_STARTED"
<1>0. /\ c.type \in CommandTypes /\ c.type # "RUN_ACCEPTED" /\ run \in RunRecords
      /\ run.state # "NONE" /\ run.state \notin Ended
    BY DEF CommandOK, Commands, RunPermits, ActiveRun, PublicationAllowed, PublicationTypes, RunOK
<1>1. CASE c.type = "ATTEMPT_RECORDED"          BY <1>0, <1>1 DEF RunAfter, EndingTypes, Ended, RunRecords
<1>2. CASE c.type = "PATHS_REINSPECTED"         BY <1>0, <1>2 DEF RunAfter, EndingTypes, Ended, RunRecords
<1>3. CASE c.type = "EXTERNAL_PROCESS_STARTED"  BY <1>0, <1>3 DEF RunAfter, EndingTypes, Ended, RunRecords
<1>4. CASE c.type = "CANDIDATE_ACCEPTED"        BY <1>0, <1>4 DEF RunAfter, EndingTypes, Ended, RunRecords
<1>5. CASE c.type = "REVIEW_VERDICT_RECORDED"   BY <1>0, <1>5 DEF RunAfter, EndingTypes, Ended, RunRecords
<1>6. CASE c.type = "COMMIT_CREATED"            BY <1>0, <1>6 DEF RunAfter, EndingTypes, Ended, RunRecords
<1>7. CASE c.type = "BRANCH_PUSHED"             BY <1>0, <1>7 DEF RunAfter, EndingTypes, Ended, RunRecords
<1>8. CASE c.type = "PULL_REQUEST_RECORDED"     BY <1>0, <1>8 DEF RunAfter, EndingTypes, Ended, RunRecords
<1>9. CASE c.type = "REQUIRED_CHECKS_PASSED"    BY <1>0, <1>9 DEF RunAfter, EndingTypes, Ended, RunRecords
<1>10. CASE c.type = "RUN_MERGED"               BY <1>0, <1>10 DEF RunAfter, EndingTypes, Ended, RunRecords
<1>11. CASE c.type = "PUBLICATION_SKIPPED"      BY <1>0, <1>11 DEF RunAfter, EndingTypes, Ended, RunRecords
<1>12. CASE c.type \in {"RUN_ABORTED", "RUN_FAILED"}
    BY <1>0, <1>12 DEF RunAfter, EndingTypes, Ended, RunRecords
<1> QED  BY <1>0, <1>1, <1>2, <1>3, <1>4, <1>5, <1>6, <1>7, <1>8, <1>9, <1>10, <1>11, <1>12
            DEF CommandTypes, PublicationTypes

\* The same of the whole state: the other runs keep theirs.
LEMMA ReduceTraces ==
    ASSUME NEW s, StateOK(s), NEW c, CommandOK(c), NEW r \in Runs
    PROVE  LET t == Reduce(s, c).runs[r]
               mine == r = c.run
           IN
           /\ t.state # "NONE" => s.runs[r].state # "NONE" \/ (mine /\ c.type = "RUN_ACCEPTED")
           /\ t.state \in Ended => s.runs[r].state \in Ended \/ (mine /\ c.type \in EndingTypes)
           /\ t.attempts > 0 => s.runs[r].attempts > 0 \/ (mine /\ c.type = "ATTEMPT_RECORDED")
           /\ t.external_process => \/ s.runs[r].external_process /\ ~(mine /\ c.type = "RUN_FAILED")
                                    \/ mine /\ c.type = "EXTERNAL_PROCESS_STARTED"
<1>0. c.run \in Runs /\ s \in BrokerStates /\ \A q \in Runs : RunOK(s.runs[q])
    BY DEF CommandOK, Commands, StateOK
<1>1. CASE s.ok /\ Permits(s, c) /\ c.type = "RUN_ACCEPTED"
    <2>1. Reduce(s, c) = [s EXCEPT !.runs[c.run] = AcceptedRun, !.requests[c.arg] = c.run]
        BY <1>1 DEF Reduce, Apply
    <2>2. Reduce(s, c).runs = [s.runs EXCEPT ![c.run] = AcceptedRun]
        BY <1>0, <2>1 DEF BrokerStates
    <2>3. /\ AcceptedRun.state = "READY_FOR_EXECUTOR" /\ AcceptedRun.attempts = 0
          /\ AcceptedRun.external_process = FALSE
        BY DEF AcceptedRun, NoRunYet
    <2>4. s.runs \in [Runs -> RunRecords]  BY <1>0 DEF BrokerStates
    <2>5. Reduce(s, c).runs[r] = IF r = c.run THEN AcceptedRun ELSE s.runs[r]
        BY <1>0, <2>2, <2>4
    <2> QED  BY <1>1, <2>3, <2>5 DEF Ended
<1>2. CASE s.ok /\ Permits(s, c) /\ c.type # "RUN_ACCEPTED"
    <2>1. Reduce(s, c) = [s EXCEPT !.runs[c.run] = RunAfter(s.runs[c.run], c)]
        BY <1>2 DEF Reduce, Apply
    <2>2. s.runs \in [Runs -> RunRecords]  BY <1>0 DEF BrokerStates
    <2>3. Reduce(s, c).runs[r] = IF r = c.run THEN RunAfter(s.runs[c.run], c) ELSE s.runs[r]
        BY <1>0, <2>1, <2>2 DEF BrokerStates
    <2>4. RunPermits(s.runs[c.run], c)  BY <1>2 DEF Permits
    <2>5. CASE r = c.run  BY <1>0, <2>3, <2>4, <2>5, RunAfterTraces
    <2> QED  BY <2>3, <2>5
<1>3. CASE ~(s.ok /\ Permits(s, c))
    <2>1. Reduce(s, c).runs[r] = NoRunYet  BY <1>3 DEF Reduce, Corrupt, initialBrokerState
    <2> QED  BY <2>1 DEF NoRunYet, Ended
<1> QED  BY <1>1, <1>2, <1>3

\* Which runs are alive after a command that is taken.
LEMMA ReduceLives ==
    ASSUME NEW s, StateOK(s), s.ok, NEW c, CommandOK(c), Permits(s, c)
    PROVE  LET live == LiveRuns(Reduce(s, c)) IN
           /\ c.type = "RUN_ACCEPTED" => live = LiveRuns(s) \cup {c.run} /\ c.run \notin LiveRuns(s)
           /\ c.type \in EndingTypes => live = LiveRuns(s) \ {c.run} /\ c.run \in LiveRuns(s)
           /\ c.type # "RUN_ACCEPTED" /\ c.type \notin EndingTypes => live = LiveRuns(s)
<1>0. c.run \in Runs /\ s \in BrokerStates /\ s.runs \in [Runs -> RunRecords] /\ \A q \in Runs : RunOK(s.runs[q])
    BY DEF CommandOK, Commands, StateOK, BrokerStates
<1>1. CASE c.type = "RUN_ACCEPTED"
    <2>1. Reduce(s, c) = [s EXCEPT !.runs[c.run] = AcceptedRun, !.requests[c.arg] = c.run]
        BY <1>1 DEF Reduce, Apply
    <2>2. \A r \in Runs : Reduce(s, c).runs[r] = IF r = c.run THEN AcceptedRun ELSE s.runs[r]
        BY <1>0, <2>1 DEF BrokerStates
    <2>3. ActiveRun(AcceptedRun) /\ ~ActiveRun(s.runs[c.run])
        BY <1>1 DEF ActiveRun, AcceptedRun, NoRunYet, Ended, Permits
    <2> QED  BY <1>0, <1>1, <2>2, <2>3 DEF LiveRuns, EndingTypes
<1>2. CASE c.type # "RUN_ACCEPTED"
    <2>1. Reduce(s, c) = [s EXCEPT !.runs[c.run] = RunAfter(s.runs[c.run], c)]
        BY <1>2 DEF Reduce, Apply
    <2>2. \A r \in Runs : Reduce(s, c).runs[r] = IF r = c.run THEN RunAfter(s.runs[c.run], c) ELSE s.runs[r]
        BY <1>0, <2>1 DEF BrokerStates
    <2>3. RunPermits(s.runs[c.run], c)  BY <1>2 DEF Permits
    <2>4. /\ ActiveRun(s.runs[c.run])
          /\ ActiveRun(RunAfter(s.runs[c.run], c)) <=> c.type \notin EndingTypes
        BY <1>0, <2>3, RunAfterTraces DEF ActiveRun
    <2> QED  BY <1>0, <1>2, <2>2, <2>4 DEF LiveRuns
<1> QED  BY <1>1, <1>2

\* An operation passed the guards of persist; submit took its locks, and an external process
\* is there before it is recorded.
Starts ==
    /\ pc = "idle" /\ up /\ pc' = "append" /\ CommandOK(cmd') /\ Permits(mem, cmd')
    /\ IF cmd'.type = "RUN_ACCEPTED"
       THEN holders' = holders \cup {Admission} /\ runLocks' = runLocks \cup {cmd'.run}
       ELSE UNCHANGED locks
    /\ procs \subseteq procs' /\ procs' \subseteq Runs \cup procs
    /\ cmd'.type = "EXTERNAL_PROCESS_STARTED" => cmd'.run \in procs'
    /\ UNCHANGED <<files, up, mem, snapshots, auditFailed, todo, position, recovered, degraded, stops>>

\* Every operation that persists a command starts the same way.
LEMMA OperationStarts ==
    ASSUME StateOK(mem), Operation
    PROVE  Starts \/ \E r \in Runs : RetryEnding(r) \/ RecordAuditEvidence(r)
<1>0. Trees \subseteq Nat /\ Requests \subseteq Nat /\ 0 \in Nat /\ 1 \in Nat
    BY BrokerSizes DEF Trees, Requests
<1>r. ASSUME NEW c, Record(c), CommandOK(c), c.type # "RUN_ACCEPTED", UNCHANGED procs \/ (procs' = procs \cup {c.run}),
             c.type = "EXTERNAL_PROCESS_STARTED" => c.run \in procs'
      PROVE  Starts
    <2>1. cmd' = c /\ pc' = "append" /\ Permits(mem, c) /\ pc = "idle" /\ up
        BY <1>r DEF Record, Ready, BeginPersist
    <2>2. UNCHANGED <<files, up, mem, snapshots, auditFailed, locks, todo, position, recovered, degraded, stops>>
        BY <1>r DEF Record
    <2>3. c.run \in Runs  BY <1>r DEF CommandOK, Commands
    <2> QED  BY <1>r, <2>1, <2>2, <2>3 DEF Starts
<1>t. \A type, r, a : Command(type, r, a).type = type /\ Command(type, r, a).run = r  BY DEF Command
<1>1. ASSUME NEW q \in Requests, Submit(q) PROVE Starts
    <2>1. PICK c : c = Command("RUN_ACCEPTED", NewRun, q)  OBVIOUS
    <2>2. CommandOK(c) /\ c.type = "RUN_ACCEPTED" /\ c.run = NewRun
        BY <1>0, <1>1, <1>t, <2>1, BuiltCommandOK DEF CommandTypes, Submit
    <2>3. /\ pc = "idle" /\ up /\ cmd' = c /\ pc' = "append" /\ Permits(mem, c)
          /\ holders' = holders \cup {Admission} /\ runLocks' = runLocks \cup {NewRun}
          /\ UNCHANGED <<files, up, mem, snapshots, auditFailed, todo, position, recovered, world>>
        BY <1>1, <2>1 DEF Submit, Ready, BeginPersist
    <2> QED  BY <2>2, <2>3 DEF Starts, world
<1>2. \A r \in Runs : mem.runs[r].attempts + 1 \in Nat /\ mem.runs[r].epoch + 1 \in Nat
    <2>1. \A r \in Runs : mem.runs[r].attempts \in Nat /\ mem.runs[r].epoch \in Nat
        BY DEF StateOK, BrokerStates, RunRecords
    <2> QED  BY <2>1
<1>3. ASSUME NEW r \in Runs, NEW type \in CommandTypes \ {"RUN_ACCEPTED", "EXTERNAL_PROCESS_STARTED"}, NEW a \in Nat,
             type = "CANDIDATE_ACCEPTED" => a \in Trees, Record(Command(type, r, a)), UNCHANGED procs
      PROVE  Starts
    <2>1. CommandOK(Command(type, r, a))  BY <1>3, BuiltCommandOK
    <2> QED  BY <1>3, <1>r, <1>t, <2>1
<1>4. ASSUME NEW r \in Runs, RecordExternalProcessStarted(r) PROVE Starts
    <2>1. CommandOK(Command("EXTERNAL_PROCESS_STARTED", r, 0))  BY <1>0, BuiltCommandOK DEF CommandTypes
    <2>2. Record(Command("EXTERNAL_PROCESS_STARTED", r, 0)) /\ procs' = procs \cup {r}
        BY <1>4 DEF RecordExternalProcessStarted
    <2> QED  BY <2>1, <2>2, <1>r, <1>t
<1>5. ASSUME NEW r \in Runs, RecordAttempt(r) \/ Reinspect(r) \/ RecordFailure(r) \/ RecordAbort(r) PROVE Starts
    <2>1. CASE RecordAttempt(r)  BY <1>2, <1>3, <2>1 DEF RecordAttempt, CommandTypes
    <2>2. CASE Reinspect(r)      BY <1>2, <1>3, <2>2 DEF Reinspect, CommandTypes
    <2>3. CASE RecordFailure(r)  BY <1>0, <1>3, <2>3 DEF RecordFailure, CommandTypes
    <2>4. CASE RecordAbort(r)    BY <1>0, <1>3, <2>4 DEF RecordAbort, CommandTypes
    <2> QED  BY <1>5, <2>1, <2>2, <2>3, <2>4
<1>6. ASSUME NEW r \in Runs, NEW t \in Trees,
             \/ RecordAcceptedCandidate(r, t) \/ RecordReviewVerdict(r, t)
             \/ RecordCommitCreated(r, t) \/ RecordPublication(r, t)
      PROVE  Starts
    <2>0. t \in Nat  BY <1>0
    <2>1. CASE RecordAcceptedCandidate(r, t)  BY <2>0, <1>3, <2>1 DEF RecordAcceptedCandidate, CommandTypes
    <2>2. CASE RecordReviewVerdict(r, t)      BY <2>0, <1>3, <2>2 DEF RecordReviewVerdict, CommandTypes
    <2>3. CASE RecordCommitCreated(r, t)      BY <2>0, <1>3, <2>3 DEF RecordCommitCreated, CommandTypes
    <2>4. CASE RecordPublication(r, t)
        <3>1. PICK type \in PublicationTypes : Record(Command(type, r, t)) /\ UNCHANGED procs
            BY <2>4 DEF RecordPublication
        <3>2. type \in CommandTypes \ {"RUN_ACCEPTED", "EXTERNAL_PROCESS_STARTED"} /\ type # "CANDIDATE_ACCEPTED"
            BY DEF CommandTypes, PublicationTypes
        <3> QED  BY <2>0, <1>3, <3>1, <3>2
    <2> QED  BY <1>6, <2>1, <2>2, <2>3, <2>4
<1> QED  BY <1>1, <1>4, <1>5, <1>6 DEF Operation

\* What AuditTrailV4.append does to the file: an entry more, or the one that is there.
LEMMA AuditAppends ==
    ASSUME audit \in Seq(Entries), NEW e \in Entries, AuditAppend(e)
    PROVE  /\ audit' \in Seq(Entries) /\ Len(audit') \in Nat /\ Len(audit) \in Nat /\ Len(audit) <= Len(audit')
           /\ EntryPosition(e) \in 1..Len(audit') /\ ~auditFailed /\ auditFailed' = auditFailed
           /\ \A i \in 1..Len(audit) : audit'[i] = audit[i]
           /\ \/ audit' = audit /\ \E i \in DOMAIN audit : audit[i].event = e.event
              \/ Len(audit') = Len(audit) + 1 /\ audit'[Len(audit) + 1] = e
<1>0. ~auditFailed /\ auditFailed' = auditFailed /\ Len(audit) \in Nat /\ DOMAIN audit = 1..Len(audit)
    BY DEF AuditAppend
<1>1. CASE EntriesOf(e.event, e.run) = {}
    <2>1. audit' = Append(audit, e) /\ EntryPosition(e) = Len(audit) + 1
        BY <1>1 DEF AuditAppend, EntryPosition
    <2>2. /\ audit' \in Seq(Entries) /\ Len(audit') = Len(audit) + 1 /\ audit'[Len(audit) + 1] = e
          /\ \A i \in 1..Len(audit) : audit'[i] = audit[i]
        BY <1>0, <2>1
    <2>3. Len(audit') \in Nat /\ Len(audit) <= Len(audit') /\ EntryPosition(e) \in 1..Len(audit')
        BY <1>0, <2>1, <2>2
    <2> QED  BY <1>0, <2>2, <2>3
<1>2. CASE EntriesOf(e.event, e.run) # {}
    <2>1. audit' = audit /\ EntryPosition(e) \in EntriesOf(e.event, e.run)
        BY <1>2 DEF AuditAppend, EntryPosition
    <2>2. EntryPosition(e) \in DOMAIN audit /\ audit[EntryPosition(e)].event = e.event
        BY <2>1 DEF EntriesOf
    <2>3. EntryPosition(e) \in 1..Len(audit') /\ Len(audit) <= Len(audit')  BY <1>0, <2>1, <2>2
    <2> QED  BY <1>0, <2>1, <2>2, <2>3
<1> QED  BY <1>1, <1>2

\* The latest entry of a run, when it has one.
LEMMA LatestIsAnEntry ==
    ASSUME audit \in Seq(Entries), NEW r \in Runs
    PROVE  LatestEntry(r) \in 0..Len(audit)
<1> DEFINE S == {i \in DOMAIN audit : audit[i].run = r}
           Above == {n \in Nat : \A i \in S : i <= n}
<1>0. Len(audit) \in Nat /\ DOMAIN audit = 1..Len(audit) /\ S \subseteq 1..Len(audit)  OBVIOUS
<1>1. CASE S = {}  BY <1>0, <1>1 DEF LatestEntry
<1>2. CASE S # {}
    <2>1. Len(audit) \in Above /\ Above \subseteq Nat /\ Above # {}  BY <1>0
    <2>2. PICK m \in Above : \A n \in Above : <<n, m>> \notin OpToRel(<, Nat)
        BY <2>1, NatLessThanWellFounded, WFMin
    <2>3. \A n \in Above : ~(n < m)  BY <2>1, <2>2 DEF OpToRel
    <2>4. m \in S
        <3> SUFFICES ASSUME m \notin S PROVE FALSE  OBVIOUS
        <3>1. m \in Nat /\ \A i \in S : i <= m /\ i # m /\ i \in Nat /\ i >= 1  BY <1>0, <2>1
        <3>2. m > 0  BY <1>2, <3>1
        <3>3. m - 1 \in Above  BY <3>1, <3>2
        <3> QED  BY <2>3, <3>1, <3>3
    <2>5. \E i \in S : \A j \in S : j <= i  BY <2>4
    <2>6. LatestEntry(r) = CHOOSE i \in S : \A j \in S : j <= i  BY <1>2 DEF LatestEntry
    <2>7. LatestEntry(r) \in S  BY <2>5, <2>6
    <2> QED  BY <1>0, <2>7
<1> QED  BY <1>1, <1>2

\* What is projected to the audit trail is an entry.
LEMMA ProjectedTyped ==
    ASSUME audit \in Seq(Entries), SnapshotsReal
    PROVE  /\ \A r \in Runs : PreviousFields(r) \subseteq Fields /\ EvidenceEntry(r) \in Entries
           /\ \A n \in Nat, c \in Commands, s \in BrokerStates : Entry(n, c.run, ProjectedFields(c, s)) \in Entries
<1>0. Len(audit) \in Nat /\ \A i \in 1..Len(audit) : audit[i] \in Entries  OBVIOUS
<1>1. ASSUME NEW r \in Runs PROVE PreviousFields(r) \subseteq Fields
    <2>1. CASE snapshots[r] = 0  BY <2>1 DEF PreviousFields
    <2>2. CASE snapshots[r] # 0
        <3>1. snapshots[r] \in 1..Len(audit)  BY <1>0, <2>2 DEF SnapshotsReal
        <3> QED  BY <1>0, <2>2, <3>1 DEF PreviousFields, Entries
    <2> QED  BY <2>1, <2>2
<1>2. ASSUME NEW r \in Runs PROVE EvidenceEntry(r) \in Entries
    <2>1. PreviousFields(r) \cup {"prompt"} \subseteq Fields /\ EvidenceEvent \in Nat  BY <1>1 DEF Fields, EvidenceEvent
    <2> QED  BY <2>1 DEF EvidenceEntry, Entry, Entries
<1>3. ASSUME NEW n \in Nat, NEW c \in Commands, NEW s \in BrokerStates
      PROVE  Entry(n, c.run, ProjectedFields(c, s)) \in Entries
    <2>1. c.run \in Runs  BY DEF Commands
    <2>2. PreviousFields(c.run) \subseteq Fields  BY <1>1, <2>1
    <2>3. ProjectedFields(c, s) \subseteq Fields  BY <2>2 DEF ProjectedFields, Fields
    <2> HIDE DEF ProjectedFields
    <2> QED  BY <2>1, <2>3 DEF Entry, Entries
<1> QED  BY <1>1, <1>2, <1>3

Labels == {"idle", "append", "cache", "audit", "project", "reconcile"}

\* Every step keeps the types, the snapshots and the place of the recovery.
LEMMA DaemonTypedStep ==
    ASSUME BrokerInv, DaemonTyped, [Next]_vars
    PROVE  DaemonTyped'
<1>b. StateOK(mem) /\ BrokerInv'  BY NextBrokerInv DEF BrokerInv, FilesTyped
<1>t. /\ journal \in Seq(JournalRecords) /\ Len(journal) \in Nat
      /\ unsynced \subseteq Commands /\ torn \subseteq {"journal", "audit"}
      /\ up \in BOOLEAN /\ auditFailed \in BOOLEAN /\ recovered \in BOOLEAN /\ degraded \in BOOLEAN
      /\ cache \in [sequence : Nat, state : BrokerStates] /\ audit \in Seq(Entries) /\ mem \in BrokerStates
      /\ snapshots \in [Runs -> Nat] /\ SnapshotsReal
      /\ holders \subseteq Runs \cup {Admission} /\ runLocks \subseteq Runs
      /\ pc \in Labels /\ cmd \in Commands /\ todo \subseteq Runs /\ position \in Nat
      /\ procs \subseteq Runs /\ stops \in 0..MaxStops
    BY DEF DaemonTyped, TypeOK, JournalRecords, Entries, Fields, Labels
<1>r. /\ pc \in {"project", "reconcile"} => position > 0
      /\ pc = "idle" => position = 0
      /\ pc = "project" => position <= Len(journal) + 1
      /\ recovered => up /\ position = 0 /\ todo = {}
      /\ position > 0 /\ pc \in {"append", "cache"} => cmd.type = "RUN_FAILED"
      /\ pc \in {"cache", "audit"} => journal # <<>> /\ journal[Len(journal)].cmd = cmd
    BY DEF DaemonTyped, RecoveryPlace
<1>q. ASSUME /\ torn' \subseteq {"journal", "audit"} /\ up' \in BOOLEAN /\ auditFailed' \in BOOLEAN /\ recovered' \in BOOLEAN
             /\ degraded' \in BOOLEAN /\ cache' \in [sequence : Nat, state : BrokerStates] /\ audit' \in Seq(Entries)
             /\ snapshots' \in [Runs -> Nat] /\ (\A r \in Runs : snapshots'[r] \in 0..Len(audit'))
             /\ holders' \subseteq Runs \cup {Admission} /\ runLocks' \subseteq Runs
             /\ pc' \in Labels /\ cmd' \in Commands /\ todo' \subseteq Runs /\ position' \in Nat
             /\ procs' \subseteq Runs /\ stops' \in 0..MaxStops,
             RecoveryPlace'
      PROVE  DaemonTyped'
    <2>1. /\ journal' \in Seq([cmd : Commands, after : BrokerStates]) /\ mem' \in BrokerStates
          /\ unsynced' \subseteq Commands
        BY <1>b DEF BrokerInv, FilesTyped, JournalRecords, StateOK, UnsyncedOK, CommandOK
    <2> QED  BY <1>q, <2>1 DEF DaemonTyped, TypeOK, SnapshotsReal, Entries, Fields, Labels
<1>s. \A r \in Runs : snapshots[r] \in 0..Len(audit)  BY <1>t DEF SnapshotsReal
<1>n. NoCommand \in Commands /\ NoCommand.type = "RUN_FAILED"
    BY BrokerSizes DEF NoCommand, Command, Commands, CommandTypes, Runs
<1>l. {"idle", "append", "cache", "audit", "project", "reconcile"} = Labels  BY DEF Labels
<1>c. ASSUME NEW c, CommandOK(c), NEW s, StateOK(s)
      PROVE  [sequence |-> Len(journal), state |-> Reduce(s, c)] \in [sequence : Nat, state : BrokerStates]
    <2>1. Reduce(s, c) \in BrokerStates  BY <1>c, ReduceOK DEF StateOK
    <2> QED  BY <1>t, <2>1
<1>cmd. pc \in {"append", "cache"} => CommandOK(cmd)  BY DEF BrokerInv, CommandReady
<1>rel. ASSUME ReleaseFailed PROVE holders' \subseteq Runs \cup {Admission} /\ runLocks' \subseteq Runs
    BY <1>rel, <1>t DEF ReleaseFailed, locks
<1>k. ASSUME NEW e \in Entries, AuditAppend(e), KeepLatest(e)
      PROVE  /\ audit' \in Seq(Entries) /\ snapshots' \in [Runs -> Nat] /\ auditFailed' = auditFailed
             /\ \A r \in Runs : snapshots'[r] \in 0..Len(audit')
    <2>1. /\ audit' \in Seq(Entries) /\ Len(audit') \in Nat /\ Len(audit) \in Nat /\ Len(audit) <= Len(audit')
          /\ EntryPosition(e) \in 1..Len(audit') /\ auditFailed' = auditFailed
        BY <1>k, <1>t, AuditAppends
    <2>2. \A r \in Runs : snapshots[r] \in 0..Len(audit')  BY <1>s, <2>1
    <2>3. \A r \in Runs : snapshots'[r] = snapshots[r] \/ snapshots'[r] = EntryPosition(e)
        BY <1>k, <1>t DEF KeepLatest
    <2>4. \A r \in Runs : snapshots'[r] \in 0..Len(audit')  BY <2>1, <2>2, <2>3
    <2>5. DOMAIN snapshots' = Runs /\ snapshots' = [r \in Runs |-> snapshots'[r]]  BY <1>k, <1>t DEF KeepLatest
    <2>6. \A r \in Runs : snapshots'[r] \in Nat  BY <2>1, <2>4
    <2> QED  BY <2>1, <2>4, <2>5, <2>6
<1>th. ASSUME NEW e \in Entries, AuditThrows(e)
       PROVE  /\ audit' \in Seq(Entries) /\ snapshots' = snapshots /\ auditFailed' \in BOOLEAN
              /\ torn' \subseteq {"journal", "audit"} /\ \A r \in Runs : snapshots'[r] \in 0..Len(audit')
    <2>1. /\ audit' = audit \/ audit' = Append(audit, e)
          /\ snapshots' = snapshots /\ auditFailed' \in BOOLEAN /\ torn' \subseteq {"journal", "audit"}
        BY <1>th, <1>t, AuditThrowsFrame
    <2>2. audit \in Seq(Entries) /\ Len(audit) \in Nat  BY <1>t
    <2>3. audit' \in Seq(Entries) /\ Len(audit') \in Nat /\ Len(audit) <= Len(audit')
        <3>1. CASE audit' = audit  BY <2>2, <3>1
        <3>2. CASE audit' = Append(audit, e)
            <4>1. Append(audit, e) \in Seq(Entries) /\ Len(Append(audit, e)) = Len(audit) + 1
                BY ONLY <2>2, e \in Entries
            <4> QED  BY ONLY <2>2, <3>2, <4>1
        <3> QED  BY <2>1, <3>1, <3>2
    <2>4. \A n \in 0..Len(audit) : n \in 0..Len(audit')  BY ONLY <2>2, <2>3
    <2>5. \A r \in Runs : snapshots'[r] \in 0..Len(audit')  BY <1>s, <2>1, <2>4
    <2> QED  BY <2>1, <2>3, <2>5
<1>1. CASE AppendJournal
    <2>0. /\ pc = "append" /\ pc' = "cache" /\ CommandOK(cmd)
          /\ journal' = Append(journal, [cmd |-> cmd, after |-> Reduce(Replayed, cmd)])
          /\ torn' \in {torn, torn \cup {"journal"}}
          /\ UNCHANGED <<cache, audit, snapshots, auditFailed, up, holders, runLocks, cmd, todo, position, recovered,
                         degraded, procs, stops>>
        BY <1>1, <1>cmd DEF AppendJournal, RecordOf, trail, locks, world
    <2>1. journal' # <<>> /\ journal'[Len(journal')].cmd = cmd  BY <1>t, <2>0
    <2>2. RecoveryPlace'  BY <1>r, <1>t, <2>0, <2>1 DEF RecoveryPlace
    <2> QED  BY <1>q, <1>t, <1>s, <1>l, <2>0, <2>2
<1>2. CASE AppendFails \/ CacheFails \/ ProjectionFails
    <2>0. /\ pc' = "idle" /\ cmd' = NoCommand /\ todo' = {} /\ position' = 0 /\ UNCHANGED <<journal, snapshots>>
          /\ UNCHANGED <<up, recovered, procs, stops>> /\ pc # "idle" /\ ReleaseFailed
        BY <1>2 DEF AppendFails, CacheFails, ProjectionFails, Throw, trail, AuditThrows
    <2>a. audit' \in Seq(Entries) /\ \A r \in Runs : snapshots'[r] \in 0..Len(audit')
        <3>1. CASE AppendFails \/ CacheFails  BY <1>t, <1>s, <3>1 DEF AppendFails, CacheFails, trail
        <3>2. CASE ProjectionFails
            <4>1. EventEntry \in Entries  BY <1>t, ProjectedTyped DEF EventEntry
            <4> QED  BY <1>th, <3>2, <4>1 DEF ProjectionFails
        <3> QED  BY <1>2, <3>1, <3>2
    <2>1. cache' \in [sequence : Nat, state : BrokerStates]
        <3>1. CASE AppendFails \/ ProjectionFails  BY <1>t, <3>1 DEF AppendFails, ProjectionFails
        <3>2. CASE CacheFails  BY <1>b, <1>c, <1>cmd, <1>t, <3>2 DEF CacheFails
        <3> QED  BY <1>2, <3>1, <3>2
    <2>2. torn' \subseteq {"journal", "audit"} /\ auditFailed' \in BOOLEAN /\ degraded' \in BOOLEAN
        BY <1>2, <1>t, AuditThrowsFrame DEF AppendFails, CacheFails, ProjectionFails, trail
    <2>3. RecoveryPlace'  BY <1>r, <2>0 DEF RecoveryPlace
    <2> QED  BY <1>q, <1>t, <1>l, <1>n, <1>rel, <2>0, <2>a, <2>1, <2>2, <2>3
<1>3. CASE ReplaceCache
    <2>0. /\ pc = "cache" /\ pc' = "audit" /\ CommandOK(cmd)
          /\ cache' = [sequence |-> Len(journal), state |-> Reduce(mem, cmd)]
          /\ UNCHANGED <<journal, torn, audit, snapshots, auditFailed, up, holders, runLocks, cmd, todo, position, recovered,
                         degraded, procs, stops>>
        BY <1>3, <1>cmd DEF ReplaceCache, trail, locks, world
    <2>1. cache' \in [sequence : Nat, state : BrokerStates]  BY <1>b, <1>c, <2>0
    <2>2. RecoveryPlace'  BY <1>r, <2>0 DEF RecoveryPlace
    <2> QED  BY <1>q, <1>t, <1>s, <1>l, <2>0, <2>1, <2>2
<1>4. CASE FinishPersist
    <2>0. /\ pc = "audit" /\ pc' = (IF position = 0 THEN "idle" ELSE "reconcile") /\ cmd' = NoCommand
          /\ AuditAppend(EventEntry) /\ KeepLatest(EventEntry) /\ ReleaseDone
          /\ UNCHANGED <<journal, torn, cache, up, mem, todo, position, recovered, degraded, procs, stops>>
        BY <1>4 DEF FinishPersist, world
    <2>1. EventEntry \in Entries  BY <1>t, ProjectedTyped DEF EventEntry
    <2>2. cmd.run \in Runs  BY <1>t DEF Commands
    <2>3. holders' \subseteq Runs \cup {Admission} /\ runLocks' \subseteq Runs
        <3>1. CASE cmd.type = "RUN_ACCEPTED"  BY <1>t, <2>0, <2>2, <3>1 DEF ReleaseDone, EndingTypes
        <3>2. CASE cmd.type \in EndingTypes   BY <1>t, <2>0, <2>2, <3>2 DEF ReleaseDone, EndingTypes
        <3>3. CASE cmd.type # "RUN_ACCEPTED" /\ cmd.type \notin EndingTypes
            BY <1>t, <2>0, <3>3 DEF ReleaseDone, EndingTypes, locks
        <3> QED  BY <3>1, <3>2, <3>3
    <2>4. pc' \in Labels  BY <2>0, <1>l
    <2>5. RecoveryPlace'
        <3>1. pc' = "reconcile" => position' > 0  BY <1>t, <2>0
        <3> QED  BY <1>r, <2>0, <3>1 DEF RecoveryPlace
    <2> QED  BY <1>q, <1>t, <1>k, <1>n, <2>0, <2>1, <2>3, <2>4, <2>5
<1>5. CASE ReadFiles
    <2>0. /\ pc = "idle" /\ ~up /\ up' = TRUE /\ pc' = "project" /\ position' = 1
          /\ cache' = [sequence |-> Len(journal), state |-> Replayed]
          /\ snapshots' = [r \in Runs |-> LatestEntry(r)]
          /\ UNCHANGED <<journal, torn, audit, auditFailed, holders, runLocks, cmd, todo, recovered, degraded, procs, stops>>
        BY <1>5 DEF ReadFiles, FreshCache, locks, world
    <2>1. Replayed \in BrokerStates  BY ReplayedOK DEF BrokerInv, StateOK
    <2>2. cache' \in [sequence : Nat, state : BrokerStates]  BY <1>t, <2>0, <2>1
    <2>3. \A r \in Runs : LatestEntry(r) \in 0..Len(audit)  BY <1>t, LatestIsAnEntry
    <2>4. Len(audit) \in Nat  BY <1>t
    <2>5. snapshots' \in [Runs -> Nat] /\ \A r \in Runs : snapshots'[r] \in 0..Len(audit')  BY <2>0, <2>3, <2>4
    <2>6. RecoveryPlace'  BY <1>r, <1>t, <2>0 DEF RecoveryPlace
    <2> QED  BY <1>q, <1>t, <1>l, <2>0, <2>2, <2>5, <2>6
<1>6. CASE ProjectRecorded
    <2>0. /\ pc = "project" /\ pc' = pc /\ position <= Len(journal) /\ position' = position + 1
          /\ AuditAppend(RecordedEntry) /\ KeepLatest(RecordedEntry)
          /\ UNCHANGED <<journal, torn, cache, up, holders, runLocks, cmd, todo, recovered, degraded, procs, stops>>
        BY <1>6 DEF ProjectRecorded, locks, world
    <2>1. position \in 1..Len(journal)  BY <1>r, <1>t, <2>0
    <2>2. journal[position] \in JournalRecords  BY <1>t, <2>1
    <2>3. journal[position].cmd \in Commands /\ journal[position].after \in BrokerStates  BY <2>2 DEF JournalRecords
    <2>4. RecordedEntry \in Entries  BY <1>t, <2>3, ProjectedTyped DEF RecordedEntry
    <2>5. position' \in Nat /\ position' > 0 /\ position' <= Len(journal) + 1  BY <1>t, <2>0, <2>1
    <2>6. RecoveryPlace'  BY <1>r, <2>0, <2>1, <2>5 DEF RecoveryPlace
    <2> QED  BY <1>q, <1>t, <1>k, <2>0, <2>4, <2>5, <2>6
<1>7. CASE LocksBusy
    <2>0. /\ pc' = "idle" /\ cmd' = NoCommand /\ todo' = {} /\ position' = 0
          /\ UNCHANGED <<journal, torn, cache, audit, snapshots, auditFailed, holders, runLocks, degraded, up, recovered, procs, stops>>
        BY <1>7 DEF LocksBusy, Throw, files, locks
    <2>1. RecoveryPlace'  BY <1>r, <2>0 DEF RecoveryPlace
    <2> QED  BY <1>q, <1>t, <1>s, <1>l, <1>n, <2>0, <2>1
<1>18. CASE ProjectRecordedFails
    <2>0. /\ pc' = "idle" /\ cmd' = NoCommand /\ todo' = {} /\ position' = 0 /\ AuditThrows(RecordedEntry)
          /\ pc = "project" /\ position <= Len(journal)
          /\ UNCHANGED <<journal, cache, holders, runLocks, degraded, up, recovered, procs, stops>>
        BY <1>18 DEF ProjectRecordedFails, Throw, locks
    <2>1. RecoveryPlace'  BY <1>r, <2>0 DEF RecoveryPlace
    <2>2. position \in 1..Len(journal)  BY <1>r, <1>t, <2>0
    <2>3. journal[position] \in JournalRecords  BY <1>t, <2>2
    <2>4. RecordedEntry \in Entries  BY <1>t, <2>3, ProjectedTyped DEF RecordedEntry, JournalRecords
    <2> QED  BY <1>q, <1>t, <1>l, <1>n, <1>th, <2>0, <2>1, <2>4
<1>19. CASE AuditUnreadable
    <2>0. /\ cache' = [sequence |-> Len(journal), state |-> Replayed]
          /\ UNCHANGED <<journal, torn, audit, snapshots, auditFailed, up, holders, runLocks, pc, cmd, todo, position,
                         recovered, degraded, procs, stops>>
        BY <1>19 DEF AuditUnreadable, FreshCache, trail, locks, world
    <2>1. Replayed \in BrokerStates  BY ReplayedOK DEF BrokerInv, StateOK
    <2>2. cache' \in [sequence : Nat, state : BrokerStates]  BY <1>t, <2>0, <2>1
    <2>3. RecoveryPlace'  BY <1>r, <2>0 DEF RecoveryPlace
    <2> QED  BY <1>q, <1>t, <1>s, <2>0, <2>2, <2>3
<1>8. CASE AcquireLocks
    <2>0. /\ pc = "project" /\ pc' = "reconcile" /\ holders' = LiveRuns(mem) /\ runLocks' = LiveRuns(mem)
          /\ todo' = {r \in LiveRuns(mem) : mem.runs[r].external_process}
          /\ UNCHANGED <<journal, torn, cache, audit, up, snapshots, auditFailed, cmd, position, recovered, degraded, procs, stops>>
        BY <1>8 DEF AcquireLocks, files, world
    <2>1. LiveRuns(mem) \subseteq Runs  BY DEF LiveRuns
    <2>2. ~recovered  BY <1>r, <1>t, <2>0
    <2>3. RecoveryPlace'  BY <1>r, <2>0, <2>2 DEF RecoveryPlace
    <2> QED  BY <1>q, <1>t, <1>s, <1>l, <2>0, <2>1, <2>3
<1>9. ASSUME NEW r \in Runs, KeepProcess(r) PROVE DaemonTyped'
    <2>0. /\ pc = "reconcile" /\ todo' = todo \ {r} /\ pc' = pc
          /\ UNCHANGED <<journal, torn, cache, audit, up, snapshots, auditFailed, holders, runLocks, cmd, position, recovered,
                         degraded, procs, stops>>
        BY <1>9 DEF KeepProcess, files, locks, world
    <2>1. RecoveryPlace'  BY <1>r, <2>0 DEF RecoveryPlace
    <2> QED  BY <1>q, <1>t, <1>s, <2>0, <2>1
<1>10. ASSUME NEW r \in Runs, FailProcess(r) PROVE DaemonTyped'
    <2>0. /\ pc = "reconcile" /\ todo' = todo \ {r} /\ pc' = "append" /\ cmd' = Command("RUN_FAILED", r, 0)
          /\ UNCHANGED <<journal, torn, cache, audit, up, snapshots, auditFailed, holders, runLocks, position, recovered,
                         degraded, procs, stops>>
        BY <1>10 DEF FailProcess, BeginPersist, files, locks, world
    <2>1. cmd' \in Commands /\ cmd'.type = "RUN_FAILED"  BY <2>0 DEF Command, Commands, CommandTypes
    <2>2. RecoveryPlace'  BY <1>r, <2>0, <2>1 DEF RecoveryPlace
    <2> QED  BY <1>q, <1>t, <1>s, <1>l, <2>0, <2>1, <2>2
<1>11. CASE EndRecovery
    <2>0. /\ pc = "reconcile" /\ todo = {} /\ recovered' = TRUE /\ pc' = "idle" /\ position' = 0
          /\ UNCHANGED <<journal, torn, cache, audit, up, snapshots, auditFailed, holders, runLocks, cmd, todo,
                         degraded, procs, stops>>
        BY <1>11 DEF EndRecovery, files, locks, world
    <2>1. up  BY <2>0 DEF BrokerInv, CommandReady
    <2>2. RecoveryPlace'  BY <2>0, <2>1 DEF RecoveryPlace
    <2> QED  BY <1>q, <1>t, <1>s, <1>l, <2>0, <2>2
<1>12. CASE Starts
    <2>0. /\ pc = "idle" /\ pc' = "append" /\ CommandOK(cmd') /\ procs' \subseteq Runs \cup procs
          /\ UNCHANGED <<journal, torn, cache, audit, up, snapshots, auditFailed, todo, position, recovered, degraded, stops>>
        BY <1>12 DEF Starts, files
    <2>1. cmd' \in Commands /\ cmd'.run \in Runs  BY <2>0 DEF CommandOK, Commands
    <2>2. holders' \subseteq Runs \cup {Admission} /\ runLocks' \subseteq Runs
        BY <1>12, <1>t, <2>1 DEF Starts, locks
    <2>3. RecoveryPlace'  BY <1>r, <1>t, <2>0 DEF RecoveryPlace
    <2> QED  BY <1>q, <1>t, <1>s, <1>l, <2>0, <2>1, <2>2, <2>3
<1>13. ASSUME NEW r \in Runs, RetryEnding(r) PROVE DaemonTyped'
    <2>0. /\ holders' = holders \ {r} /\ runLocks' = runLocks \ {r}
          /\ UNCHANGED <<journal, torn, cache, audit, up, snapshots, auditFailed, pc, cmd, todo, position, recovered,
                         degraded, procs, stops>>
        BY <1>13 DEF RetryEnding, files, world
    <2>1. RecoveryPlace'  BY <1>r, <2>0 DEF RecoveryPlace
    <2> QED  BY <1>q, <1>t, <1>s, <2>0, <2>1
<1>14. ASSUME NEW r \in Runs, RecordAuditEvidence(r) PROVE DaemonTyped'
    <2>0. /\ UNCHANGED <<journal, cache, up, holders, runLocks, pc, cmd, todo, position, recovered, degraded, procs, stops>>
          /\ \/ /\ AuditAppend(EvidenceEntry(r)) /\ torn' = torn
                /\ snapshots' = [snapshots EXCEPT ![r] = EntryPosition(EvidenceEntry(r))]
             \/ AuditThrows(EvidenceEntry(r))
        BY <1>14 DEF RecordAuditEvidence, locks, world
    <2>1. EvidenceEntry(r) \in Entries  BY <1>t, ProjectedTyped
    <2>2. /\ audit' \in Seq(Entries) /\ snapshots' \in [Runs -> Nat] /\ auditFailed' \in BOOLEAN
          /\ torn' \subseteq {"journal", "audit"}
          /\ \A s \in Runs : snapshots'[s] \in 0..Len(audit')
        <3>1. CASE AuditThrows(EvidenceEntry(r))  BY <1>t, <1>th, <2>1, <3>1
        <3>2. CASE /\ AuditAppend(EvidenceEntry(r)) /\ torn' = torn
                   /\ snapshots' = [snapshots EXCEPT ![r] = EntryPosition(EvidenceEntry(r))]
            <4>1. PICK n : n = EntryPosition(EvidenceEntry(r))  OBVIOUS
            <4>2. /\ audit' \in Seq(Entries) /\ Len(audit') \in Nat /\ Len(audit) \in Nat /\ Len(audit) <= Len(audit')
                  /\ n \in 1..Len(audit') /\ auditFailed' = auditFailed
                BY <1>t, <2>1, <3>2, <4>1, AuditAppends
            <4>3. snapshots' = [snapshots EXCEPT ![r] = n]  BY <3>2, <4>1
            <4>4. snapshots' \in [Runs -> Nat]  BY <1>t, <4>2, <4>3
            <4>5. \A s \in Runs : snapshots'[s] = snapshots[s] \/ snapshots'[s] = n  BY <1>t, <4>3
            <4>6. \A s \in Runs : snapshots'[s] \in 0..Len(audit')  BY <1>s, <4>2, <4>5
            <4>7. torn' \subseteq {"journal", "audit"} /\ auditFailed' \in BOOLEAN  BY <1>t, <3>2, <4>2
            <4> QED  BY <4>2, <4>4, <4>6, <4>7
        <3> QED  BY <2>0, <3>1, <3>2
    <2>3. RecoveryPlace'  BY <1>r, <2>0 DEF RecoveryPlace
    <2> QED  BY <1>q, <1>t, <2>0, <2>2, <2>3
<1>15. CASE Stop
    <2>0. /\ stops < MaxStops /\ up' = FALSE /\ snapshots' = [r \in Runs |-> 0] /\ auditFailed' = FALSE
          /\ holders' = {} /\ runLocks' = {} /\ pc' = "idle" /\ cmd' = NoCommand /\ todo' = {} /\ position' = 0
          /\ recovered' = FALSE /\ procs' \in SUBSET procs /\ stops' = stops + 1
          /\ UNCHANGED <<cache, audit, degraded>>
        BY <1>15 DEF Stop
    <2>a. torn' \subseteq {"journal", "audit"}
        <3>1. BeingWritten \subseteq {"journal", "audit"}  BY DEF BeingWritten
        <3>2. torn' \in {torn} \cup {torn \cup {f} : f \in BeingWritten}  BY <1>15 DEF Stop
        <3> QED  BY <1>t, <3>1, <3>2
    <2>1. stops' \in 0..MaxStops  BY <1>t, <2>0, BrokerBounds
    <2>2. RecoveryPlace'  BY <2>0 DEF RecoveryPlace
    <2>3. Len(audit) \in Nat  BY <1>t
    <2>4. \A r \in Runs : snapshots'[r] \in 0..Len(audit')  BY <2>0, <2>3
    <2> QED  BY <1>q, <1>t, <1>l, <1>n, <2>0, <2>a, <2>1, <2>2, <2>4
<1>16. CASE UNCHANGED vars
    <2>0. UNCHANGED <<journal, torn, cache, audit, up, mem, snapshots, auditFailed, holders, runLocks,
                      pc, cmd, todo, position, recovered, degraded, procs, stops>>
        BY <1>16 DEF vars
    <2>1. RecoveryPlace'  BY <1>r, <2>0 DEF RecoveryPlace
    <2> QED  BY <1>q, <1>t, <1>s, <2>0, <2>1
<1>17. CASE Operation  BY <1>b, <1>12, <1>13, <1>14, <1>17, OperationStarts
<1> QED  BY <1>1, <1>2, <1>3, <1>4, <1>5, <1>6, <1>7, <1>8, <1>9, <1>10, <1>11, <1>15, <1>16, <1>17, <1>18, <1>19
            DEF Next, PersistStep, RecoveryStep

\* A longer journal backs what a shorter one does.
LEMMA BackedGrows ==
    ASSUME NEW j, NEW k, DOMAIN j \subseteq DOMAIN k, \A i \in DOMAIN j : k[i] = j[i], NEW s, Backed(j, s)
    PROVE  Backed(k, s)
<1>1. \A r, types : JournaledIn(j, r, types) => JournaledIn(k, r, types)  BY DEF JournaledIn
<1> QED  BY <1>1 DEF Backed

\* A command that is journaled backs what it changes.
LEMMA BackedReduce ==
    ASSUME NEW j, NEW s, StateOK(s), Backed(j, s), NEW c, CommandOK(c), \E i \in DOMAIN j : j[i].cmd = c
    PROVE  Backed(j, Reduce(s, c))
<1>1. \A types : c.type \in types => JournaledIn(j, c.run, types)  BY DEF JournaledIn
<1> SUFFICES ASSUME NEW r \in Runs
             PROVE  LET t == Reduce(s, c).runs[r] IN
                    /\ t.state # "NONE" => JournaledIn(j, r, {"RUN_ACCEPTED"})
                    /\ t.state \in Ended => JournaledIn(j, r, EndingTypes)
                    /\ t.attempts > 0 => JournaledIn(j, r, {"ATTEMPT_RECORDED"})
                    /\ t.external_process => JournaledIn(j, r, {"EXTERNAL_PROCESS_STARTED"})
    BY DEF Backed
<1>2. /\ s.runs[r].state # "NONE" => JournaledIn(j, r, {"RUN_ACCEPTED"})
      /\ s.runs[r].state \in Ended => JournaledIn(j, r, EndingTypes)
      /\ s.runs[r].attempts > 0 => JournaledIn(j, r, {"ATTEMPT_RECORDED"})
      /\ s.runs[r].external_process => JournaledIn(j, r, {"EXTERNAL_PROCESS_STARTED"})
    BY DEF Backed
<1> QED  BY <1>1, <1>2, ReduceTraces

\* An empty state shows nothing.
LEMMA BackedEmpty == ASSUME NEW j PROVE Backed(j, initialBrokerState)
BY DEF Backed, initialBrokerState, NoRunYet, Ended

\* No step shows what is not durable, whatever failed before it.
LEMMA AllBackedStep ==
    ASSUME BrokerInv, DaemonTyped, AllBacked, [Next]_vars
    PROVE  AllBacked'
<1>0. /\ journal \in Seq(JournalRecords) /\ StateOK(mem) /\ StateOK(Replayed) /\ Len(journal) \in Nat
      /\ DOMAIN journal = 1..Len(journal) /\ Backed(journal, mem)
      /\ \A i \in DOMAIN journal : Backed(journal, journal[i].after)
    BY ReplayedOK DEF BrokerInv, FilesTyped, AllBacked
<1>r. Backed(journal, Replayed)
    <2>1. CASE journal = <<>>  BY <2>1, BackedEmpty DEF Replayed
    <2>2. CASE journal # <<>>  BY <1>0, <2>2 DEF Replayed
    <2> QED  BY <2>1, <2>2
<1>7. ASSUME NEW c, CommandOK(c), journal' = Append(journal, RecordOf(c)), mem' = mem \/ mem' = initialBrokerState,
             cache' = cache
      PROVE  AllBacked'
    <2>f. FilesTyped  BY DEF BrokerInv
    <2>1. PICK rec : rec = RecordOf(c)  OBVIOUS
    <2>4. /\ DOMAIN journal' = 1..(Len(journal) + 1) /\ journal'[Len(journal) + 1] = rec
          /\ \A i \in DOMAIN journal : journal'[i] = journal[i]
        BY <1>7, <2>f, <2>1, RecordKeeps
    <2>5. PICK j : j = journal'  OBVIOUS
    <2>6. /\ DOMAIN journal \subseteq DOMAIN j /\ \A i \in DOMAIN journal : j[i] = journal[i]
          /\ \E i \in DOMAIN j : j[i].cmd = c
        BY <1>0, <2>1, <2>4, <2>5 DEF RecordOf
    <2>7. Backed(j, mem) /\ Backed(j, Replayed) /\ \A i \in DOMAIN journal : Backed(j, journal[i].after)
        BY <1>0, <1>r, <2>6, BackedGrows
    <2>8. Backed(j, Reduce(Replayed, c))  BY <1>0, <1>7, <2>6, <2>7, BackedReduce
    <2>9. \A i \in DOMAIN j : Backed(j, j[i].after)
        <3> SUFFICES ASSUME NEW i \in DOMAIN j PROVE Backed(j, j[i].after)  OBVIOUS
        <3>1. CASE i \in DOMAIN journal  BY <2>6, <2>7, <3>1
        <3>2. CASE i = Len(journal) + 1  BY <2>1, <2>4, <2>5, <2>8, <3>2 DEF RecordOf
        <3> QED  BY <1>0, <2>4, <2>5, <3>1, <3>2
    <2>10. Backed(j, mem')  BY <1>7, <2>7, BackedEmpty
    <2> QED  BY <2>5, <2>9, <2>10 DEF AllBacked
<1>1. CASE AppendJournal
    <2>0. CommandOK(cmd) /\ mem' = mem /\ cache' = cache /\ journal' = Append(journal, RecordOf(cmd))
        BY <1>1 DEF AppendJournal, BrokerInv, CommandReady
    <2> QED  BY <1>7, <2>0
<1>2. CASE ReplaceCache
    <2>0. pc = "cache" /\ journal' = journal /\ mem' = Reduce(mem, cmd) /\ CommandOK(cmd)
        BY <1>2 DEF ReplaceCache, BrokerInv, CommandReady
    <2>1. \E i \in DOMAIN journal : journal[i].cmd = cmd
        <3>1. journal # <<>> /\ journal[Len(journal)].cmd = cmd  BY <2>0 DEF DaemonTyped, RecoveryPlace
        <3>2. Len(journal) \in DOMAIN journal  BY <1>0, <3>1
        <3> QED  BY <3>1, <3>2
    <2>2. Backed(journal, mem')  BY <1>0, <2>0, <2>1, BackedReduce
    <2> QED  BY <1>0, <2>0, <2>2 DEF AllBacked
<1>3. CASE ReadFiles
    <2>0. journal' = journal /\ mem' = Replayed  BY <1>3 DEF ReadFiles
    <2> QED  BY <1>0, <1>r, <2>0 DEF AllBacked
<1>4. CASE Stop
    <2>0. mem' = initialBrokerState /\ cache' = cache  BY <1>4 DEF Stop
    <2>1. CASE journal' = journal  BY <1>0, <2>0, <2>1, BackedEmpty DEF AllBacked
    <2>2. ASSUME NEW c \in unsynced, CommandOK(c), journal' = Append(journal, RecordOf(c)) PROVE AllBacked'
        BY <1>7, <2>0, <2>2
    <2> QED  BY <1>4, <2>1, <2>2, StopsWith
<1>5. CASE UNCHANGED <<journal, mem>>  BY <1>0, <1>5 DEF AllBacked
<1>6. CacheFails \/ AppendFails \/ AuditUnreadable \/ Begin \/ Quiet \/ UNCHANGED vars => UNCHANGED <<journal, mem>>
    BY DEF CacheFails, AppendFails, AuditUnreadable, Begin, Quiet, vars
<1> QED  BY <1>0, <1>1, <1>2, <1>3, <1>4, <1>5, <1>6, Footprint

-----------------------------------------------------------------------------
(* The audit trail. *)

\* An entry that comes after all earlier events keeps the order, and its event is audited.
LEMMA AuditKeepsOrder ==
    ASSUME audit \in Seq(Entries), NEW e \in Entries, AuditAppend(e) \/ audit' = Append(audit, e),
           UNCHANGED <<journal, degraded>>,
           ~degraded => AuditFollowsJournal,
           ~degraded /\ e.event # EvidenceEvent =>
               e.event \in DOMAIN journal /\ e.run = journal[e.event].cmd.run /\ Audited(e.event - 1)
    PROVE  /\ AuditFollowsJournal'
           /\ \A n \in Nat : Audited(n) => Audited(n)'
           /\ ~degraded /\ e.event # EvidenceEvent => Audited(e.event)'
<1>0. /\ Len(audit') \in Nat /\ Len(audit) \in Nat /\ Len(audit) <= Len(audit') /\ audit' \in Seq(Entries)
      /\ \A i \in 1..Len(audit) : audit'[i] = audit[i]
      /\ DOMAIN audit = 1..Len(audit) /\ DOMAIN audit' = 1..Len(audit')
      /\ \/ audit' = audit /\ \E i \in DOMAIN audit : audit[i].event = e.event
         \/ Len(audit') = Len(audit) + 1 /\ audit'[Len(audit) + 1] = e
    <2>1. CASE AuditAppend(e)  BY <2>1, AuditAppends
    <2>2. CASE audit' = Append(audit, e)
        <3>1. /\ audit' \in Seq(Entries) /\ Len(audit') = Len(audit) + 1 /\ audit'[Len(audit) + 1] = e
              /\ \A i \in 1..Len(audit) : audit'[i] = audit[i]
            BY <2>2
        <3>2. Len(audit) \in Nat /\ Len(audit') \in Nat /\ Len(audit) <= Len(audit')  BY <3>1
        <3> QED  BY <3>1, <3>2
    <2> QED  BY <2>1, <2>2
<1>e. \A m, n \in Nat : m <= n => \A i \in 1..m : i \in 1..n /\ 1..(i - 1) \subseteq 1..m  OBVIOUS
<1>k. \A i \in 1..Len(audit) : i \in 1..Len(audit') /\ audit'[i] = audit[i] /\ 1..(i - 1) \subseteq 1..Len(audit)
    BY <1>0, <1>e
<1>1. ASSUME NEW n \in Nat, Audited(n) PROVE Audited(n)'
    <2> SUFFICES ASSUME NEW k \in 1..n PROVE \E i \in DOMAIN audit' : audit'[i].event = k  BY DEF Audited
    <2>1. PICK i \in 1..Len(audit) : audit[i].event = k  BY <1>0, <1>1 DEF Audited
    <2>2. i \in 1..Len(audit') /\ audit'[i] = audit[i]  BY <1>k
    <2> QED  BY <1>0, <2>1, <2>2
<1>2. ASSUME ~degraded, e.event # EvidenceEvent PROVE Audited(e.event)'
    <2>0. e.event \in Nat /\ Audited(e.event - 1)  BY <1>2 DEF Entries
    <2> SUFFICES ASSUME NEW k \in 1..e.event PROVE \E i \in DOMAIN audit' : audit'[i].event = k  BY DEF Audited
    <2>1. CASE k = e.event
        <3>1. CASE audit' = audit /\ \E i \in DOMAIN audit : audit[i].event = e.event  BY <2>1, <3>1
        <3>2. CASE Len(audit') = Len(audit) + 1 /\ audit'[Len(audit) + 1] = e
            <4>1. Len(audit) + 1 \in DOMAIN audit'  BY <1>0, <3>2
            <4> QED  BY <2>1, <3>2, <4>1
        <3> QED  BY <1>0, <3>1, <3>2
    <2>2. CASE k # e.event
        <3>1. k \in 1..(e.event - 1)  BY <2>0, <2>2
        <3>2. PICK i \in 1..Len(audit) : audit[i].event = k  BY <1>0, <2>0, <3>1 DEF Audited
        <3>3. i \in 1..Len(audit') /\ audit'[i] = audit[i]  BY <1>k
        <3> QED  BY <1>0, <3>2, <3>3
    <2> QED  BY <2>1, <2>2
<1>3. AuditFollowsJournal'
    <2> SUFFICES ASSUME ~degraded, NEW j \in DOMAIN audit', audit'[j].event # EvidenceEvent
                 PROVE  /\ audit'[j].event \in DOMAIN journal
                        /\ audit'[j].run = journal[audit'[j].event].cmd.run
                        /\ \A k \in 1..(audit'[j].event - 1) : \E i \in 1..(j - 1) : audit'[i].event = k
        BY DEF AuditFollowsJournal, EvidenceEvent
    <2>1. CASE j \in 1..Len(audit)
        <3>1. audit'[j] = audit[j] /\ j \in DOMAIN audit /\ \A i \in 1..(j - 1) : audit'[i] = audit[i]
            BY <1>0, <1>k, <2>1
        <3> QED  BY <3>1 DEF AuditFollowsJournal
    <2>2. CASE j \notin 1..Len(audit)
        <3>0. Len(audit') = Len(audit) + 1 /\ audit'[Len(audit) + 1] = e  BY <1>0, <2>2
        <3>1. Len(audit') = Len(audit) + 1 /\ audit'[j] = e /\ j - 1 = Len(audit) /\ j = Len(audit) + 1
            <4>1. ASSUME NEW m \in Nat, j \in 1..(m + 1), j \notin 1..m PROVE j = m + 1 /\ j - 1 = m  BY <4>1
            <4>2. j \in 1..(Len(audit) + 1)  BY <1>0, <3>0
            <4> QED  BY <1>0, <2>2, <3>0, <4>1, <4>2
        <3>2. \A i \in 1..(j - 1) : audit'[i] = audit[i]  BY <1>0, <3>1
        <3>3. \A k \in 1..(e.event - 1) : \E i \in 1..(j - 1) : audit[i].event = k
            BY <1>0, <3>1 DEF Audited
        <3> QED  BY <3>1, <3>2, <3>3
    <2> QED  BY <2>1, <2>2
<1> QED  BY <1>1, <1>2, <1>3

AuditSafe == AuditFollowsJournal /\ AuditComplete

\* Every step audits the next event of the journal, or none.
LEMMA AuditSafeStep ==
    ASSUME BrokerInv, DaemonTyped, AuditSafe, [Next]_vars
    PROVE  AuditSafe'
<1>t. /\ journal \in Seq(JournalRecords) /\ Len(journal) \in Nat /\ DOMAIN journal = 1..Len(journal)
      /\ audit \in Seq(Entries) /\ SnapshotsReal /\ position \in Nat /\ cmd \in Commands /\ mem \in BrokerStates
      /\ DOMAIN audit = 1..Len(audit) /\ StateOK(mem)
    BY DEF DaemonTyped, TypeOK, JournalRecords, Entries, Fields, BrokerInv, FilesTyped
<1>p. RecoveryPlace /\ AuditFollowsJournal /\ AuditComplete  BY DEF DaemonTyped, AuditSafe
<1>s. ASSUME UNCHANGED <<audit, journal, degraded>> PROVE AuditFollowsJournal' /\ \A n : Audited(n)' = Audited(n)
    BY <1>p, <1>s DEF AuditFollowsJournal, Audited
\* A step that leaves files and trail alone, and does not claim more.
<1>u. ASSUME UNCHANGED <<audit, journal, degraded, up>>, auditFailed => auditFailed',
             up' /\ ~auditFailed' => AuditReach' = AuditReach
      PROVE  AuditSafe'
    BY <1>p, <1>s, <1>u DEF AuditSafe, AuditComplete
<1>g. ASSUME NEW c, CommandOK(c), journal' = Append(journal, RecordOf(c)), UNCHANGED <<audit, degraded, cache>>
      PROVE  Len(journal') = Len(journal) + 1 /\ AuditFollowsJournal' /\ \A n : Audited(n)' = Audited(n)
    <2>f. FilesTyped  BY DEF BrokerInv
    <2>1. /\ Len(journal') = Len(journal) + 1 /\ DOMAIN journal \subseteq DOMAIN journal'
          /\ \A i \in DOMAIN journal : journal'[i] = journal[i]
        BY <1>t, <1>g, <2>f, RecordKeeps
    <2>2. AuditFollowsJournal'  BY <1>p, <1>g, <2>1 DEF AuditFollowsJournal
    <2>4. \A n : Audited(n)' = Audited(n)  BY <1>g DEF Audited
    <2> QED  BY <2>1, <2>2, <2>4
\* A failing append writes the next event, or nothing.
<1>th. ASSUME NEW e \in Entries, AuditThrows(e), UNCHANGED <<journal, degraded>>,
              ~degraded /\ ~auditFailed /\ e.event # EvidenceEvent =>
                  e.event \in DOMAIN journal /\ e.run = journal[e.event].cmd.run /\ Audited(e.event - 1)
       PROVE  AuditSafe'
    <2>1. auditFailed' = TRUE /\ (audit' = audit \/ (audit' = Append(audit, e) /\ ~auditFailed))
        BY <1>th, AuditThrowsFrame
    <2>2. CASE audit' = audit  BY <1>s, <1>th, <2>1, <2>2 DEF AuditSafe, AuditComplete
    <2>3. CASE audit' = Append(audit, e) /\ ~auditFailed
        <3>1. AuditFollowsJournal'  BY <1>p, <1>t, <1>th, <2>3, AuditKeepsOrder
        <3> QED  BY <2>1, <3>1 DEF AuditSafe, AuditComplete
    <2> QED  BY <2>1, <2>2, <2>3
<1>1. CASE AppendJournal
    <2>0. /\ pc = "append" /\ pc' = "cache" /\ UNCHANGED <<audit, up, auditFailed, degraded, cache>>
          /\ CommandOK(cmd) /\ journal' = Append(journal, RecordOf(cmd))
        BY <1>1 DEF AppendJournal, BrokerInv, CommandReady, trail, world
    <2>1. Len(journal') = Len(journal) + 1 /\ AuditFollowsJournal' /\ \A n : Audited(n)' = Audited(n)
        BY <1>g, <2>0
    <2>3. AuditReach' = AuditReach  BY <1>t, <2>0, <2>1 DEF AuditReach
    <2> QED  BY <1>p, <2>0, <2>1, <2>3 DEF AuditSafe, AuditComplete
<1>2. CASE AppendFails
    <2>0. pc = "append" /\ pc' = "idle" /\ UNCHANGED <<journal, audit, up, auditFailed, degraded>>
        BY <1>2 DEF AppendFails, Throw, trail
    <2>1. AuditReach' = AuditReach  BY <2>0 DEF AuditReach
    <2> QED  BY <1>u, <2>0, <2>1
<1>3. CASE ReplaceCache
    <2>0. pc = "cache" /\ pc' = "audit" /\ UNCHANGED <<journal, audit, up, auditFailed, degraded>>
        BY <1>3 DEF ReplaceCache, trail, world
    <2>1. AuditReach' = AuditReach  BY <2>0 DEF AuditReach
    <2> QED  BY <1>u, <2>0, <2>1
<1>4. CASE CacheFails
    <2>0. degraded' = TRUE  BY <1>4 DEF CacheFails
    <2> QED  BY <2>0 DEF AuditSafe, AuditFollowsJournal, AuditComplete
<1>5. CASE ProjectionFails
    <2>0. pc = "audit" /\ AuditThrows(EventEntry) /\ UNCHANGED <<journal, up, degraded>>
        BY <1>5 DEF ProjectionFails, Throw
    <2>1. PICK e : e = EventEntry  OBVIOUS
    <2>2. e \in Entries /\ e.event = Len(journal) /\ e.run = cmd.run
        BY <1>t, <2>1, ProjectedTyped DEF EventEntry, Entry
    <2>3. journal # <<>> /\ journal[Len(journal)].cmd = cmd /\ up
        BY <1>p, <2>0 DEF RecoveryPlace, BrokerInv, CommandReady
    <2>4. ~degraded /\ ~auditFailed => Audited(Len(journal) - 1)  BY <1>p, <2>0, <2>3 DEF AuditComplete, AuditReach
    <2>5. Len(journal) \in DOMAIN journal  BY <1>t, <2>3
    <2> QED  BY <1>th, <2>0, <2>1, <2>2, <2>3, <2>4, <2>5
<1>16. CASE ProjectRecordedFails
    <2>0. pc = "project" /\ position <= Len(journal) /\ AuditThrows(RecordedEntry) /\ UNCHANGED <<journal, up, degraded>>
        BY <1>16 DEF ProjectRecordedFails, Throw
    <2>1. position \in 1..Len(journal) /\ up  BY <1>p, <1>t, <2>0 DEF RecoveryPlace, BrokerInv, CommandReady
    <2>2. journal[position] \in JournalRecords  BY <1>t, <2>1
    <2>3. journal[position].cmd \in Commands /\ journal[position].after \in BrokerStates  BY <2>2 DEF JournalRecords
    <2>4. PICK e : e = RecordedEntry  OBVIOUS
    <2>5. e \in Entries /\ e.event = position /\ e.run = journal[position].cmd.run
        BY <1>t, <2>3, <2>4, ProjectedTyped DEF RecordedEntry, Entry
    <2>6. ~degraded /\ ~auditFailed => Audited(position - 1)  BY <1>p, <2>0, <2>1 DEF AuditComplete, AuditReach
    <2> QED  BY <1>th, <1>t, <2>0, <2>1, <2>4, <2>5, <2>6
<1>17. CASE AuditUnreadable
    <2>0. UNCHANGED <<journal, audit, up, auditFailed, degraded>> /\ ~up
        BY <1>17 DEF AuditUnreadable, trail, world
    <2> QED  BY <1>u, <2>0
<1>6. CASE FinishPersist
    <2>0. /\ pc = "audit" /\ pc' \in {"idle", "reconcile"} /\ AuditAppend(EventEntry)
          /\ UNCHANGED <<journal, up, degraded>>
        BY <1>6 DEF FinishPersist, world
    <2>1. PICK e : e = EventEntry  OBVIOUS
    <2>2. e \in Entries /\ e.event = Len(journal) /\ e.run = cmd.run /\ AuditAppend(e)
        BY <1>t, <2>0, <2>1, ProjectedTyped DEF EventEntry, Entry
    <2>3. auditFailed' = auditFailed /\ ~auditFailed  BY <2>2 DEF AuditAppend
    <2>4. journal # <<>> /\ journal[Len(journal)].cmd = cmd /\ up
        BY <1>p, <2>0 DEF RecoveryPlace, BrokerInv, CommandReady
    <2>5. Len(journal) \in DOMAIN journal  BY <1>t, <2>4
    <2>6. ~degraded => Audited(Len(journal) - 1)  BY <1>p, <2>0, <2>3, <2>4 DEF AuditComplete, AuditReach
    <2>7. AuditFollowsJournal' /\ (~degraded => Audited(Len(journal))')
        <3>1. e.event # EvidenceEvent  BY <1>t, <2>2, <2>5 DEF EvidenceEvent
        <3> QED  BY <1>t, <1>p, <2>0, <2>2, <2>4, <2>5, <2>6, <3>1, AuditKeepsOrder
    <2>8. AuditReach' = Len(journal)  BY <2>0 DEF AuditReach
    <2> QED  BY <2>0, <2>7, <2>8 DEF AuditSafe, AuditComplete
<1>7. CASE ReadFiles
    <2>0. pc' = "project" /\ position' = 1 /\ UNCHANGED <<journal, audit, auditFailed, degraded>>
        BY <1>7 DEF ReadFiles, world
    <2>1. AuditReach' = 0  BY <2>0 DEF AuditReach
    <2>2. Audited(0)'  BY DEF Audited
    <2> QED  BY <1>s, <2>0, <2>1, <2>2 DEF AuditSafe, AuditComplete
<1>8. CASE ProjectRecorded
    <2>0. /\ pc = "project" /\ pc' = pc /\ position <= Len(journal) /\ position' = position + 1
          /\ AuditAppend(RecordedEntry) /\ UNCHANGED <<journal, up, degraded>>
        BY <1>8 DEF ProjectRecorded, world
    <2>1. position \in 1..Len(journal) /\ up  BY <1>p, <1>t, <2>0 DEF RecoveryPlace, BrokerInv, CommandReady
    <2>2. journal[position] \in JournalRecords  BY <1>t, <2>1
    <2>3. journal[position].cmd \in Commands /\ journal[position].after \in BrokerStates  BY <2>2 DEF JournalRecords
    <2>4. PICK e : e = RecordedEntry  OBVIOUS
    <2>5. e \in Entries /\ e.event = position /\ e.run = journal[position].cmd.run /\ AuditAppend(e)
        BY <1>t, <2>0, <2>3, <2>4, ProjectedTyped DEF RecordedEntry, Entry
    <2>6. auditFailed' = auditFailed /\ ~auditFailed  BY <2>5 DEF AuditAppend
    <2>7. ~degraded => Audited(position - 1)  BY <1>p, <2>0, <2>1, <2>6 DEF AuditComplete, AuditReach
    <2>n. PICK n : n = position  OBVIOUS
    <2>8. AuditFollowsJournal' /\ (~degraded => Audited(n)')
        <3>1. e.event # EvidenceEvent /\ e.event \in DOMAIN journal  BY <1>t, <2>1, <2>5 DEF EvidenceEvent
        <3>2. ~degraded => Audited(e.event)'
            BY <1>t, <1>p, <2>0, <2>5, <2>7, <3>1, AuditKeepsOrder
        <3>3. AuditFollowsJournal'
            BY <1>t, <1>p, <2>0, <2>5, <2>7, <3>1, AuditKeepsOrder
        <3>4. e.event = n  BY <2>5, <2>n
        <3> QED  BY <3>2, <3>3, <3>4
    <2>9. AuditReach' = n  BY <1>t, <2>0, <2>n DEF AuditReach
    <2> QED  BY <2>0, <2>8, <2>9 DEF AuditSafe, AuditComplete
<1>9. CASE AcquireLocks \/ LocksBusy
    <2>0. /\ pc = "project" /\ position > Len(journal) /\ pc' \in {"idle", "reconcile"}
          /\ UNCHANGED <<journal, audit, up, auditFailed, degraded>>
        BY <1>9 DEF AcquireLocks, LocksBusy, Throw, files, world
    <2>1. position - 1 = Len(journal)  BY <1>p, <1>t, <2>0 DEF RecoveryPlace
    <2>2. AuditReach' = AuditReach  BY <2>0, <2>1 DEF AuditReach
    <2> QED  BY <1>u, <2>0, <2>2
<1>10. ASSUME NEW r \in Runs, KeepProcess(r) \/ FailProcess(r) \/ EndRecovery \/ Starts \/ RetryEnding(r)
       PROVE  AuditSafe'
    <2>0. /\ pc \in {"idle", "reconcile"} /\ pc' \in {"idle", "reconcile", "append"}
          /\ UNCHANGED <<journal, audit, up, auditFailed, degraded>>
        BY <1>10 DEF KeepProcess, FailProcess, BeginPersist, EndRecovery, Starts, RetryEnding, files, world
    <2>1. AuditReach' = AuditReach  BY <2>0 DEF AuditReach
    <2> QED  BY <1>u, <2>0, <2>1
<1>11. ASSUME NEW r \in Runs, RecordAuditEvidence(r) PROVE AuditSafe'
    <2>0. /\ pc = "idle" /\ pc' = pc /\ UNCHANGED <<journal, up, degraded>>
          /\ AuditAppend(EvidenceEntry(r)) \/ AuditThrows(EvidenceEntry(r))
        BY <1>11 DEF RecordAuditEvidence, world
    <2>1. CASE AuditThrows(EvidenceEntry(r))
        <3>1. PICK e : e = EvidenceEntry(r)  OBVIOUS
        <3>2. e \in Entries /\ e.event = EvidenceEvent
            BY <1>t, <3>1, ProjectedTyped DEF EvidenceEntry, Entry
        <3> QED  BY <1>th, <2>0, <2>1, <3>1, <3>2
    <2>2. CASE AuditAppend(EvidenceEntry(r))
        <3>1. PICK e : e = EvidenceEntry(r)  OBVIOUS
        <3>2. e \in Entries /\ e.event = EvidenceEvent /\ AuditAppend(e)
            BY <1>t, <2>2, <3>1, ProjectedTyped DEF EvidenceEntry, Entry
        <3>3. AuditFollowsJournal' /\ \A n \in Nat : Audited(n) => Audited(n)'
            BY <1>t, <1>p, <2>0, <3>2, AuditKeepsOrder
        <3>4. AuditReach' = AuditReach /\ AuditReach = Len(journal)  BY <2>0 DEF AuditReach
        <3>5. auditFailed' = auditFailed  BY <3>2 DEF AuditAppend
        <3> QED  BY <1>t, <1>p, <2>0, <3>3, <3>4, <3>5 DEF AuditSafe, AuditComplete
    <2> QED  BY <2>0, <2>1, <2>2
<1>12. CASE Stop
    <2>0. up' = FALSE /\ UNCHANGED <<audit, degraded, cache>>  BY <1>12 DEF Stop
    <2>1. CASE journal' = journal  BY <1>s, <2>0, <2>1 DEF AuditSafe, AuditComplete
    <2>2. ASSUME NEW c \in unsynced, CommandOK(c), journal' = Append(journal, RecordOf(c)) PROVE AuditSafe'
        BY <1>g, <2>0, <2>2 DEF AuditSafe, AuditComplete
    <2> QED  BY <1>12, <2>1, <2>2, StopsWith
<1>13. CASE UNCHANGED vars
    <2>0. UNCHANGED <<journal, audit, up, auditFailed, degraded, pc, position>>  BY <1>13 DEF vars
    <2>1. AuditReach' = AuditReach  BY <2>0 DEF AuditReach
    <2> QED  BY <1>u, <2>0, <2>1
<1>14. CASE Operation
    <2>1. 1 \in Runs  BY BrokerSizes DEF Runs
    <2> QED  BY <1>t, <1>10, <1>11, <1>14, <2>1, OperationStarts
<1>15. CASE EndRecovery
    <2>1. 1 \in Runs  BY BrokerSizes DEF Runs
    <2> QED  BY <1>10, <1>15, <2>1
<1> QED  BY <1>1, <1>2, <1>3, <1>4, <1>5, <1>6, <1>7, <1>8, <1>9, <1>10, <1>12, <1>13, <1>14, <1>15, <1>16, <1>17
            DEF Next, PersistStep, RecoveryStep

-----------------------------------------------------------------------------
(* Locks and external processes. *)

\* A run that an ending is applied to has ended.
LEMMA ReduceEnds ==
    ASSUME NEW s, StateOK(s), s.ok, NEW c, CommandOK(c), Permits(s, c), c.type \in EndingTypes
    PROVE  Reduce(s, c).runs[c.run].state \in Ended
<1>1. c.type # "RUN_ACCEPTED" /\ c.run \in Runs /\ s \in BrokerStates /\ RunOK(s.runs[c.run])
    BY DEF EndingTypes, CommandOK, Commands, StateOK
<1>2. Reduce(s, c) = [s EXCEPT !.runs[c.run] = RunAfter(s.runs[c.run], c)] /\ RunPermits(s.runs[c.run], c)
    BY <1>1 DEF Reduce, Apply, Permits
<1>3. Reduce(s, c).runs[c.run] = RunAfter(s.runs[c.run], c)  BY <1>1, <1>2 DEF BrokerStates
<1> QED  BY <1>1, <1>2, <1>3, RunAfterTraces

\* A journaled ending is final for everybody who replays the journal.
LEMMA EndingsStayStep ==
    ASSUME BrokerInv, EndingsStay, [Next]_vars
    PROVE  EndingsStay'
<1>0. /\ journal \in Seq(JournalRecords) /\ StateOK(mem) /\ StateOK(Replayed) /\ Len(journal) \in Nat
      /\ DOMAIN journal = 1..Len(journal)
    BY ReplayedOK DEF BrokerInv, FilesTyped
<1>2. ASSUME UNCHANGED journal, degraded' = degraded \/ degraded' = TRUE PROVE EndingsStay'
    BY <1>2 DEF EndingsStay, Replayed
<1>4. ASSUME NEW c, CommandOK(c), journal' = Append(journal, RecordOf(c)), UNCHANGED <<cache, degraded>>,
             ~degraded => Permits(Replayed, c)
      PROVE  EndingsStay'
    <2>f. FilesTyped  BY DEF BrokerInv
    <2>1. PICK rec : rec = RecordOf(c)  OBVIOUS
    <2>4. /\ DOMAIN journal' = 1..(Len(journal) + 1) /\ journal'[Len(journal) + 1] = rec
          /\ Len(journal') = Len(journal) + 1 /\ \A i \in DOMAIN journal : journal'[i] = journal[i]
          /\ Replayed' = Reduce(Replayed, c)
        BY <1>4, <2>f, <2>1, RecordKeeps
    <2> SUFFICES ASSUME ~degraded, NEW i \in DOMAIN journal', journal'[i].cmd.type \in EndingTypes
                 PROVE  Replayed'.runs[journal'[i].cmd.run].state \in Ended
        BY <1>4 DEF EndingsStay
    <2>6. Permits(Replayed, c) /\ Replayed.ok
        BY <1>4, ReplayedOK DEF BrokerInv, FilesAgree
    <2>7. CASE i \in DOMAIN journal
        <3>1. journal'[i] = journal[i] /\ Replayed.runs[journal[i].cmd.run].state \in Ended
            BY <2>4, <2>7 DEF EndingsStay
        <3>2. journal[i].cmd.run \in Runs
            <4>1. journal[i] \in JournalRecords  BY <1>0, <2>7
            <4> QED  BY <4>1 DEF JournalRecords, Commands
        <3>3. Reduce(Replayed, c).runs[journal[i].cmd.run] = Replayed.runs[journal[i].cmd.run]
            BY <1>0, <1>4, <2>6, <3>1, <3>2, ReduceKeeps
        <3> QED  BY <2>4, <3>1, <3>3
    <2>8. CASE i = Len(journal) + 1
        <3>1. journal'[i].cmd = c  BY <2>1, <2>4, <2>8 DEF RecordOf
        <3> QED  BY <1>0, <1>4, <2>4, <2>6, <3>1, ReduceEnds
    <2> QED  BY <1>0, <2>4, <2>7, <2>8
<1>1. CASE AppendJournal
    <2>0. /\ CommandOK(cmd) /\ UNCHANGED <<cache, degraded>> /\ journal' = Append(journal, RecordOf(cmd))
          /\ ~degraded => Permits(Replayed, cmd)
        BY <1>1 DEF AppendJournal, BrokerInv, FilesAgree, CommandReady, world
    <2> QED  BY <1>4, <2>0
<1>5. CASE Stop
    <2>0. UNCHANGED <<cache, degraded>>  BY <1>5 DEF Stop
    <2>1. CASE journal' = journal  BY <1>2, <2>0, <2>1
    <2>2. ASSUME NEW c \in unsynced, CommandOK(c), journal' = Append(journal, RecordOf(c)),
                 ~degraded => Permits(Replayed, c)
          PROVE  EndingsStay'
        BY <1>4, <2>0, <2>2
    <2> QED  BY <1>5, <2>1, <2>2, StopsWith
<1>3. \/ CacheFails \/ AppendFails \/ ReplaceCache \/ ReadFiles \/ AuditUnreadable \/ Begin \/ Quiet \/ UNCHANGED vars
      => UNCHANGED journal /\ (degraded' = degraded \/ degraded' = TRUE)
    BY DEF CacheFails, AppendFails, ReplaceCache, ReadFiles, AuditUnreadable, Begin, Quiet, vars, world
<1> QED  BY <1>0, <1>1, <1>2, <1>3, <1>5, Footprint

\* What the locks are at a point of an operation, for the live runs of the memory.
Balanced(l, c, live, h, k) ==
    IF l \in {"append", "cache"} /\ c.type = "RUN_ACCEPTED"
    THEN h = live \cup {Admission} /\ k = live \cup {c.run}
    ELSE IF l = "audit" /\ c.type = "RUN_ACCEPTED"
    THEN h = (live \ {c.run}) \cup {Admission} /\ k = live /\ c.run \in live
    ELSE IF l = "audit" /\ c.type \in EndingTypes
    THEN h = live \cup {c.run} /\ k = live \cup {c.run} /\ c.run \notin live
    ELSE h = live /\ k = live

\* Every operation gives back exactly the locks it took and those of a run it ended.
LEMMA LocksBalanceStep ==
    ASSUME BrokerInv, DaemonTyped, EndingsStay, LocksBalance, [Next]_vars
    PROVE  LocksBalance'
<1>t. /\ StateOK(mem) /\ pc \in Labels /\ cmd \in Commands /\ position \in Nat /\ RecoveryPlace
      /\ recovered \in BOOLEAN /\ 1 \in Runs
    BY BrokerSizes DEF BrokerInv, FilesTyped, DaemonTyped, TypeOK, Labels, Runs
<1>b. Holding /\ ~auditFailed /\ ~degraded => Balanced(pc, cmd, LiveRuns(mem), holders, runLocks)
    BY DEF LocksBalance, Balanced
<1>q. ASSUME Holding' /\ ~auditFailed' /\ ~degraded' => Balanced(pc', cmd', LiveRuns(mem'), holders', runLocks')
      PROVE  LocksBalance'
    <2>1. LiveRuns(mem)' = LiveRuns(mem')  BY DEF LiveRuns
    <2> QED  BY <1>q, <2>1 DEF LocksBalance, Balanced
<1>a. \A c \in Commands : c.run \in Runs /\ c.run # Admission
    BY BrokerSizes DEF Commands, Runs, Admission
<1>v. Admission \notin LiveRuns(mem)  BY BrokerSizes DEF LiveRuns, Runs, Admission
<1>e. EndingTypes \cap {"RUN_ACCEPTED"} = {} /\ NoCommand.type = "RUN_FAILED"
    BY DEF EndingTypes, NoCommand, Command
<1>1. CASE AppendJournal
    <2>0. /\ pc = "append" /\ pc' = "cache"
          /\ UNCHANGED <<mem, holders, runLocks, cmd, position, recovered, auditFailed, degraded>>
        BY <1>1 DEF AppendJournal, trail, locks, world
    <2>1. Holding' = Holding  BY <2>0 DEF Holding
    <2>2. Balanced("append", cmd, LiveRuns(mem), holders, runLocks) = Balanced("cache", cmd, LiveRuns(mem), holders, runLocks)
        BY DEF Balanced
    <2> QED  BY <1>b, <1>q, <2>0, <2>1, <2>2
<1>2. CASE AppendFails
    <2>0. /\ pc = "append" /\ pc' = "idle" /\ cmd' = NoCommand /\ position' = 0 /\ ReleaseFailed
          /\ UNCHANGED <<mem, recovered, auditFailed, degraded>>
        BY <1>2 DEF AppendFails, Throw, trail
    <2> SUFFICES ASSUME Holding', ~auditFailed, ~degraded
                 PROVE  Balanced("idle", NoCommand, LiveRuns(mem), holders', runLocks')
        BY <1>q, <2>0
    <2>1. recovered /\ Holding  BY <2>0 DEF Holding
    <2>2. Balanced("append", cmd, LiveRuns(mem), holders, runLocks)  BY <1>b, <2>0, <2>1
    <2>3. cmd.type = "RUN_ACCEPTED" => cmd.run \notin LiveRuns(mem)
        BY <2>0 DEF BrokerInv, FilesAgree, CommandReady, Permits, LiveRuns, ActiveRun
    <2>4. CASE cmd.type = "RUN_ACCEPTED"
        <3>1. /\ holders = LiveRuns(mem) \cup {Admission} /\ runLocks = LiveRuns(mem) \cup {cmd.run}
              /\ holders' = holders \ {Admission} /\ runLocks' = runLocks \ {cmd.run}
            BY <2>0, <2>2, <2>4 DEF Balanced, ReleaseFailed
        <3>2. holders' = LiveRuns(mem) /\ runLocks' = LiveRuns(mem)  BY <1>v, <2>3, <2>4, <3>1
        <3> QED  BY <3>2 DEF Balanced
    <2>5. CASE cmd.type # "RUN_ACCEPTED"
        <3>1. holders = LiveRuns(mem) /\ runLocks = LiveRuns(mem) /\ UNCHANGED <<holders, runLocks>>
            BY <2>0, <2>2, <2>5 DEF Balanced, ReleaseFailed, locks
        <3> QED  BY <3>1 DEF Balanced
    <2> QED  BY <2>4, <2>5
<1>3. CASE CacheFails \/ ProjectionFails \/ ProjectRecordedFails
    <2>0. degraded' \/ auditFailed'
        BY <1>3 DEF CacheFails, ProjectionFails, ProjectRecordedFails, AuditThrows
    <2> QED  BY <1>q, <2>0
<1>4. CASE ReplaceCache
    <2>0. /\ pc = "cache" /\ pc' = "audit" /\ mem' = Reduce(mem, cmd) /\ CommandOK(cmd)
          /\ UNCHANGED <<holders, runLocks, cmd, position, recovered, auditFailed, degraded>>
        BY <1>4 DEF ReplaceCache, trail, locks, world, BrokerInv, CommandReady
    <2>1. Holding' = Holding  BY <2>0 DEF Holding
    <2> SUFFICES ASSUME Holding, ~auditFailed, ~degraded
                 PROVE  Balanced("audit", cmd, LiveRuns(mem'), holders, runLocks)
        BY <1>q, <2>0, <2>1
    <2>2. Balanced("cache", cmd, LiveRuns(mem), holders, runLocks)  BY <1>b, <2>0
    <2>3. mem.ok /\ Permits(mem, cmd)
        <3>1. Reduce(mem, cmd).ok
            BY <2>0, ReplayedOK DEF BrokerInv, FilesAgree
        <3> QED  BY <3>1 DEF Reduce, Corrupt, initialBrokerState
    <2>4. PICK live : live = LiveRuns(mem)  OBVIOUS
    <2>5. PICK next : next = LiveRuns(mem')  OBVIOUS
    <2>6. /\ cmd.type = "RUN_ACCEPTED" => next = live \cup {cmd.run} /\ cmd.run \notin live
          /\ cmd.type \in EndingTypes => next = live \ {cmd.run} /\ cmd.run \in live
          /\ cmd.type # "RUN_ACCEPTED" /\ cmd.type \notin EndingTypes => next = live
        BY <1>t, <2>0, <2>3, <2>4, <2>5, ReduceLives
    <2>7. CASE cmd.type = "RUN_ACCEPTED"
        <3>1. holders = live \cup {Admission} /\ runLocks = live \cup {cmd.run}
            BY <2>2, <2>4, <2>7 DEF Balanced
        <3> QED  BY <2>5, <2>6, <2>7, <3>1 DEF Balanced
    <2>8. CASE cmd.type \in EndingTypes
        <3>1. holders = live /\ runLocks = live /\ cmd.type # "RUN_ACCEPTED"
            BY <1>e, <2>2, <2>4, <2>8 DEF Balanced
        <3> QED  BY <2>5, <2>6, <2>8, <3>1 DEF Balanced
    <2>9. CASE cmd.type # "RUN_ACCEPTED" /\ cmd.type \notin EndingTypes
        <3>1. holders = live /\ runLocks = live  BY <2>2, <2>4, <2>9 DEF Balanced
        <3> QED  BY <2>5, <2>6, <2>9, <3>1 DEF Balanced
    <2> QED  BY <2>7, <2>8, <2>9
<1>5. CASE FinishPersist
    <2>0. /\ pc = "audit" /\ pc' = (IF position = 0 THEN "idle" ELSE "reconcile") /\ cmd' = NoCommand
          /\ ReleaseDone /\ UNCHANGED <<mem, position, recovered, auditFailed, degraded>>
        BY <1>5 DEF FinishPersist, world, AuditAppend
    <2> SUFFICES ASSUME Holding', ~auditFailed, ~degraded
                 PROVE  Balanced(pc', NoCommand, LiveRuns(mem), holders', runLocks')
        BY <1>q, <2>0
    <2>1. Holding /\ pc' \in {"idle", "reconcile"}  BY <2>0 DEF Holding
    <2>2. Balanced("audit", cmd, LiveRuns(mem), holders, runLocks)  BY <1>b, <2>0, <2>1
    <2>3. holders' = LiveRuns(mem) /\ runLocks' = LiveRuns(mem)
        <3>1. CASE cmd.type = "RUN_ACCEPTED"
            <4>1. /\ holders = (LiveRuns(mem) \ {cmd.run}) \cup {Admission} /\ runLocks = LiveRuns(mem)
                  /\ cmd.run \in LiveRuns(mem)
                BY <2>2, <3>1 DEF Balanced
            <4>2. holders' = (holders \ {Admission}) \cup {cmd.run} /\ runLocks' = runLocks
                BY <2>0, <3>1 DEF ReleaseDone, EndingTypes
            <4> QED  BY <1>v, <4>1, <4>2
        <3>2. CASE cmd.type \in EndingTypes
            <4>1. /\ holders = LiveRuns(mem) \cup {cmd.run} /\ runLocks = LiveRuns(mem) \cup {cmd.run}
                  /\ cmd.run \notin LiveRuns(mem)
                BY <1>e, <2>2, <3>2 DEF Balanced
            <4>2. holders' = holders \ {cmd.run} /\ runLocks' = runLocks \ {cmd.run}
                BY <2>0, <3>2 DEF ReleaseDone, EndingTypes
            <4> QED  BY <4>1, <4>2
        <3>3. CASE cmd.type # "RUN_ACCEPTED" /\ cmd.type \notin EndingTypes
            <4>1. holders = LiveRuns(mem) /\ runLocks = LiveRuns(mem)  BY <2>2, <3>3 DEF Balanced
            <4>2. UNCHANGED <<holders, runLocks>>  BY <2>0, <3>3 DEF ReleaseDone, locks, EndingTypes
            <4> QED  BY <4>1, <4>2
        <3> QED  BY <3>1, <3>2, <3>3
    <2> QED  BY <2>1, <2>3 DEF Balanced
<1>6. ASSUME ~Holding' PROVE LocksBalance'  BY <1>q, <1>6
<1>7. CASE ReadFiles
    <2>0. pc' = "project" /\ recovered' = recovered /\ ~up  BY <1>7 DEF ReadFiles
    <2>1. ~recovered  BY <1>t, <2>0 DEF RecoveryPlace
    <2> QED  BY <1>6, <2>0, <2>1 DEF Holding
<1>18. CASE AuditUnreadable
    <2>0. UNCHANGED <<mem, holders, runLocks, cmd, pc, position, recovered, auditFailed, degraded>>
        BY <1>18 DEF AuditUnreadable, trail, locks, world
    <2>1. Holding' = Holding  BY <2>0 DEF Holding
    <2> QED  BY <1>b, <1>q, <2>0, <2>1
<1>8. CASE ProjectRecorded \/ LocksBusy
    <2>0. /\ pc = "project" /\ recovered' = recovered /\ (pc' = "project" \/ position' = 0)
        BY <1>8 DEF ProjectRecorded, LocksBusy, Throw
    <2>1. ~recovered  BY <1>t, <2>0 DEF RecoveryPlace
    <2> QED  BY <1>6, <2>0, <2>1 DEF Holding
<1>9. CASE AcquireLocks
    <2>0. pc' = "reconcile" /\ holders' = LiveRuns(mem) /\ runLocks' = LiveRuns(mem) /\ mem' = mem
        BY <1>9 DEF AcquireLocks
    <2> QED  BY <1>q, <2>0 DEF Balanced
<1>10. ASSUME NEW r \in Runs, KeepProcess(r) \/ EndRecovery \/ RecordAuditEvidence(r) PROVE LocksBalance'
    <2>0. /\ pc \in {"idle", "reconcile"} /\ pc' \in {"idle", "reconcile"}
          /\ UNCHANGED <<mem, holders, runLocks, degraded>> /\ (~auditFailed' => ~auditFailed)
        <3>1. CASE KeepProcess(r) \/ EndRecovery  BY <3>1 DEF KeepProcess, EndRecovery, locks, world
        <3>2. CASE RecordAuditEvidence(r)
            <4>1. AuditThrows(EvidenceEntry(r)) => auditFailed' = TRUE  BY AuditThrowsFrame
            <4> QED  BY <3>2, <4>1 DEF RecordAuditEvidence, AuditAppend, locks, world
        <3> QED  BY <1>10, <3>1, <3>2
    <2>1. Holding' => Holding
        BY <1>10, <1>t DEF KeepProcess, EndRecovery, RecordAuditEvidence, Holding, RecoveryPlace
    <2>2. Holding /\ ~auditFailed /\ ~degraded => holders = LiveRuns(mem) /\ runLocks = LiveRuns(mem)
        BY <1>b, <2>0 DEF Balanced
    <2> QED  BY <1>q, <2>0, <2>1, <2>2 DEF Balanced
<1>11. ASSUME NEW r \in Runs, FailProcess(r) PROVE LocksBalance'
    <2>0. /\ pc = "reconcile" /\ pc' = "append" /\ cmd' = Command("RUN_FAILED", r, 0)
          /\ UNCHANGED <<mem, holders, runLocks, position, recovered, auditFailed, degraded>>
        BY <1>11 DEF FailProcess, BeginPersist, locks, world
    <2>1. Holding' = Holding /\ cmd'.type = "RUN_FAILED"  BY <2>0 DEF Holding, Command
    <2>2. Holding /\ ~auditFailed /\ ~degraded => holders = LiveRuns(mem) /\ runLocks = LiveRuns(mem)
        BY <1>b, <2>0 DEF Balanced
    <2> QED  BY <1>q, <2>0, <2>1, <2>2 DEF Balanced
<1>12. CASE Starts
    <2>0. /\ pc = "idle" /\ pc' = "append" /\ UNCHANGED <<mem, position, recovered, auditFailed, degraded>>
          /\ IF cmd'.type = "RUN_ACCEPTED"
             THEN holders' = holders \cup {Admission} /\ runLocks' = runLocks \cup {cmd'.run}
             ELSE UNCHANGED <<holders, runLocks>>
        BY <1>12 DEF Starts, locks
    <2>1. Holding' = Holding  BY <1>t, <2>0 DEF Holding, RecoveryPlace
    <2>2. Holding /\ ~auditFailed /\ ~degraded => holders = LiveRuns(mem) /\ runLocks = LiveRuns(mem)
        BY <1>b, <2>0 DEF Balanced
    <2> QED  BY <1>q, <2>0, <2>1, <2>2 DEF Balanced
<1>13. ASSUME NEW r \in Runs, RetryEnding(r) PROVE LocksBalance'
    <2>0. /\ pc = "idle" /\ up /\ r \in holders \cup runLocks
          /\ UNCHANGED <<mem, position, recovered, auditFailed, degraded, pc>>
          /\ \E i \in DOMAIN journal : journal[i].cmd.run = r /\ journal[i].cmd.type \in EndingTypes
        BY <1>13 DEF RetryEnding, world
    <2>1. Holding' = Holding  BY <2>0 DEF Holding
    <2>2. ASSUME Holding, ~auditFailed, ~degraded PROVE FALSE
        <3>1. holders = LiveRuns(mem) /\ runLocks = LiveRuns(mem)  BY <1>b, <2>0, <2>2 DEF Balanced
        <3>2. mem = Replayed  BY <2>0, <2>2 DEF BrokerInv, FilesAgree
        <3>3. mem.runs[r].state \in Ended  BY <2>0, <2>2, <3>2 DEF EndingsStay
        <3> QED  BY <2>0, <3>1, <3>3 DEF LiveRuns, ActiveRun
    <2> QED  BY <1>q, <2>0, <2>1, <2>2
<1>14. CASE Stop
    <2>0. position' = 0 /\ recovered' = FALSE  BY <1>14 DEF Stop
    <2> QED  BY <1>6, <2>0 DEF Holding
<1>15. CASE UNCHANGED vars
    <2>0. UNCHANGED <<mem, holders, runLocks, cmd, pc, position, recovered, auditFailed, degraded>>
        BY <1>15 DEF vars
    <2>1. Holding' = Holding  BY <2>0 DEF Holding
    <2> QED  BY <1>b, <1>q, <2>0, <2>1
<1>16. CASE Operation  BY <1>t, <1>10, <1>12, <1>13, <1>16, OperationStarts
<1>17. CASE EndRecovery  BY <1>t, <1>10, <1>17
<1> QED  BY <1>1, <1>2, <1>3, <1>4, <1>5, <1>7, <1>8, <1>9, <1>10, <1>11, <1>14, <1>15, <1>16, <1>17, <1>18
            DEF Next, PersistStep, RecoveryStep

\* Every step keeps track of the external processes.
LEMMA ProcessesKnownStep ==
    ASSUME BrokerInv, DaemonTyped, ProcessesKnown, [Next]_vars
    PROVE  ProcessesKnown'
<1>t. /\ StateOK(mem) /\ pc \in Labels /\ cmd \in Commands /\ position \in Nat /\ RecoveryPlace
      /\ recovered \in BOOLEAN /\ 1 \in Runs /\ ProcessesKnown
    BY BrokerSizes DEF BrokerInv, FilesTyped, DaemonTyped, TypeOK, Labels, Runs
<1>6. ASSUME ~Holding', pc' \notin {"append", "cache"} PROVE ProcessesKnown'
    BY <1>6 DEF ProcessesKnown
<1>1. CASE AppendJournal
    <2>0. pc = "append" /\ pc' = "cache" /\ UNCHANGED <<mem, cmd, position, recovered, todo, procs>>
        BY <1>1 DEF AppendJournal, world
    <2> QED  BY <1>t, <2>0 DEF ProcessesKnown, Holding
<1>2. CASE AppendFails \/ CacheFails
    <2>0. pc \in {"append", "cache"} /\ pc' = "idle" /\ position' = 0 /\ todo' = {} /\ UNCHANGED <<mem, recovered, procs>>
        BY <1>2 DEF AppendFails, CacheFails, Throw
    <2>1. Holding' => recovered /\ Holding /\ position = 0 /\ todo = {}
        BY <1>t, <2>0 DEF Holding, RecoveryPlace
    <2> QED  BY <1>t, <2>0, <2>1 DEF ProcessesKnown
<1>3. CASE ReplaceCache
    <2>0. /\ pc = "cache" /\ pc' = "audit" /\ mem' = Reduce(mem, cmd) /\ CommandOK(cmd)
          /\ UNCHANGED <<cmd, position, recovered, todo, procs>>
        BY <1>3 DEF ReplaceCache, world, BrokerInv, CommandReady
    <2>1. \A r \in Runs : mem'.runs[r].external_process =>
             \/ mem.runs[r].external_process /\ ~(r = cmd.run /\ cmd.type = "RUN_FAILED")
             \/ r = cmd.run /\ cmd.type = "EXTERNAL_PROCESS_STARTED"
        BY <1>t, <2>0, ReduceTraces
    <2>2. position > 0 => cmd.type = "RUN_FAILED"  BY <1>t, <2>0 DEF RecoveryPlace
    <2>3. Holding' = Holding  BY <2>0 DEF Holding
    <2> QED  BY <1>t, <2>0, <2>1, <2>2, <2>3 DEF ProcessesKnown
<1>4. CASE FinishPersist
    <2>0. pc = "audit" /\ pc' \in {"idle", "reconcile"} /\ UNCHANGED <<mem, position, recovered, todo, procs>>
        BY <1>4 DEF FinishPersist, world
    <2> QED  BY <1>t, <2>0 DEF ProcessesKnown, Holding
<1>5. CASE ProjectionFails
    <2>0. pc = "audit" /\ pc' = "idle" /\ position' = 0 /\ todo' = {} /\ UNCHANGED <<mem, recovered, procs>>
        BY <1>5 DEF ProjectionFails, Throw
    <2>1. Holding' => recovered /\ Holding /\ position = 0 /\ todo = {}
        BY <1>t, <2>0 DEF Holding, RecoveryPlace
    <2> QED  BY <1>t, <2>0, <2>1 DEF ProcessesKnown
<1>7. CASE ReadFiles
    <2>0. pc' = "project" /\ recovered' = recovered /\ ~up  BY <1>7 DEF ReadFiles
    <2>1. ~recovered  BY <1>t, <2>0 DEF RecoveryPlace
    <2> QED  BY <1>6, <2>0, <2>1 DEF Holding
<1>18. CASE AuditUnreadable
    <2>0. UNCHANGED <<mem, pc, cmd, position, recovered, todo, procs>>  BY <1>18 DEF AuditUnreadable, world
    <2> QED  BY <1>t, <2>0 DEF ProcessesKnown, Holding
<1>8. CASE ProjectRecorded \/ ProjectRecordedFails \/ LocksBusy
    <2>0. /\ pc = "project" /\ recovered' = recovered /\ (pc' = "project" \/ (pc' = "idle" /\ position' = 0))
        BY <1>8 DEF ProjectRecorded, ProjectRecordedFails, LocksBusy, Throw
    <2>1. ~recovered  BY <1>t, <2>0 DEF RecoveryPlace
    <2> QED  BY <1>6, <2>0, <2>1 DEF Holding
<1>9. CASE AcquireLocks
    <2>0. pc' = "reconcile" /\ todo' = {r \in LiveRuns(mem) : mem.runs[r].external_process} /\ mem' = mem
        BY <1>9 DEF AcquireLocks
    <2>1. \A r \in Runs : mem.runs[r].external_process => r \in LiveRuns(mem)
        <3>1. \A r \in Runs : mem.runs[r].external_process => mem.runs[r].state = "EXECUTION_STARTED"
            BY <1>t DEF StateOK, RunOK, InspectionOK
        <3> QED  BY <3>1 DEF LiveRuns, ActiveRun, Ended
    <2> QED  BY <2>0, <2>1 DEF ProcessesKnown
<1>10. ASSUME NEW r \in Runs, KeepProcess(r) PROVE ProcessesKnown'
    <2>0. pc = "reconcile" /\ pc' = pc /\ r \in procs /\ todo' = todo \ {r} /\ UNCHANGED <<mem, position, recovered, procs>>
        BY <1>10 DEF KeepProcess, world
    <2> QED  BY <1>t, <2>0 DEF ProcessesKnown, Holding
<1>11. ASSUME NEW r \in Runs, FailProcess(r) PROVE ProcessesKnown'
    <2>0. /\ pc = "reconcile" /\ pc' = "append" /\ cmd' = Command("RUN_FAILED", r, 0) /\ todo' = todo \ {r}
          /\ UNCHANGED <<mem, position, recovered, procs>>
        BY <1>11 DEF FailProcess, BeginPersist, world
    <2>1. cmd'.type = "RUN_FAILED" /\ cmd'.run = r  BY <2>0 DEF Command
    <2>2. position > 0  BY <1>t, <2>0 DEF RecoveryPlace
    <2> QED  BY <1>t, <2>0, <2>1, <2>2 DEF ProcessesKnown, Holding
<1>12. CASE EndRecovery
    <2>0. pc = "reconcile" /\ pc' = "idle" /\ todo = {} /\ UNCHANGED <<mem, todo, procs>>
        BY <1>12 DEF EndRecovery, world
    <2>1. Holding  BY <1>t, <2>0 DEF Holding, RecoveryPlace
    <2> QED  BY <1>t, <2>0, <2>1 DEF ProcessesKnown
<1>13. CASE Starts
    <2>0. /\ pc = "idle" /\ pc' = "append" /\ UNCHANGED <<mem, position, recovered, todo>> /\ procs \subseteq procs'
          /\ cmd'.type = "EXTERNAL_PROCESS_STARTED" => cmd'.run \in procs'
        BY <1>13 DEF Starts
    <2>1. Holding' = Holding  BY <1>t, <2>0 DEF Holding, RecoveryPlace
    <2> QED  BY <1>t, <2>0, <2>1 DEF ProcessesKnown
<1>14. ASSUME NEW r \in Runs, RetryEnding(r) \/ RecordAuditEvidence(r) PROVE ProcessesKnown'
    <2>0. UNCHANGED <<mem, pc, cmd, position, recovered, todo, procs>>
        BY <1>14 DEF RetryEnding, RecordAuditEvidence, world
    <2> QED  BY <1>t, <2>0 DEF ProcessesKnown, Holding
<1>15. CASE Stop
    <2>0. position' = 0 /\ recovered' = FALSE /\ pc' = "idle"  BY <1>15 DEF Stop
    <2> QED  BY <1>6, <2>0 DEF Holding
<1>16. CASE UNCHANGED vars
    <2>0. UNCHANGED <<mem, pc, cmd, position, recovered, todo, procs>>  BY <1>16 DEF vars
    <2> QED  BY <1>t, <2>0 DEF ProcessesKnown, Holding
<1>17. CASE Operation  BY <1>t, <1>13, <1>14, <1>17, OperationStarts
<1> QED  BY <1>1, <1>2, <1>3, <1>4, <1>5, <1>7, <1>8, <1>9, <1>10, <1>11, <1>12, <1>15, <1>16, <1>17, <1>18
            DEF Next, PersistStep, RecoveryStep

\* The daemon as a whole.
DaemonInv ==
    /\ BrokerInv /\ DaemonTyped /\ AllBacked /\ AuditSafe /\ EndingsStay /\ LocksBalance /\ ProcessesKnown

\* It holds in every reachable state.
LEMMA DaemonInvHolds == Spec => []DaemonInv
<1>1. Init => DaemonInv
    <2> SUFFICES ASSUME Init PROVE DaemonInv  OBVIOUS
    <2>0. /\ journal = <<>> /\ unsynced = {} /\ torn = {} /\ audit = <<>> /\ cache = [sequence |-> 0, state |-> initialBrokerState]
          /\ up = FALSE /\ mem = initialBrokerState /\ snapshots = [r \in Runs |-> 0] /\ auditFailed = FALSE
          /\ holders = {} /\ runLocks = {} /\ pc = "idle" /\ cmd = NoCommand /\ todo = {} /\ position = 0
          /\ recovered = FALSE /\ degraded = FALSE /\ procs = {} /\ stops = 0
        BY DEF Init
    <2>1. BrokerInv  BY InitBrokerInv
    <2>2. DaemonTyped
        <3>1. NoCommand \in Commands
            BY BrokerSizes DEF NoCommand, Command, Commands, CommandTypes, Runs
        <3>2. initialBrokerState \in BrokerStates  BY InitialStateOK DEF StateOK
        <3>3. cache \in [sequence : Nat, state : BrokerStates] /\ mem \in BrokerStates  BY <2>0, <3>2
        <3>4. 0 \in 0..MaxStops  BY BrokerBounds
        <3>5. snapshots \in [Runs -> Nat]  BY <2>0
        <3>6. TypeOK
            <4>1. \A S : <<>> \in Seq(S)  OBVIOUS
            <4>2. /\ unsynced \subseteq Commands /\ torn \subseteq {"journal", "audit"} /\ up \in BOOLEAN /\ auditFailed \in BOOLEAN /\ recovered \in BOOLEAN
                  /\ degraded \in BOOLEAN /\ position \in Nat
                BY <2>0
            <4> QED  BY <2>0, <3>1, <3>3, <3>4, <3>5, <4>1, <4>2 DEF TypeOK
        <3>7. SnapshotsReal  BY <2>0 DEF SnapshotsReal
        <3>8. RecoveryPlace  BY <2>0 DEF RecoveryPlace
        <3> QED  BY <3>6, <3>7, <3>8 DEF DaemonTyped
    <2>3. AllBacked  BY <2>0, BackedEmpty DEF AllBacked
    <2>4. AuditSafe  BY <2>0 DEF AuditSafe, AuditFollowsJournal, AuditComplete
    <2>5. EndingsStay  BY <2>0 DEF EndingsStay
    <2>6. LocksBalance /\ ProcessesKnown  BY <2>0 DEF LocksBalance, ProcessesKnown, Holding
    <2> QED  BY <2>1, <2>2, <2>3, <2>4, <2>5, <2>6 DEF DaemonInv
<1>2. DaemonInv /\ [Next]_vars => DaemonInv'
    BY NextBrokerInv, DaemonTypedStep, AllBackedStep, AuditSafeStep, EndingsStayStep, LocksBalanceStep,
       ProcessesKnownStep DEF DaemonInv
<1> QED  BY <1>1, <1>2, PTL DEF Spec

\* Files, memory, locks and counters of the daemon have their types.
THEOREM DaemonIsTyped == Spec => []TypeOK
<1>1. DaemonInv => TypeOK  BY DEF DaemonInv, DaemonTyped
<1> QED  BY <1>1, DaemonInvHolds, PTL

\* The audit trail follows the journal: persist audits an event after its append, and
\* doRecover projects what a crash left out before anything new (projectAudit).
THEOREM AuditIsOrdered == Spec => []AuditFollowsJournal
<1>1. DaemonInv => AuditFollowsJournal  BY DEF DaemonInv, AuditSafe
<1> QED  BY <1>1, DaemonInvHolds, PTL

\* The daemon after any crash: nothing visible that is not durable (persist writes the journal
\* first), the locks of exactly the live runs, and no run that claims a process that is gone
\* (doRecover reconciles them).
THEOREM RecoveryIsSound == Spec => []RecoverySound
<1>1. DaemonInv => RecoverySound
    <2> SUFFICES ASSUME DaemonInv PROVE RecoverySound  OBVIOUS
    <2>1. WriteAhead  BY DEF DaemonInv, AllBacked, Backed, WriteAhead, JournaledIn, Journaled
    <2>2. LocksAreTheLiveRuns
        BY DEF DaemonInv, LocksBalance, Holding, LocksAreTheLiveRuns
    <2>3. OrphansAreFailed
        BY DEF DaemonInv, ProcessesKnown, Holding, OrphansAreFailed, DaemonTyped, RecoveryPlace
    <2> QED  BY <2>1, <2>2, <2>3 DEF RecoverySound
<1> QED  BY <1>1, DaemonInvHolds, PTL
=============================================================================
