---------------------------- MODULE BrokerDaemon ----------------------------
(***************************************************************************)
(* The durable broker of src/runtime/broker-daemon.ts with the journal     *)
(* (journal.ts), the state cache (run-state.ts), the audit trail           *)
(* (audit-trail.ts) and the locks (repository-lock.ts) it owns.            *)
(*                                                                         *)
(* `serialize` runs one operation at a time, so the interleavings that     *)
(* matter are those of one operation with crashes, I/O errors and          *)
(* restarts: persist appends to the journal, replaces the cache, updates   *)
(* the memory and projects to the audit trail, in four steps.              *)
(*                                                                         *)
(* Abstractions.  A journal record carries, next to its command, the state *)
(* its replay yields; a command_id that is random is unique by being       *)
(* appended once.  All runs work on one repository.  An audit entry is the *)
(* journal position of its event and the set of fields that its run's      *)
(* history has filled in; two entries with the same event and fields are   *)
(* the same canonical bytes.                                               *)
(***************************************************************************)
EXTENDS RunState, Sequences, FiniteSets

CONSTANTS
    Faults,      \* the I/O errors that may happen: a subset of FaultKinds
    MaxRecords,  \* bound: records that operations may append
    MaxDamaged,  \* the same while a failed write is felt
    MaxStops     \* bound: crashes and clean stops

FaultKinds == {"append", "cache", "audit", "busy"}

ASSUME BrokerBounds == Faults \subseteq FaultKinds /\ {MaxRecords, MaxDamaged, MaxStops} \subseteq Nat

VARIABLES
    \* files
    journal,      \* journal records, as a process that is up holds them: [cmd, after]
    unsynced,     \* the command, if any, whose line the journal file has beyond them
    torn,         \* the append-only files that no longer parse
    cache,        \* current-state cache: [sequence, state]
    audit,        \* audit trail entries: [event, run, fields]
    \* memory of the daemon process
    up,           \* state, journal and auditTrail are not null
    mem,          \* `state`
    snapshots,    \* auditSnapshots: per run, the position of its latest entry
    auditFailed,  \* appendFailure # null
    holders,      \* lockHolders of the repository
    runLocks,     \* runLocks
    pc, cmd, todo, position,
    recovered,    \* history: doRecover of this process ran to its end
    degraded,     \* history: a cache replacement failed in a process that went on
    \* surroundings
    procs,        \* runs whose external process has not died behind a stopped broker
    stops

files  == <<journal, unsynced, torn, cache, audit>>
locks  == <<holders, runLocks>>
trail  == <<audit, snapshots, auditFailed>>
world  == <<degraded, procs, stops>>
vars   == <<journal, unsynced, torn, cache, audit, up, mem, snapshots, auditFailed, holders, runLocks,
            pc, cmd, todo, position, recovered, degraded, procs, stops>>

Admission == 0  \* the holder `admission:<request_id>` of a submit in progress

NoCommand == Command("RUN_FAILED", 1, 0)

Replayed == IF journal = <<>> THEN initialBrokerState ELSE journal[Len(journal)].after

LiveRuns(s) == {r \in Runs : ActiveRun(s.runs[r])}

Init ==
    /\ journal = <<>> /\ unsynced = {} /\ torn = {} /\ audit = <<>>
    /\ cache = [sequence |-> 0, state |-> initialBrokerState]
    /\ up = FALSE /\ mem = initialBrokerState
    /\ snapshots = [r \in Runs |-> 0] /\ auditFailed = FALSE
    /\ holders = {} /\ runLocks = {}
    /\ pc = "idle" /\ cmd = NoCommand /\ todo = {} /\ position = 0
    /\ recovered = FALSE /\ degraded = FALSE /\ procs = {} /\ stops = 0

-----------------------------------------------------------------------------
(* The audit projection. *)

EvidenceEvent == 0  \* the event of an entry written by recordAuditEvidence

PreviousFields(r) == IF snapshots[r] = 0 THEN {} ELSE audit[snapshots[r]].fields

\* Fields an event adds to what the run's latest snapshot already has.
ProjectedFields(c, s) ==
    PreviousFields(c.run)
        \cup (IF s.runs[c.run].state \in Ended THEN {"finished_at"} ELSE {})
        \cup (IF c.type = "CANDIDATE_ACCEPTED" THEN {"diff"} ELSE {})
        \cup (IF s.runs[c.run].verdict THEN {"capability_snapshot_hash"} ELSE {})

Entry(event, r, fields) == [event |-> event, run |-> r, fields |-> fields]

EntriesOf(event, r) == {i \in DOMAIN audit : audit[i].event = event /\ audit[i].run = r}

\* AuditTrailV4.append succeeds: a new event is appended, a known one must
\* have the same bytes.
AuditAppend(e) ==
    /\ ~auditFailed /\ \A i \in EntriesOf(e.event, e.run) : audit[i] = e
    /\ audit' = IF EntriesOf(e.event, e.run) = {} THEN Append(audit, e) ELSE audit
    /\ UNCHANGED auditFailed

EntryPosition(e) ==
    IF EntriesOf(e.event, e.run) = {} THEN Len(audit) + 1
    ELSE CHOOSE i \in EntriesOf(e.event, e.run) : TRUE

\* projectAudit moves the run's snapshot forward only.
KeepLatest(e) ==
    snapshots' = [snapshots EXCEPT ![e.run] = IF EntryPosition(e) >= @ THEN EntryPosition(e) ELSE @]

\* Mutant: an append that failed does not block the later ones.
AuditThrowsOnce(e) ==
    /\ \/ \E i \in EntriesOf(e.event, e.run) : audit[i] # e
       \/ "audit" \in Faults /\ EntriesOf(e.event, e.run) = {}
    /\ UNCHANGED <<audit, snapshots, auditFailed, torn>>

\* The write or the fsync fails: nothing, a complete line or a part of one is left behind.
AuditWriteFails(e) ==
    /\ "audit" \in Faults /\ ~auditFailed /\ EntriesOf(e.event, e.run) = {}
    /\ \/ audit' \in {audit, Append(audit, e)} /\ UNCHANGED torn
       \/ torn' = torn \cup {"audit"} /\ UNCHANGED audit

\* It throws: an earlier append failed, the bytes differ, or the write fails.
AuditThrows(e) ==
    /\ \/ /\ auditFailed \/ \E i \in EntriesOf(e.event, e.run) : audit[i] # e
          /\ UNCHANGED <<audit, torn>>
       \/ AuditWriteFails(e)
    /\ auditFailed' = TRUE
    /\ UNCHANGED snapshots

-----------------------------------------------------------------------------
(* persist, in the steps a crash or an error can separate. *)

\* command_ids that name the run and the content instead of being random.
StableId(c) ==
    \/ c.type \in PublicationTypes \cup {"REVIEW_VERDICT_RECORDED", "COMMIT_CREATED", "RUN_ABORTED"}
    \/ c.type = "RUN_FAILED" /\ c.arg # 0

Prior(c) == StableId(c) /\ \E i \in DOMAIN journal :
    journal[i].cmd.type = c.type /\ journal[i].cmd.run = c.run
        /\ (c.type \in {"RUN_FAILED", "REVIEW_VERDICT_RECORDED"} => journal[i].cmd.arg = c.arg)

BeginPersist(c) ==
    /\ ~Prior(c) /\ Permits(mem, c)
    /\ cmd' = c /\ pc' = "append"

RecordOf(c) == [cmd |-> c, after |-> Reduce(Replayed, c)]

\* Behind a line that memory does not know of, the next one repeats its sequence number.
AppendJournal ==
    /\ pc = "append"
    /\ journal' = Append(journal, RecordOf(cmd))
    /\ torn' = (IF unsynced = {} THEN torn ELSE torn \cup {"journal"})
    /\ unsynced' = {}
    /\ pc' = "cache"
    /\ UNCHANGED <<cache, trail, up, mem, locks, cmd, todo, position, recovered, world>>

\* The locks a failed operation gives back: only submit has a `finally`.
ReleaseFailed ==
    IF cmd.type = "RUN_ACCEPTED"
    THEN holders' = holders \ {Admission} /\ runLocks' = runLocks \ {cmd.run}
    ELSE UNCHANGED locks

\* An exception leaves the operation, or the recovery it is part of.
Throw ==
    /\ pc' = "idle" /\ cmd' = NoCommand /\ todo' = {} /\ position' = 0
    /\ UNCHANGED <<up, recovered, procs, stops>>

\* Nothing was written, a part of the line, or all of it and the fsync failed.  The
\* process goes on with the records it had.
AppendFails ==
    /\ pc = "append" /\ "append" \in Faults
    /\ \/ UNCHANGED <<unsynced, torn>>
       \/ torn' = torn \cup {"journal"} /\ unsynced' = {}
       \/ "journal" \notin torn /\ unsynced = {} /\ unsynced' = {cmd} /\ UNCHANGED torn
    /\ ReleaseFailed /\ Throw
    /\ UNCHANGED <<journal, cache, trail, mem, degraded>>

\* Mutant: the cache is labelled with the sequence before the append.
ReplaceCacheEarlier ==
    /\ pc = "cache"
    /\ cache' = [sequence |-> Len(journal) - 1, state |-> Reduce(mem, cmd)]
    /\ mem' = Reduce(mem, cmd)
    /\ pc' = "audit"
    /\ UNCHANGED <<journal, unsynced, torn, trail, up, locks, cmd, todo, position, recovered, world>>

ReplaceCache ==
    /\ pc = "cache"
    /\ cache' = [sequence |-> Len(journal), state |-> Reduce(mem, cmd)]
    /\ mem' = Reduce(mem, cmd)
    /\ pc' = "audit"
    /\ UNCHANGED <<journal, unsynced, torn, trail, up, locks, cmd, todo, position, recovered, world>>

\* The rename or the fsync that follows it fails; the old or the new file stays.
CacheFails ==
    /\ pc = "cache" /\ "cache" \in Faults
    /\ cache' \in {cache, [sequence |-> Len(journal), state |-> Reduce(mem, cmd)]}
    /\ degraded' = TRUE
    /\ ReleaseFailed /\ Throw
    /\ UNCHANGED <<journal, unsynced, torn, trail, mem>>

EventEntry == Entry(Len(journal), cmd.run, ProjectedFields(cmd, mem))

\* What the operation does once persist returned.
ReleaseDone ==
    CASE cmd.type = "RUN_ACCEPTED" ->
           holders' = (holders \ {Admission}) \cup {cmd.run} /\ UNCHANGED runLocks
      [] cmd.type \in EndingTypes ->
           holders' = holders \ {cmd.run} /\ runLocks' = runLocks \ {cmd.run}
      [] OTHER -> UNCHANGED locks

FinishPersist ==
    /\ pc = "audit"
    /\ AuditAppend(EventEntry) /\ KeepLatest(EventEntry)
    /\ ReleaseDone
    /\ pc' = (IF position = 0 THEN "idle" ELSE "reconcile")
    /\ cmd' = NoCommand
    /\ UNCHANGED <<journal, unsynced, torn, cache, up, mem, todo, position, recovered, world>>

ProjectionFails ==
    /\ pc = "audit"
    /\ AuditThrows(EventEntry)
    /\ ReleaseFailed /\ Throw
    /\ UNCHANGED <<journal, unsynced, cache, mem, degraded>>

-----------------------------------------------------------------------------
(* Recovery: doRecover runs in the first call of a process. *)

PrefixState(n) == IF n = 0 THEN initialBrokerState ELSE journal[n].after

\* Mutant: a run without entries gets the index an unsuccessful search returns.
LatestEntryIndex(r) ==
    LET S == {i \in DOMAIN audit : audit[i].run = r} IN
    IF S = {} THEN -1 ELSE CHOOSE i \in S : \A j \in S : j <= i

LatestEntry(r) ==
    LET S == {i \in DOMAIN audit : audit[i].run = r} IN
    IF S = {} THEN 0 ELSE CHOOSE i \in S : \A j \in S : j <= i

\* What recoverBrokerStateV4 asks of the journal and of the cache.
FilesPass ==
    /\ "journal" \notin torn /\ Replayed.ok
    /\ cache.sequence <= Len(journal) /\ cache.state = PrefixState(cache.sequence)

FreshCache == [sequence |-> Len(journal), state |-> Replayed]

\* Mutant: the cached state is used instead of the replayed one.
ReadFilesFromCache ==
    /\ pc = "idle" /\ ~up
    /\ torn = {} /\ Replayed.ok
    /\ up' = TRUE /\ mem' = cache.state
    /\ snapshots' = [r \in Runs |-> LatestEntry(r)]
    /\ pc' = "project" /\ position' = 1
    /\ UNCHANGED <<files, auditFailed, locks, cmd, todo, recovered, world>>

\* recoverBrokerStateV4 and the three assignments that follow it.
ReadFiles ==
    /\ pc = "idle" /\ ~up
    /\ FilesPass /\ "audit" \notin torn
    /\ cache' = FreshCache
    /\ up' = TRUE /\ mem' = Replayed
    /\ snapshots' = [r \in Runs |-> LatestEntry(r)]
    /\ pc' = "project" /\ position' = 1
    /\ UNCHANGED <<journal, unsynced, torn, audit, auditFailed, locks, cmd, todo, recovered, world>>

\* The audit trail ends in an incomplete line: the daemon stays down, behind a new cache.
AuditUnreadable ==
    /\ pc = "idle" /\ ~up
    /\ FilesPass /\ "audit" \in torn
    /\ cache # FreshCache /\ cache' = FreshCache
    /\ UNCHANGED <<journal, unsynced, torn, trail, up, mem, locks, pc, cmd, todo, position, recovered, world>>

RecordedEntry ==
    Entry(position, journal[position].cmd.run,
          ProjectedFields(journal[position].cmd, journal[position].after))

\* Every journal record is projected again, against the latest snapshot of its run.
ProjectRecorded ==
    /\ pc = "project" /\ position <= Len(journal)
    /\ AuditAppend(RecordedEntry) /\ KeepLatest(RecordedEntry)
    /\ position' = position + 1
    /\ UNCHANGED <<journal, unsynced, torn, cache, up, mem, locks, pc, cmd, todo, recovered, world>>

ProjectRecordedFails ==
    /\ pc = "project" /\ position <= Len(journal)
    /\ AuditThrows(RecordedEntry)
    /\ Throw
    /\ UNCHANGED <<journal, unsynced, cache, mem, locks, degraded>>

\* Mutant: external processes are not reconciled after a restart.
AcquireLocksOnly ==
    /\ pc = "project" /\ position > Len(journal)
    /\ holders' = LiveRuns(mem) /\ runLocks' = LiveRuns(mem)
    /\ todo' = {}
    /\ pc' = "reconcile"
    /\ UNCHANGED <<files, up, mem, snapshots, auditFailed, cmd, position, recovered, world>>

AcquireLocks ==
    /\ pc = "project" /\ position > Len(journal)
    /\ holders' = LiveRuns(mem) /\ runLocks' = LiveRuns(mem)
    /\ todo' = {r \in LiveRuns(mem) : mem.runs[r].external_process}
    /\ pc' = "reconcile"
    /\ UNCHANGED <<files, up, mem, snapshots, auditFailed, cmd, position, recovered, world>>

\* REPOSITORY_BUSY: another live process owns the lock file.
LocksBusy ==
    /\ pc = "project" /\ position > Len(journal)
    /\ "busy" \in Faults /\ LiveRuns(mem) # {}
    /\ Throw
    /\ UNCHANGED <<files, mem, snapshots, auditFailed, locks, degraded>>

\* reconcileExternalProcess answers `running`; any other answer, or none, fails the run.
KeepProcess(r) ==
    /\ pc = "reconcile" /\ r \in todo /\ r \in procs
    /\ todo' = todo \ {r}
    /\ UNCHANGED <<files, up, mem, snapshots, auditFailed, locks, pc, cmd, position, recovered, world>>

FailProcess(r) ==
    /\ pc = "reconcile" /\ r \in todo
    /\ todo' = todo \ {r}
    /\ BeginPersist(Command("RUN_FAILED", r, 0))
    /\ UNCHANGED <<files, up, mem, snapshots, auditFailed, locks, position, recovered, world>>

EndRecovery ==
    /\ pc = "reconcile" /\ todo = {}
    /\ recovered' = TRUE
    /\ pc' = "idle" /\ position' = 0
    /\ UNCHANGED <<files, up, mem, snapshots, auditFailed, locks, cmd, todo, world>>

-----------------------------------------------------------------------------
(* The operations.  ensureRecovered only asks whether the three references are set. *)

\* A file or the process still bears the mark of a failed write.
Damaged == torn # {} \/ unsynced # {} \/ auditFailed \/ degraded

\* The bound on records is another while it does, and one less after a second stop.
RecordBound == IF Damaged THEN MaxDamaged ELSE IF stops > 1 THEN MaxRecords - 1 ELSE MaxRecords

Ready == pc = "idle" /\ up /\ Len(journal) < RecordBound

NewRun == 1 + Cardinality({i \in DOMAIN journal : journal[i].cmd.type = "RUN_ACCEPTED"})

\* Mutant: the request index is not consulted before a run is created.
SubmitAgain(q) ==
    /\ Ready /\ NewRun \in Runs
    /\ holders' = holders \cup {Admission} /\ runLocks' = runLocks \cup {NewRun}
    /\ cmd' = Command("RUN_ACCEPTED", NewRun, q) /\ pc' = "append"
    /\ UNCHANGED <<files, up, mem, snapshots, auditFailed, todo, position, recovered, world>>

\* A known request_id is answered with its run and changes nothing.
Submit(q) ==
    /\ Ready /\ NewRun \in Runs
    /\ mem.requests[q] = None
    /\ holders' = holders \cup {Admission} /\ runLocks' = runLocks \cup {NewRun}
    /\ BeginPersist(Command("RUN_ACCEPTED", NewRun, q))
    /\ UNCHANGED <<files, up, mem, snapshots, auditFailed, todo, position, recovered, world>>

\* An operation that persists one command and nothing else before it.
Record(c) ==
    /\ Ready /\ BeginPersist(c)
    /\ UNCHANGED <<files, up, mem, snapshots, auditFailed, locks, todo, position, recovered, degraded, stops>>

RecordExternalProcessStarted(r) ==
    /\ Record(Command("EXTERNAL_PROCESS_STARTED", r, 0))
    /\ procs' = procs \cup {r}

RecordAttempt(r) ==
    Record(Command("ATTEMPT_RECORDED", r, mem.runs[r].attempts + 1)) /\ UNCHANGED procs

Reinspect(r) ==
    Record(Command("PATHS_REINSPECTED", r, mem.runs[r].epoch + 1)) /\ UNCHANGED procs

RecordAcceptedCandidate(r, t) == Record(Command("CANDIDATE_ACCEPTED", r, t)) /\ UNCHANGED procs

RecordReviewVerdict(r, t) == Record(Command("REVIEW_VERDICT_RECORDED", r, t)) /\ UNCHANGED procs

RecordCommitCreated(r, t) == Record(Command("COMMIT_CREATED", r, t)) /\ UNCHANGED procs

RecordPublication(r, t) ==
    \E type \in PublicationTypes : Record(Command(type, r, t)) /\ UNCHANGED procs

RecordFailure(r) == Record(Command("RUN_FAILED", r, 1)) /\ UNCHANGED procs

RecordAbort(r) == Record(Command("RUN_ABORTED", r, 0)) /\ UNCHANGED procs

\* A retry of an ending that is journaled: persist returns at once, the locks go.
RetryEnding(r) ==
    /\ pc = "idle" /\ up /\ mem.runs[r].state # "NONE"
    /\ \E i \in DOMAIN journal :
        journal[i].cmd.run = r /\ journal[i].cmd.type \in EndingTypes /\ StableId(journal[i].cmd)
    /\ r \in holders \cup runLocks
    /\ holders' = holders \ {r} /\ runLocks' = runLocks \ {r}
    /\ UNCHANGED <<files, up, mem, snapshots, auditFailed, pc, cmd, todo, position, recovered, world>>

EvidenceEntry(r) == Entry(EvidenceEvent, r, PreviousFields(r) \cup {"prompt"})

RecordAuditEvidence(r) ==
    /\ pc = "idle" /\ up /\ mem.runs[r].state # "NONE"
    /\ \/ /\ AuditAppend(EvidenceEntry(r))
          /\ snapshots' = [snapshots EXCEPT ![r] = EntryPosition(EvidenceEntry(r))]
          /\ UNCHANGED torn
       \/ AuditThrows(EvidenceEntry(r))
    /\ UNCHANGED <<journal, unsynced, cache, up, mem, locks, pc, cmd, todo, position, recovered, world>>

NewAuditEntry(e) == ~auditFailed /\ EntriesOf(e.event, e.run) = {}

\* The files a process may be writing a line to at this point.
BeingWritten ==
    {f \in {"journal", "audit"} :
        \/ f = "journal" /\ pc = "append"
        \/ f = "audit" /\ pc = "audit" /\ NewAuditEntry(EventEntry)
        \/ f = "audit" /\ pc = "project" /\ position <= Len(journal) /\ NewAuditEntry(RecordedEntry)
        \/ f = "audit" /\ pc = "idle"
            /\ \E r \in Runs : mem.runs[r].state # "NONE" /\ NewAuditEntry(EvidenceEntry(r))}

\* A crash anywhere, or close() between operations.  A line being written may stay
\* incomplete, one that was not synced is there or lost.  The lock files of a dead
\* owner are reclaimed; external processes may or may not outlive the broker.
Stop ==
    /\ up /\ stops < MaxStops
    /\ journal' \in {journal} \cup {Append(journal, RecordOf(c)) : c \in unsynced}
    /\ unsynced' = {}
    /\ torn' \in {torn} \cup {torn \cup {f} : f \in BeingWritten}
    /\ up' = FALSE /\ mem' = initialBrokerState
    /\ snapshots' = [r \in Runs |-> 0] /\ auditFailed' = FALSE
    /\ holders' = {} /\ runLocks' = {}
    /\ pc' = "idle" /\ cmd' = NoCommand /\ todo' = {} /\ position' = 0
    /\ recovered' = FALSE
    /\ procs' \in SUBSET procs
    /\ stops' = stops + 1
    /\ UNCHANGED <<cache, audit, degraded>>

PersistStep ==
    \/ AppendJournal \/ AppendFails \/ ReplaceCache \/ CacheFails
    \/ FinishPersist \/ ProjectionFails

RecoveryStep ==
    \/ ReadFiles \/ AuditUnreadable \/ ProjectRecorded \/ ProjectRecordedFails \/ AcquireLocks \/ LocksBusy
    \/ \E r \in Runs : KeepProcess(r) \/ FailProcess(r)
    \/ EndRecovery

Operation ==
    \/ \E q \in Requests : Submit(q)
    \/ \E r \in Runs :
        \/ RecordExternalProcessStarted(r) \/ RecordAttempt(r) \/ Reinspect(r)
        \/ RecordFailure(r) \/ RecordAbort(r) \/ RetryEnding(r) \/ RecordAuditEvidence(r)
        \/ \E t \in Trees :
            \/ RecordAcceptedCandidate(r, t) \/ RecordReviewVerdict(r, t)
            \/ RecordCommitCreated(r, t) \/ RecordPublication(r, t)

Next == PersistStep \/ RecoveryStep \/ Operation \/ Stop

Spec == Init /\ [][Next]_vars

-----------------------------------------------------------------------------
(* Properties. *)

\* Every variable has its type.
TypeOK ==
    /\ journal \in Seq([cmd : Commands, after : BrokerStates])
    /\ unsynced \subseteq Commands /\ torn \subseteq {"journal", "audit"}
    /\ up \in BOOLEAN /\ auditFailed \in BOOLEAN /\ recovered \in BOOLEAN /\ degraded \in BOOLEAN
    /\ cache \in [sequence : Nat, state : BrokerStates]
    /\ audit \in Seq([event : Nat, run : Runs, fields : SUBSET
                        {"finished_at", "diff", "capability_snapshot_hash", "prompt"}])
    /\ mem \in BrokerStates
    /\ snapshots \in [Runs -> Nat]
    /\ holders \subseteq Runs \cup {Admission} /\ runLocks \subseteq Runs
    /\ pc \in {"idle", "append", "cache", "audit", "project", "reconcile"}
    /\ cmd \in Commands /\ todo \subseteq Runs /\ position \in Nat
    /\ procs \subseteq Runs /\ stops \in 0..MaxStops

\* What the journal file replays to is what the daemon answers from, between any two
\* operations and after any crash, or it is that and the one command whose append threw
\* after its line was complete.  A file that no longer parses, or a cache replacement that
\* failed, ends this.
MemoryMatchesJournal ==
    up /\ pc # "cache" /\ ~degraded =>
        /\ mem = Replayed
        /\ Cardinality(unsynced) <= 1
        /\ \A c \in unsynced : Reduce(mem, c).ok /\ "journal" \notin torn

\* As long as the lines of the journal are whole, the files pass recoverBrokerStateV4
\* wherever the process died: the journal replays, a record that was written and never
\* acknowledged included, and the cache is the state of a prefix of it.  A journal that
\* ends in a part of a line, or repeats a sequence number, is refused for good; a cache
\* replacement that failed may leave the two apart.
Restartable ==
    ~degraded /\ "journal" \notin torn =>
        /\ FilesPass
        /\ \A c \in unsynced : Reduce(Replayed, c).ok

Journaled(r, types) == \E i \in DOMAIN journal : journal[i].cmd.run = r /\ journal[i].cmd.type \in types

\* Nothing is visible before it is durable: whatever I/O step failed before,
\* memory shows no run, attempt, candidate, commit or ending that the journal lacks.
WriteAhead ==
    \A r \in Runs :
        /\ mem.runs[r].state # "NONE" => Journaled(r, {"RUN_ACCEPTED"})
        /\ mem.runs[r].state \in Ended => Journaled(r, EndingTypes)
        /\ mem.runs[r].attempts > 0 => Journaled(r, {"ATTEMPT_RECORDED"})
        /\ mem.runs[r].external_process => Journaled(r, {"EXTERNAL_PROCESS_STARTED"})

Acceptances(q) ==
    {i \in DOMAIN journal : journal[i].cmd.type = "RUN_ACCEPTED" /\ journal[i].cmd.arg = q}

\* A request has one accepted run, retries after errors and restarts included,
\* unless a cache replacement failed.
RequestHasOneRun == ~degraded => \A q \in Requests : Cardinality(Acceptances(q)) <= 1

\* Every executor launch and every candidate follows the inspection of the last
\* attempt, and what is committed and merged is the tree that was accepted.
EvidenceBound ==
    \A i \in DOMAIN journal : \A r \in Runs :
        LET run == journal[i].after.runs[r] IN
        /\ run.external_process => run.epoch > run.attempts
        /\ run.tree # None => run.attempts >= 1 /\ run.epoch > run.attempts
        /\ run.commit # None => run.commit = run.tree
        /\ run.merged => run.commit # None /\ run.state = "FINALIZED"

\* An ended run never changes again, in the journal and for every reader of it,
\* unless a cache replacement failed.
EndedIsFinal ==
    [][~degraded => \A r \in Runs :
        Replayed.runs[r].state \in Ended => Replayed'.runs[r] = Replayed.runs[r]]_vars

\* The audit trail tells the journal's events in the journal's order without a
\* gap: an event is audited after it is durable and after all earlier ones,
\* unless a cache replacement failed.
AuditFollowsJournal ==
    ~degraded => \A j \in DOMAIN audit : audit[j].event # EvidenceEvent =>
        /\ audit[j].event \in DOMAIN journal
        /\ audit[j].run = journal[audit[j].event].cmd.run
        /\ \A k \in 1..(audit[j].event - 1) : \E i \in 1..(j - 1) : audit[i].event = k

\* After a complete recovery, and as long as cache and audit trail work, the daemon
\* holds the repository and the run lock for exactly the runs that are alive.
LocksAreTheLiveRuns ==
    recovered /\ ~auditFailed /\ ~degraded /\ pc = "idle" =>
        holders = LiveRuns(mem) /\ runLocks = LiveRuns(mem)

\* After a complete recovery no run still claims an external process that did
\* not survive the restart.
OrphansAreFailed ==
    recovered /\ pc = "idle" => \A r \in Runs : mem.runs[r].external_process => r \in procs

\* The daemon after a restart: nothing is visible that is not durable, the locks are those of
\* the live runs, and no run claims a process that is gone.
RecoverySound == WriteAhead /\ LocksAreTheLiveRuns /\ OrphansAreFailed

\* What the documents say, and the code does not do.

\* "Replaying a canonical `request_id` returns its original `run_id` without
\* scheduling duplicate work."
RequestAcceptedOnce == \A q \in Requests : Cardinality(Acceptances(q)) <= 1

\* "makes repeated event IDs idempotent": without an I/O error no projection conflicts.
RecoveryProjects == ~auditFailed
=============================================================================
