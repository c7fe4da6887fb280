------------------------ MODULE AutonomousDispatcher ------------------------
(***************************************************************************)
(* The durable supervisor of src/runtime/autonomous-dispatcher.ts.         *)
(*                                                                         *)
(* One process runs dispatch cycles against a state file that is replaced  *)
(* atomically (writeState).  A cycle first resubmits tasks that were       *)
(* claimed but never started, then resumes the running ones and reports    *)
(* their outcome to the task source, and finally lists and claims new      *)
(* candidates.  Every await of the cycle is a point where the process may  *)
(* crash or the awaited call may throw; both lose the volatile part of the *)
(* state and keep the file, so both are the action AbortCycle.             *)
(*                                                                         *)
(* Abstractions.  A candidate (candidate_id + revision) is its position in *)
(* the source's listing, its request and its run are named by the same     *)
(* number.  Timestamps, hashes and evidence are left out: the dispatcher   *)
(* stores lease_expires_at and the evidence hashes but never reads them.   *)
(***************************************************************************)
EXTENDS Integers, Sequences, FiniteSets

CONSTANTS
    NumCandidates,  \* size of the source's listing
    Authorized,     \* candidates that satisfy the dispatch policy
    MaxActive,      \* policy.max_active_tasks
    MaxClaims,      \* policy.max_claims_per_cycle
    MaxFailures,    \* policy.max_consecutive_failures
    LeasesLapse,    \* may the source let a lease expire?
    Withdrawable,   \* candidates the source may stop serving unchanged
    RunOutcomes,    \* how a run may end, as runtime.resume shows it
    MaxAborts       \* bound: crashes and thrown errors in one behaviour

Candidates == 1..NumCandidates
NoRun == 0

\* validatePolicy: the limits are positive and a cycle never claims more than may be active.
ASSUME PolicyAssumption ==
    /\ NumCandidates \in Nat \ {0}
    /\ MaxActive \in Nat \ {0}
    /\ MaxClaims \in 1..MaxActive
    /\ MaxFailures \in Nat \ {0}
    /\ MaxAborts \in Nat
    /\ LeasesLapse \in BOOLEAN
    /\ Authorized \subseteq Candidates
    /\ Withdrawable \subseteq Candidates
    /\ RunOutcomes \subseteq {"failed", "merged", "unmerged"}

VARIABLES
    \* the state file autonomous-dispatch-v4.json
    mode, cursor, circuit_open, consecutive_failures, tasks,
    \* the cycle in progress: lost by a crash or an exception
    pc, todoClaimed, todoRunning, page, next_cursor,
    \* the task source and the runtime, as the ports show them
    lease, sourceLog, withdrawn, run,
    aborts

durable  == <<mode, cursor, circuit_open, consecutive_failures, tasks>>
volatile == <<pc, todoClaimed, todoRunning, page, next_cursor>>
outside  == <<lease, sourceLog, withdrawn, run>>
vars     == <<mode, cursor, circuit_open, consecutive_failures, tasks,
              pc, todoClaimed, todoRunning, page, next_cursor,
              lease, sourceLog, withdrawn, run, aborts>>

Modes     == {"RUNNING", "DRAINING", "PAUSED"}
Active    == {"CLAIMED", "RUNNING"}
Terminal  == {"COMPLETED", "REOPENED", "FAILED"}
Tasks     == [cand : Candidates, status : Active \cup Terminal,
              run_id : Candidates \cup {NoRun}]
Mutations == {"complete", "reopen", "fail"}
Locations == {"idle", "loop", "start", "recordStarted", "resume", "fail", "recordFailed",
              "verify", "recordCompleted", "recordReopened",
              "admit", "recordClaim", "startNew", "recordNew"}

-----------------------------------------------------------------------------
(* Helpers on the stored state. *)

\* parseState refuses a file whose task lifecycle is inconsistent; every
\* operation starts with readState and throws on such a file.
Readable == \A i \in DOMAIN tasks : (tasks[i].status = "CLAIMED") <=> (tasks[i].run_id = NoRun)

Known(c) == \E i \in DOMAIN tasks : tasks[i].cand = c

ActiveTasks == {i \in DOMAIN tasks : tasks[i].status \in Active}

\* The task of a loop over a filtered array: the first index not yet handled.
First(S) == CHOOSE i \in S : \A j \in S : i <= j

\* replaceTask: the entry with the same identity is replaced.
ReplaceTask(i, status, runId) ==
    [tasks EXCEPT ![i].status = status, ![i].run_id = runId]

Min2(a, b) == IF a <= b THEN a ELSE b

\* Room for new claims when the listing is reached.
Capacity ==
    IF mode # "RUNNING" \/ circuit_open
    THEN 0
    ELSE Min2(MaxClaims, MaxActive - Cardinality(ActiveTasks))

-----------------------------------------------------------------------------
(* Initial state: no file yet, so initialState(); the source is untouched. *)

Init ==
    /\ mode = "PAUSED" /\ cursor = 0 /\ circuit_open = FALSE
    /\ consecutive_failures = 0 /\ tasks = <<>>
    /\ pc = "idle" /\ todoClaimed = {} /\ todoRunning = {}
    /\ page = <<>> /\ next_cursor = 0
    /\ lease = [c \in Candidates |-> "free"]
    /\ sourceLog = [c \in Candidates |-> <<>>]
    /\ withdrawn = {}
    /\ run = [c \in Candidates |-> "none"]
    /\ aborts = 0

\* A failed outcome counts towards the breaker, which the same write opens or closes.
CountFailure ==
    /\ consecutive_failures' = consecutive_failures + 1
    /\ circuit_open' = (consecutive_failures + 1 >= MaxFailures)

-----------------------------------------------------------------------------
(* Operator commands.  `running` rejects them during a cycle. *)

\* Mutant: the busy guard is missing.
SetModeUnguarded(m) ==
    /\ Readable /\ mode # m
    /\ mode' = m
    /\ UNCHANGED <<cursor, circuit_open, consecutive_failures, tasks, volatile, outside, aborts>>

SetMode(m) ==
    /\ pc = "idle" /\ Readable /\ mode # m
    /\ mode' = m
    /\ UNCHANGED <<cursor, circuit_open, consecutive_failures, tasks, volatile, outside, aborts>>

ResetCircuit ==
    /\ pc = "idle" /\ Readable
    /\ circuit_open \/ consecutive_failures # 0
    /\ mode = "PAUSED"
    /\ circuit_open' = FALSE /\ consecutive_failures' = 0
    /\ UNCHANGED <<mode, cursor, tasks, volatile, outside, aborts>>

-----------------------------------------------------------------------------
(* runCycle.  A PAUSED cycle does nothing, so only the others begin one. *)

\* Mutant: the second loop takes every task that is not CLAIMED.
BeginCycleUnfiltered ==
    /\ pc = "idle" /\ Readable /\ mode # "PAUSED"
    /\ pc' = "loop"
    /\ todoClaimed' = {i \in DOMAIN tasks : tasks[i].status = "CLAIMED"}
    /\ todoRunning' = {i \in DOMAIN tasks : tasks[i].status # "CLAIMED"}
    /\ UNCHANGED <<durable, page, next_cursor, outside, aborts>>

BeginCycle ==
    /\ pc = "idle" /\ Readable /\ mode # "PAUSED"
    /\ pc' = "loop"
    /\ todoClaimed' = {i \in DOMAIN tasks : tasks[i].status = "CLAIMED"}
    /\ todoRunning' = {i \in DOMAIN tasks : tasks[i].status = "RUNNING"}
    /\ UNCHANGED <<durable, page, next_cursor, outside, aborts>>

\* The first loop: a task claimed by an earlier cycle that never reached RUNNING.
RejectClaimed ==
    /\ pc = "loop" /\ todoClaimed # {}
    /\ LET c == tasks[First(todoClaimed)].cand IN c \in withdrawn \/ c \notin Authorized
    /\ pc' = "idle" /\ todoClaimed' = {} /\ todoRunning' = {}
    /\ UNCHANGED <<durable, page, next_cursor, outside, aborts>>

ServesClaimed(c) == c \notin withdrawn /\ c \in Authorized

RenewClaimed ==
    /\ pc = "loop" /\ todoClaimed # {}
    /\ LET c == tasks[First(todoClaimed)].cand IN ServesClaimed(c) /\ lease[c] = "held"
    /\ pc' = "start"
    /\ UNCHANGED <<durable, todoClaimed, todoRunning, page, next_cursor, outside, aborts>>

\* The stored task keeps run_id = null and becomes FAILED.
LoseClaimed ==
    /\ pc = "loop" /\ todoClaimed # {}
    /\ LET i == First(todoClaimed) IN
        /\ ServesClaimed(tasks[i].cand) /\ lease[tasks[i].cand] # "held"
        /\ tasks' = ReplaceTask(i, "FAILED", tasks[i].run_id)
        /\ todoClaimed' = todoClaimed \ {i}
    /\ CountFailure
    /\ UNCHANGED <<mode, cursor, pc, todoRunning, page, next_cursor, outside, aborts>>

\* runtime.start is idempotent in request_id: a second call returns the same run.
StartRun(c) == run' = [run EXCEPT ![c] = IF @ = "none" THEN "active" ELSE @]

SubmitClaimed ==
    /\ pc = "start"
    /\ StartRun(tasks[First(todoClaimed)].cand)
    /\ pc' = "recordStarted"
    /\ UNCHANGED <<durable, todoClaimed, todoRunning, page, next_cursor,
                   lease, sourceLog, withdrawn, aborts>>

RecordStarted ==
    /\ pc = "recordStarted"
    /\ LET i == First(todoClaimed) IN
        /\ tasks' = ReplaceTask(i, "RUNNING", tasks[i].cand)
        /\ todoClaimed' = todoClaimed \ {i}
    /\ pc' = "loop"
    /\ UNCHANGED <<mode, cursor, circuit_open, consecutive_failures,
                   todoRunning, page, next_cursor, outside, aborts>>

-----------------------------------------------------------------------------
(* The second loop: tasks that were RUNNING when the cycle began. *)

AtRunning == pc = "loop" /\ todoClaimed = {} /\ todoRunning # {}

\* Mutant: the running task is resumed without renewing its lease first.
ResumeUnrenewed ==
    /\ AtRunning
    /\ pc' = "resume"
    /\ UNCHANGED <<durable, todoClaimed, todoRunning, page, next_cursor, outside, aborts>>

RenewRunning ==
    /\ AtRunning
    /\ lease[tasks[First(todoRunning)].cand] = "held"
    /\ pc' = "resume"
    /\ UNCHANGED <<durable, todoClaimed, todoRunning, page, next_cursor, outside, aborts>>

\* Mutant: the outcome of a task whose lease is gone is not recorded.
LoseRunningSilently ==
    /\ AtRunning
    /\ LET i == First(todoRunning) IN
        /\ lease[tasks[i].cand] # "held"
        /\ todoRunning' = todoRunning \ {i}
    /\ UNCHANGED <<durable, pc, todoClaimed, page, next_cursor, outside, aborts>>

LoseRunning ==
    /\ AtRunning
    /\ LET i == First(todoRunning) IN
        /\ lease[tasks[i].cand] # "held"
        /\ tasks' = ReplaceTask(i, "FAILED", tasks[i].run_id)
        /\ todoRunning' = todoRunning \ {i}
    /\ CountFailure
    /\ UNCHANGED <<mode, cursor, pc, todoClaimed, page, next_cursor, outside, aborts>>

\* resume() returns the run's durable state and drives it on; a live run only
\* extends the stored lease, a finished one is reported, and a run finalized
\* without a merge makes the cycle throw.
ResumeRun ==
    /\ pc = "resume"
    /\ LET i == First(todoRunning)
           r == run[tasks[i].cand] IN
        \/ /\ r = "active" /\ pc' = "loop" /\ todoRunning' = todoRunning \ {i}
        \/ /\ r = "failed" /\ pc' = "fail" /\ UNCHANGED todoRunning
        \/ /\ r = "merged" /\ pc' = "verify" /\ UNCHANGED todoRunning
        \/ /\ r = "unmerged" /\ pc' = "idle" /\ todoRunning' = {}
    /\ UNCHANGED <<durable, todoClaimed, page, next_cursor, outside, aborts>>

\* source.fail / complete / reopen: the mutation is applied and the source drops the lease.
MutateSource(c, m) ==
    /\ sourceLog' = [sourceLog EXCEPT ![c] = Append(@, m)]
    /\ lease' = [lease EXCEPT ![c] = "free"]
    /\ UNCHANGED <<withdrawn, run>>

ReportFailure ==
    /\ pc = "fail"
    /\ MutateSource(tasks[First(todoRunning)].cand, "fail")
    /\ pc' = "recordFailed"
    /\ UNCHANGED <<durable, todoClaimed, todoRunning, page, next_cursor, aborts>>

VerifyPasses ==
    /\ pc = "verify"
    /\ MutateSource(tasks[First(todoRunning)].cand, "complete")
    /\ pc' = "recordCompleted"
    /\ UNCHANGED <<durable, todoClaimed, todoRunning, page, next_cursor, aborts>>

VerifyFails ==
    /\ pc = "verify"
    /\ MutateSource(tasks[First(todoRunning)].cand, "reopen")
    /\ pc' = "recordReopened"
    /\ UNCHANGED <<durable, todoClaimed, todoRunning, page, next_cursor, aborts>>

\* The writeState that follows each report.
RecordOutcome(from, status) ==
    /\ pc = from
    /\ LET i == First(todoRunning) IN
        /\ tasks' = ReplaceTask(i, status, tasks[i].run_id)
        /\ todoRunning' = todoRunning \ {i}
    /\ pc' = "loop"
    /\ UNCHANGED <<mode, cursor, todoClaimed, page, next_cursor, outside, aborts>>

RecordFailed   == RecordOutcome("recordFailed", "FAILED") /\ CountFailure
RecordReopened == RecordOutcome("recordReopened", "REOPENED") /\ CountFailure

RecordCompleted ==
    /\ RecordOutcome("recordCompleted", "COMPLETED")
    /\ consecutive_failures' = 0
    /\ UNCHANGED circuit_open

-----------------------------------------------------------------------------
(* Admission. *)

AtListing == pc = "loop" /\ todoClaimed = {} /\ todoRunning = {}

EndCycleFull ==
    /\ AtListing /\ Capacity <= 0
    /\ pc' = "idle"
    /\ UNCHANGED <<durable, todoClaimed, todoRunning, page, next_cursor, outside, aborts>>

\* The source serves the listing in order, at most `limit` per page; the last
\* page returns the null cursor, so the next listing starts over.
ListCandidates ==
    /\ AtListing /\ Capacity > 0
    /\ LET last == Min2(cursor + Capacity, NumCandidates) IN
        /\ page' = [k \in 1..(last - cursor) |-> cursor + k]
        /\ next_cursor' = IF last = NumCandidates THEN 0 ELSE last
    /\ pc' = "admit"
    /\ UNCHANGED <<durable, todoClaimed, todoRunning, outside, aborts>>

RejectListed ==
    /\ pc = "admit" /\ page # <<>> /\ Head(page) \notin Authorized
    /\ pc' = "idle" /\ page' = <<>> /\ next_cursor' = 0
    /\ UNCHANGED <<durable, todoClaimed, todoRunning, outside, aborts>>

\* A known identity is skipped before any source call; BUSY and STALE claims after it.
Claimable(c) == lease[c] = "free" /\ sourceLog[c] = <<>> /\ c \notin withdrawn

SkipListed ==
    /\ pc = "admit" /\ page # <<>> /\ Head(page) \in Authorized
    /\ Known(Head(page)) \/ ~Claimable(Head(page))
    /\ page' = Tail(page)
    /\ UNCHANGED <<durable, pc, todoClaimed, todoRunning, next_cursor, outside, aborts>>

ClaimListed ==
    /\ pc = "admit" /\ page # <<>> /\ Head(page) \in Authorized
    /\ ~Known(Head(page)) /\ Claimable(Head(page))
    /\ lease' = [lease EXCEPT ![Head(page)] = "held"]
    /\ pc' = "recordClaim"
    /\ UNCHANGED <<durable, todoClaimed, todoRunning, page, next_cursor,
                   sourceLog, withdrawn, run, aborts>>

\* Mutant: the new task is stored with a status parseState does not know.
RecordClaimPending ==
    /\ pc = "recordClaim"
    /\ tasks' = Append(tasks, [cand |-> Head(page), status |-> "PENDING", run_id |-> NoRun])
    /\ pc' = "startNew"
    /\ UNCHANGED <<mode, cursor, circuit_open, consecutive_failures,
                   todoClaimed, todoRunning, page, next_cursor, outside, aborts>>

RecordClaim ==
    /\ pc = "recordClaim"
    /\ tasks' = Append(tasks, [cand |-> Head(page), status |-> "CLAIMED", run_id |-> NoRun])
    /\ pc' = "startNew"
    /\ UNCHANGED <<mode, cursor, circuit_open, consecutive_failures,
                   todoClaimed, todoRunning, page, next_cursor, outside, aborts>>

SubmitNew ==
    /\ pc = "startNew"
    /\ StartRun(Head(page))
    /\ pc' = "recordNew"
    /\ UNCHANGED <<durable, todoClaimed, todoRunning, page, next_cursor,
                   lease, sourceLog, withdrawn, aborts>>

RecordNew ==
    /\ pc = "recordNew"
    /\ tasks' = ReplaceTask(Len(tasks), "RUNNING", Head(page))
    /\ page' = Tail(page)
    /\ pc' = "admit"
    /\ UNCHANGED <<mode, cursor, circuit_open, consecutive_failures,
                   todoClaimed, todoRunning, next_cursor, outside, aborts>>

\* The cursor moves only when the whole page has been handled.
AdvanceCursor ==
    /\ pc = "admit" /\ page = <<>>
    /\ cursor' = next_cursor
    /\ pc' = "idle" /\ next_cursor' = 0
    /\ UNCHANGED <<mode, circuit_open, consecutive_failures, tasks,
                   todoClaimed, todoRunning, page, outside, aborts>>

\* A crash, or an awaited call that throws: `finally` ends the cycle, the file stays.
AbortCycle ==
    /\ pc # "idle" /\ aborts < MaxAborts
    /\ pc' = "idle" /\ todoClaimed' = {} /\ todoRunning' = {}
    /\ page' = <<>> /\ next_cursor' = 0
    /\ aborts' = aborts + 1
    /\ UNCHANGED <<durable, outside>>

-----------------------------------------------------------------------------
(* The source and the runtime move on their own. *)

LeaseLapses(c) ==
    /\ LeasesLapse /\ lease[c] = "held"
    /\ lease' = [lease EXCEPT ![c] = "free"]
    /\ UNCHANGED <<durable, volatile, sourceLog, withdrawn, run, aborts>>

CandidateWithdrawn(c) ==
    /\ c \in Withdrawable /\ c \notin withdrawn
    /\ withdrawn' = withdrawn \cup {c}
    /\ UNCHANGED <<durable, volatile, lease, sourceLog, run, aborts>>

RunEnds(c) ==
    /\ run[c] = "active"
    /\ \E r \in RunOutcomes : run' = [run EXCEPT ![c] = r]
    /\ UNCHANGED <<durable, volatile, lease, sourceLog, withdrawn, aborts>>

CycleStep ==
    \/ BeginCycle \/ RejectClaimed \/ RenewClaimed \/ LoseClaimed
    \/ SubmitClaimed \/ RecordStarted
    \/ RenewRunning \/ LoseRunning \/ ResumeRun
    \/ ReportFailure \/ VerifyPasses \/ VerifyFails
    \/ RecordFailed \/ RecordCompleted \/ RecordReopened
    \/ EndCycleFull \/ ListCandidates \/ RejectListed \/ SkipListed
    \/ ClaimListed \/ RecordClaim \/ SubmitNew \/ RecordNew \/ AdvanceCursor

Environment ==
    \E c \in Candidates : LeaseLapses(c) \/ CandidateWithdrawn(c) \/ RunEnds(c)

Next ==
    \/ CycleStep
    \/ AbortCycle
    \/ \E m \in Modes : SetMode(m)
    \/ ResetCircuit
    \/ Environment

Spec == Init /\ [][Next]_vars

\* The awaits of a cycle settle, so a cycle that has begun is carried on.  Nothing makes
\* another one begin: runAutonomousDispatcherLoopV4 has no handler, the first cycle that
\* throws ends it, and starting it again is up to whoever runs the process.
FairSpec == Spec /\ WF_vars(pc # "idle" /\ CycleStep)

-----------------------------------------------------------------------------
(* Properties. *)

\* Every variable has its type; a task's run is its own candidate's.
TypeOK ==
    /\ mode \in Modes /\ cursor \in 0..(NumCandidates - 1)
    /\ circuit_open \in BOOLEAN /\ consecutive_failures \in Nat
    /\ tasks \in Seq(Tasks)
    /\ pc \in Locations
    /\ todoClaimed \subseteq DOMAIN tasks /\ todoRunning \subseteq DOMAIN tasks
    /\ page \in Seq(Candidates) /\ next_cursor \in 0..(NumCandidates - 1)
    /\ lease \in [Candidates -> {"free", "held"}]
    /\ sourceLog \in [Candidates -> Seq(Mutations)]
    /\ withdrawn \subseteq Candidates
    /\ run \in [Candidates -> {"none", "active", "failed", "merged", "unmerged"}]
    /\ aborts \in 0..MaxAborts

\* The state file never holds two tasks of one candidate revision, whatever
\* page a restarted listing serves again (parseState would refuse the file).
UniqueIdentities ==
    \A i, j \in DOMAIN tasks : tasks[i].cand = tasks[j].cand => i = j

\* Claimed and running tasks together never exceed max_active_tasks, crashes
\* between claim, submission and the state writes included.
ActiveBounded == Cardinality(ActiveTasks) <= MaxActive

\* Once the failure counter reaches the policy's limit the breaker is open.
BreakerTrips == consecutive_failures >= MaxFailures => circuit_open

\* Between listing a page and claiming its last candidate the dispatcher stays
\* in RUNNING mode with a closed breaker: nothing it awaits in between, and no
\* operator command, can turn admission off under a page being admitted.
AdmissionAuthorized ==
    pc \in {"admit", "recordClaim", "startNew", "recordNew"} => mode = "RUNNING" /\ ~circuit_open

\* A COMPLETED task was closed at the source, after its run had merged.
CompletionBacked ==
    \A i \in DOMAIN tasks : tasks[i].status = "COMPLETED" =>
        /\ sourceLog[tasks[i].cand] = <<"complete">>
        /\ run[tasks[i].cand] = "merged"

\* The source sees at most one disposition of a candidate revision, however
\* often the process dies between telling the source and recording it.
OneDisposition == \A c \in Candidates : Len(sourceLog[c]) <= 1

\* Admission is sound: unique identities, bounded work, and authority for all of a page.
AdmissionsSound == UniqueIdentities /\ ActiveBounded /\ AdmissionAuthorized

\* What the source is told is told once, and a completion truly.
DispositionsSound == OneDisposition /\ CompletionBacked

\* The refinement mapping: the status of the task the file stores for a candidate.
StoredStatus(c) ==
    IF Known(c) THEN tasks[CHOOSE i \in DOMAIN tasks : tasks[i].cand = c].status ELSE "NONE"

Ledger == INSTANCE TaskLedger WITH entry <- [c \in Candidates |-> StoredStatus(c)], told <- sourceLog

\* The dispatcher implements TaskLedger: through any interleaving of cycles, lapsed leases,
\* crashes and restarts each candidate's task is claimed, started and ended once, the source
\* is told once, and what is recorded is what it was told, or a loss.
ImplementsLedger == Ledger!Spec

\* Stored tasks never disappear, a terminal task never changes, a running task
\* never goes back to CLAIMED and never changes its run.
TaskHistory ==
    [][\A i \in DOMAIN tasks :
        /\ i \in DOMAIN tasks' /\ tasks'[i].cand = tasks[i].cand
        /\ tasks[i].status \in Terminal => tasks'[i] = tasks[i]
        /\ tasks[i].run_id # NoRun => tasks'[i].run_id = tasks[i].run_id
                                      /\ tasks'[i].status # "CLAIMED"]_vars

\* Cycles are begun again and again: by the loop, or after a cycle that threw by whoever
\* starts it again.  In PAUSED mode none is.
CyclesKeepBeginning == []<><<BeginCycle>>_vars

\* As long as cycles are begun, the run of a stored task that has ended makes the task
\* terminal, even when each of these cycles throws at the listing and crashes come between.
OutcomesRecorded ==
    CyclesKeepBeginning =>
        \A c \in Candidates :
            (run[c] \in {"failed", "merged"} /\ \E i \in DOMAIN tasks : tasks[i].cand = c)
                ~> (\E i \in DOMAIN tasks : tasks[i].cand = c /\ tasks[i].status \in Terminal)

\* What docs/autonomous-dispatcher-v4.md, README.md and the model test of the
\* repository say, and the code does not do.

\* "non-claimed task has no run id": what the dispatcher writes it can read back.
WritesReadableState == Readable

\* "Circuit recovery also requires an explicit paused/reactivation sequence."
BreakerClosesOnlyByReset ==
    [][circuit_open /\ ~circuit_open' => mode = "PAUSED"]_vars
=============================================================================
