# Verification of the agent-orchestration runtime

TLA+ models of the V4 runtime (`src/src/runtime`) and of its routing pilot
(`src/src/pilot`), the TLC runs that check them and the theorems TLAPS proves
about them. `PROJECT.json` lists components, runs,
mutants, findings, hazards and theorems, and maps every definition to the source
lines it models.

    tlc -workers 2 -config MCBrokerRuns.cfg MCBrokerDaemon     # one run
    tlapm BrokerDaemonProofs.tla                               # one set of proofs

Paths below are relative to the repository root, `src/`.

## 1. The system

The runtime takes a software task, lets a coding agent work on it in a sandboxed
worktree, has the result reviewed, and commits and publishes what was accepted.
One host process owns each state directory; what survives it are files.

| component | state it keeps | operations | talks to |
|---|---|---|---|
| Autonomous dispatcher (`autonomous-dispatcher.ts`) | state file: mode, cursor, breaker, tasks | `runCycle`, `setMode`, `resetCircuit` | task source (list, claim, renew, complete, reopen, fail), runtime (start, resume), post-merge verifier |
| Broker daemon (`broker-daemon.ts`) | journal, cache, audit trail, locks; in memory the reduced state and lock holders | `submit`, `record…`, `reinspect`, `recordAuditEvidence`, recovery, `close` | reducer, journal, audit trail, repository and run locks, process reconciliation |
| Run-state reducer (`run-state.ts`) | none: a function of state and command; the cache file | `reduceBrokerStateV4`, `recoverBrokerStateV4`, `writeBrokerStateCacheV4` | called by the daemon |
| Journal (`journal.ts`) | append-only hash chain | append, open with full validation | daemon |
| Audit trail (`audit-trail.ts`) | append-only entries, sticky `appendFailure` | idempotent append | daemon |
| Locks (`repository-lock.ts`) | lock files with owner process and token | acquire with reclamation, release | daemon, other processes |
| Iterative executor (`iterative-executor.ts`, `frontier-supervisor.ts`, `repair-packet.ts`) | event history of stories, attempts and decisions | run, replay, decide | sandbox, validators, supervisor |
| Host composition (`host-composition.ts`) | per run the flight in progress and whether it is being aborted | submit, repair, verdict, finalize, abort, close | broker, the host's pipeline |
| Orchestrator (`orchestrator.ts`) | a map of flights of its own | start, resume, abort; records the failure of a flight | broker, pipeline |
| Finalization, publication (`finalize.ts`, `publication.ts`, `github-publication.ts`, `git-object-writer.ts`) | none of their own; Git and forge objects | commit, push, pull request, checks, merge | broker, Git, GitHub |
| Worktrees (`worktree.ts`) | ownership manifests, terminal marks, tombstones | create, inspect, apply cleanup, mark terminal | Git |
| Docker sandbox (`docker-sandbox.ts`, `docker-container-transaction.ts`) | create records, containers, networks, cached certification | create, start, wait, terminate, certify, clean up | Docker |
| Egress gateway (`provider-egress-gateway.ts`) | a gateway container with the provider key | start, forward, revoke | provider, executor |
| Broker IPC (`broker-ipc.ts`) | token file, endpoint, quarantine slots, connections | start, authenticate, frame, dispatch, close | clients, daemon |
| Bounded processes (`bounded-process.ts`) | one child with its timers and its completion | start, abort, terminate tree | runners |
| Binding health, routing (`binding-health.ts`, `adaptive-execution.ts`, `routing.ts`) | observation files | record, evaluate, choose lane and role | executor |
| Review and validation gates (`reviewer.ts`, `validation.ts`, `review-attestation.ts`) | attestations | execute, validate, review, attest | harness, sandbox |
| Pilot (`src/pilot`) | append-only event log, history of evaluations | append, project, replay a block, evaluate, append a report | none |
| Host installation (`host-installation.ts`) | installed bundles, activation manifests, registry, Codex configuration | install, verify, activate | file system |
| Orchestrator, runners, CLI, MCP, rendering, schemas | none or a map of flights | pure checks and I/O | the above |

The behaviour that is hard to test is the same everywhere: an operation is a
sequence of awaited effects (a call to a foreign service, a file replaced, a line
appended) and a process that may die, or a call that may throw, between any two of
them. What must hold is that the next process, or the next call of the same one,
finds files it accepts, does not do the same thing twice and does not forget
anything. Concurrency inside a process is small: the daemon serializes its
operations, the dispatcher rejects commands during a cycle; control calls of the
host do overlap, with each other and with a flight, and so do executions of the
sandbox and connections of the server. Processes meet at lock files, at the
directory of container records, at the endpoint of the broker and at the registry
of activated repositories. `PROJECT.json` lists the hazards with their lines.

What makes each component correct:

- dispatcher: one stored task per candidate revision, at most one disposition
  reported per revision, completion only of merged runs, capacity, breaker and mode
  respected under every interleaving, outcomes recorded as long as cycles are begun;
- daemon and reducer: memory is the replayed journal, every pair of cache and journal
  with whole lines passes recovery, one run per request, ended runs are final,
  evidence bound to the reviewed tree, audit trail is a gap-free image of the
  journal, locks are those of the live runs;
- iterative executor: a persisted history always replays to the state that wrote
  it, every retry consumes a decision, the tree is the last accepted one;
- publication: only the accepted tree is committed and merged, one pull request,
  every remote boundary journaled before the next, a cut-off call can be repeated;
- host composition: one flight per run, no accepted run stays half-executed;
- worktrees, containers, networks: nothing not owned is removed, and what is owned is
  forgotten only where a lookup failed or came before the effect it looked for;
- sandbox: an execution terminated while in progress is gone, and none runs under a
  certification of another engine;
- gateway: the provider key goes to global addresses only, the checked one;
- locks and endpoint: never two owners, whatever two reclaimers do, and a serving
  broker stays reachable unless an outsider replaced its endpoint;
- processes and exchanges: settled once, and always settled, unless the connection is
  closed in order under a send;
- review: what is accepted was validated and reviewed, unchanged, by a session that
  attested nothing before;
- pilot: the projection is what the corrections say, an accepted block has an
  unbroken chain of revisions, a promotion rests on evidence;
- health: a quarantine ends only after cooldown and canaries, and routing respects the
  snapshots that say so;
- installation: what is activated is complete, verified and registered once.

## 2. Modules

| module | models | used by |
|---|---|---|
| `AutonomousDispatcher` | the dispatcher with the task source, the runtime and the verifier as it sees them | `MCAutonomousDispatcher`, `AutonomousDispatcherProofs` |
| `TaskLedger` | abstract: what the dispatcher promises operator and source | `AutonomousDispatcher` (`INSTANCE … WITH`) |
| `RunState` | the reducer: which command a run accepts and what it does | `BrokerDaemon`, `Publication`, `HostControl` |
| `BrokerDaemon` | persist, recovery, every operation, stop; journal, cache, audit trail and locks | `MCBrokerDaemon`, `BrokerDaemonProofs` |
| `IterativeExecutor` | replay, decision intake and story loop of the executor, and the frontier supervisor | `MCIterativeExecutor`, `IterativeExecutorProofs` |
| `Publication` | finalization and publication of an accepted run, with worktree, refs and forge | `MCPublication`, `PublicationProofs` |
| `HostControl` | the control calls of the host and the flights they schedule | `MCProgress`, `ProgressProofs` |
| `RepositoryLock` | one lock file between processes | `MCResources`, `ResourceProofs` |
| `Worktree` | the worktree manager | `MCResources`, `MCProgress`, `IsolationProofs` |
| `ContainerTransaction` | write-ahead records of containers | `MCResources`, `ResourceProofs` |
| `DockerSandbox` | executions, terminate, shared certification | `MCResources`, `MCProgress`, `IsolationProofs` |
| `Certification` | the hostile certification and its networks | `MCResources`, `ResourceProofs` |
| `EgressGateway` | the gateway container and its requests | `MCResources`, `ResourceProofs` |
| `BrokerEndpoint` | token, socket path, quarantine slots | `MCResources`, `ResourceProofs` |
| `BrokerExchange` | one command over a connection | `MCProgress`, `ProgressProofs` |
| `BoundedProcess` | one child process and its completion | `MCProgress`, `ProgressProofs` |
| `PilotBlock` | the replay of one block of the pilot | `MCRecords`, `RecordsProofs` |
| `EventStore` | the event log and its projection | `MCRecords`, `RecordsProofs` |
| `PilotEvaluation` | the routing gate and its history of reports | `MCPilotEvaluation`, `MCRecords`, `RecordsProofs` |
| `BindingHealth` | quarantine of a binding and the choice of role | `MCRecords`, `RecordsProofs` |
| `HostInstallation` | installing and activating | `MCResources`, `ResourceProofs` |
| `ReviewSequence` | execute, validate, review, attest | `MCRecords`, `RecordsProofs` |

`MCResources`, `MCProgress` and `MCRecords` put components that ask the same question
under one specification. Components in one of them share no variable, so a behaviour of
the product is an interleaving of theirs and a property of one cannot be broken by
another; the variable `focus` is chosen in the initial state and only that component
moves, which keeps the state space a sum. Where components do interact they are one
module (`Publication` has the daemon's record of its run, `ReviewSequence` validation and
attestation) or one is reduced to what the other sees of it, as its header says.

`Mutant:` comments mark operators that are not part of a specification: each is a
definition changed the way a plausible bug would change it, and shows that the
property listed with it in `PROJECT.json` is able to fail.

The proofs are in modules of their own: `AutonomousDispatcherProofs`,
`BrokerDaemonProofs`, `PublicationProofs` and `IterativeExecutorProofs` each extend the
component they are about; `IsolationProofs` (sandbox, worktrees), `ResourceProofs`,
`ProgressProofs` and `RecordsProofs` prove the components of the three compositions one
by one and then the composition (section 4).

### AutonomousDispatcher

State. `mode, cursor, circuit_open, consecutive_failures, tasks` are the fields of
the state file. `pc, todoClaimed, todoRunning, page, next_cursor` are the cycle in
progress: where it is, the tasks its two loops have left (filtered from the file
when the cycle began, as in the code), and the page being admitted. `lease,
sourceLog, withdrawn, run` are the outside world: who holds a lease, what the source
was told about a candidate, which candidates it no longer serves, how a run stands.

Actions. Each await of `runCycle` separates two actions. `BeginCycle`; the first
loop (`RejectClaimed`, `RenewClaimed`, `LoseClaimed`, `SubmitClaimed`,
`RecordStarted`); the second loop (`RenewRunning`, `LoseRunning`, `ResumeRun`,
`ReportFailure`, `VerifyPasses`, `VerifyFails` and the three writes `Record…`);
admission (`EndCycleFull`, `ListCandidates`, `RejectListed`, `SkipListed`,
`ClaimListed`, `RecordClaim`, `SubmitNew`, `RecordNew`, `AdvanceCursor`).
`AbortCycle` is both a crash and a thrown error at any await: they leave the same
file. `SetMode` and `ResetCircuit` are the operator, `LeaseLapses`,
`CandidateWithdrawn` and `RunEnds` the environment. Every operation is guarded by
`Readable`, what `parseState` requires of the tasks. A candidate, its request and
its run are one number; timestamps and hashes are stored by the code but not read.

Refinement. `TaskLedger` has per candidate the task (`none`, `CLAIMED`, `RUNNING`, or
how it ended) and what the source was told, and five actions: claim, start, tell, record,
lose. `ImplementsLedger` says that the dispatcher implements it with `entry` read off the
stored tasks and `told` the source's log: cycles, pages, leases, loops over tasks as they
were when the cycle began, and aborts are invisible. A change to the loops that lets a
task start twice, or be told something and recorded as something else, is not a step of
the ledger.

### RunState and BrokerDaemon

`RunState` has a record per run with the fields the reducer reads. The guards
(`AttemptAllowed`, `CandidateAllowed`, `CommitAllowed`, …) are the reducer's
`corrupt` calls, `RunAfter` its assignments, `Reduce` one command, with `ok = FALSE`
for a replay that threw. Of the evidence a command carries one number is left: the
tree, which also names the commit made of it, or the attempt or epoch number.

`BrokerDaemon` splits `persist` where an error or a crash can fall:
`BeginPersist` (duplicate `command_id`, reducer guard), `AppendJournal`,
`ReplaceCache` with the assignment to `state`, `FinishPersist` with the audit
projection and the locks the operation releases. `AppendFails`, `CacheFails` and
`ProjectionFails` are the same places failing; only `submit` gives its locks back
then. An append fails in three ways: nothing was written, a part of the line, or the
whole line and then `file.sync()` threw. `journal` is what a process that is up holds
of the file; `unsynced` is the line the file has beyond that, and `torn` the files
(journal, audit trail) that no longer parse. The process goes on after a failed append:
the next line then follows a partial one, or repeats a sequence number, and the journal
is refused for good. `Stop` decides what became of the line: a crash may lose it or keep
it, may cut a line that is being written, and a kept one is a record to the next process.
`ReadFiles`, `ProjectRecorded`, `AcquireLocks`, `KeepProcess`, `FailProcess`
and `EndRecovery` are `doRecover`; its assignments come first, so a recovery that
throws later leaves the daemon `up` and not `recovered`; `AuditUnreadable` is a start
that stops at a torn audit trail, after `recoverBrokerStateV4` has renewed the cache.
`Stop` is a crash anywhere
and also `close`. A journal record carries the state its replay yields, so
replaying needs no recursion; an audit entry is the event and the set of fields
filled in, which is what decides whether two entries have equal bytes.

Two history variables: `recovered` (this process finished `doRecover`) and
`degraded` (a cache replacement failed in a process that went on). The second
delimits what holds: after such a failure the daemon works on a memory that is one
command behind its journal (section 5).

### IterativeExecutor

State. `events` and `decisions` are what the host has persisted. The call in
progress is `pc`, whether the supervisor made it (`supervised`), the decision it
carries (`supplied`), and the loop's own variables: `attempts`, `accepted`,
`treeHash`, `activeDecision`, then the `candidate` and failure `signature` of the
current iteration. `result` is what the last call returned. Stories are numbered in
the order `nextStory` sorts them by; an event or decision is named by its position.

Actions. `Call` and `Supervise` are the host's entries, `Decide` the supervisor's
next round. All three do `Enter`: the code before the loop, with no await between
replay, the refusals of a decision, and the early returns. `HistoryReplays` and
`DecisionsReplay` are the two replay functions, stated over prefixes of the history
(`AcceptedBy`, `AttemptsBy`, `RepeatsBy`, `TreeBy`) rather than as the loops that
compute them. After that one action per await: `Authorize`, `SelectStory`,
`LoadRepairPacket`, `Execute`, `Validate`, `Review`, `PersistIteration`, and the two
exits `NoStory` and `AtLimit`. `Fail` is a crash, or an await or check that throws
before its effect, at any point; `AuthorizeLost` and `PersistIterationLost` are the
effect without the answer. The next call always starts from what was persisted.

The loop of the code updates maps, replay computes them from the history, and both
count repetitions: that the two always agree is what `PersistedHistoryReplays` and
`MemoryIsReplay` say.

### Publication

State. `run` and `recorded` are what the daemon knows of the run: its reduced record
and the deterministic commands journaled for it. `worktree, taskRef, branch, pr,
queued` are the world: the tree in the worktree, the local task ref, the remote
branch, the pull request (with the number ever created) and a merge the forge has
taken but not performed. `pc, lock, snapshot` are the calls: several `finalize` calls
of one run may be under way, one of them holds run and repository lock.

Actions. Each await of `finalizeRun` (`AcquireLocks`, `ReinspectDiff`,
`SnapshotAcceptedTree`, `WriteCommit`, `ReadTaskRef`, `UpdateTaskRef`,
`VerifyTaskRef`, `AppendCommitCreated`), of `publishFinalizedRunV4` with the GitHub
adapter (`Push`, `LsRemote`, `AppendBranchPushed`, `ReadPullRequest`,
`CreatePullRequest`, `AppendPullRequest`, `WaitForRequiredChecks`,
`AppendChecksPassed`, `MergePullRequest`, `ViewPullRequest`, `AppendMerged`), and
`SkipPublication`. `Throw` ends a call at any await, `Crash` all of them: since an
await's effect and its answer are separate from the next step, the same action is the
effect without the answer. `RecordAbort`, `ForeignWrite` and `MergeLands` are the
rest of the world.

Choices that matter. A commit is named by its tree, since message, author and time
come from the caller unchanged. `verifySnapshot` hashes the changed paths only, so a
snapshot of a tree that differs elsewhere gets past it; the second inspection is what
stops it, and that is right as long as nobody writes the worktree and then restores
it, which `ForeignWrite` never does. The forge is given no deduplication of its own:
that there is one pull request rests on the lock and on looking before creating. A
held lock is waited for; a lock port that throws instead is a `Throw`, and then two
calls that keep colliding may both keep failing.

### HostControl

State. `flights` is the entry of the map `flights` for the run, `flight` every
pipeline promise that is alive, `aborting` membership in the set of that name,
`closing` the promise `close` awaits, `pc` the control calls under way.

Actions. `Submit`, `Repair`, `Finalize`, `SubmitVerdict` and `Abort` begin a control
call; `Schedule` and `StartFlight` are the two sides of the await in `schedule`;
`AdvanceReads`, `AdvanceRecords`, `AdvanceThrows`, `FlightReturns`, `FlightFails` are
a flight; `PrepareRepair`, `RecordCommit`, `RecordVerdict`, `StopExternal`,
`RecordAbort` the rest of a call; `Throw`, `Close`, `Exit`, `Crash` what ends them.
The pipeline `advance` is the host's and external: it records what the state of the
run calls for, or throws. `getReviewPacket` only reads and is left out.

### RepositoryLock, Worktree, ContainerTransaction, Certification

`RepositoryLock`: `OpenExclusive` and `WriteOwner` are two steps, so a death between them
leaves a torn file. `EnterCoordinator` to `UnlinkDead` is the reclamation, with the owner
verified again before the unlink; `ReadOwn`, `UnlinkOwn` the release; `Die` anywhere.

`Worktree`: `record`, `git` (registration, directory, uncommitted changes, branch) and the
operation in progress `wt`. `CreateWorktree` runs through quota check, `git worktree add`,
manifest and verification, or unwinds (`Undo…`); `ShowReport` and `ApplyShown` are the
operator's two calls, the second of which rebuilds the report and confirms that it is the
one shown; removal, branch deletion and tombstone are separate. `LookupFails` is
`branchExists` taking a `show-ref` that failed or timed out for its answer: the branch
stays and the tombstone is written, which the history variable `unseen` remembers.
`WtFault` is a throw or a crash; `WorkIn`, `Meddle`, `RetentionExpires` are executors, others and time.

`ContainerTransaction`: `rec` and `temps` are the record directory, `box` what Docker has,
`asked` creates that Docker has yet to perform, whoever asked being alive or not;
`pending`, `live`, `external` are the maps of the module. A call reconciles the durable
pending creates it found (`PickPending`, `Recover`, `RemoveContainer`, `ClearPending`),
writes its intent, asks Docker, inspects and hands over.

`Certification`: stages of one certification, its networks and parts, the finally that
takes them down, and `retained`, the map of networks a later certification removes. A
network whose create gave no identifier is looked for by label (`RecoverNetwork`); the
look itself may fail (`RecoverFails`), and the daemon may finish the create later
(`LateNetwork`): `stray` has the networks that escaped in either way.

### DockerSandbox, EgressGateway, BoundedProcess

`DockerSandbox`: `sb` is the run of each execution from `RunSandbox` over
`MatchCertification` (cached, in flight, or started now; expires after `Ttl`),
`CreateContainer`, `StartContainer`, `AttachedEnds` to `Cleanup`; `term` the `terminate`
of each. `EngineChanges` and `TimePasses` happen at any await. `terminate` waits for a
run it finds in progress; after the run's `finally` it finds nothing and returns.

`EgressGateway`: the broker's steps (`StartGateway` … `ReturnLease`, unwinding, `Revoke`)
and each request's (`Arrives`, `CheckPolicy`, `ReadBody`, `Lookup`, `ConnectUpstream`,
`UpstreamEnds`). `EgressAllowed` is the address predicate of the code; `Global` is the
reference it is compared with, the reserved blocks as (prefix, length), on the addresses
on both sides of every border (`AddressesJudgedAsRegistered`, which TLC evaluates).

`BoundedProcess`: the callbacks (`ChildWrites`, `ChildExits`, `ChildCloses`, `SpawnFails`,
`BpAbort`, `BpDeadline`, `KillDone`, `KillFails`, `FailSettlement`) in any order.

### BrokerEndpoint and BrokerExchange

`BrokerEndpoint`: a directory shared by server processes. Sockets are numbered in the
order they are bound; `epFile` is the one the path names, `epSlots` those in quarantine,
`epLinked` those restored and thus in both places. A start loads or writes the token,
probes and moves a stale endpoint (`QuarantineChecks`, `MoveBrokerSocket`, `VerifyMoved`),
listens, adopts, publishes; a close moves its own endpoint. `Intrude` is a process that
does not use the coordinator.

`BrokerExchange`: a client's `Send`, `Connect`, `VerifyServer`, `Answer`, `Deadline`, and
the server's `Receive`, `Authenticate`, `Dispatch`. A frame arrives in units, so that it
may be cut, followed by more, or too large; the endpoint may change hands between any two
steps. The daemon behind it is an idempotent map from requests to runs. A send has
handlers for `error` and for its timeout, but none for an end of the connection in order:
after `PeerGone` it is `Orphaned`, pending for ever and in its critical section.

### PilotBlock, EventStore, PilotEvaluation

`PilotBlock` is `replayBlock`: one action per event type, each with the row of the
transition table and the guards of its handler; an event that either refuses leads to
`Invalidate`. `EventStore` is `appendEvent` and the two passes of `activeEvents`, as
recursive functions, compared with `Void`, the one set that is closed under what
corrections mean. `PilotEvaluation` has the evidence (`eProfile`, `eClosed`, `eDefects`,
`eLate`), the reports appended and the reports that evaluators hold; evaluation and
append are separate, so both stale and competing reports are appended or refused.
A metric is abstracted to the comparisons a decision makes with it; cost and tokens are
judged on the triplets that measured them, when these reach `MinCompleteness` of the
admitted ones. A baseline of zero is left out.

### HostInstallation, BindingHealth, ReviewSequence

`BindingHealth`: outcomes are recorded for any time up to now, in any order; an evaluation
folds what is recorded when the host makes it (`SupplySnapshot`, `hEvidence`). Routing
evaluates nothing: `BindingHealthAllows` takes the supplied snapshot, however old, and
allows a binding that has none (`WithholdSnapshot`). `QuarantineHolds` states what a
supplied snapshot guarantees without the fold, by the failures and canaries that must
exist. `SelectRole` is the choice of lane and role.

`HostInstallation`: installers hash and copy a source that is edited meanwhile, file by
file, and publish by rename; activators verify, write the manifest, take the registry
lock, read and write the registry, and write the Codex configuration. A crash at any step.

`ReviewSequence`: at most three attempts, each validated, each passing one reviewed. The
validation command and others write the tree; the harness may answer with any tree,
session and decision; `RvThrows` ends the sequence at every await. A lease is granted and
validated in `BeginReview`, before the `try` of the reviewer: one that is refused there
is thrown away unrevoked.

## 3. Runs

| run | instance | shows |
|---|---|---|
| `dispatcher_safety` | 3 candidates, 2 active, breaker at 2, lapsing leases, 1 withdrawn, 1 abort | `AdmissionsSound`: identities, capacity, mode and breaker; `DispositionsSound`: one disposition, backed completion |
| `dispatcher_liveness` | 4 candidates of which 1 unauthorized, kept leases, 2 aborts | `ImplementsLedger`; finished runs are recorded while cycles are begun, although every listing throws |
| `dispatcher_readback` | as safety | **violated**: a lease lost before start writes a file `parseState` refuses |
| `broker_lifecycle` | 1 run, 2 trees, 12 records, 1 stop; append, audit and lock errors | files with whole lines restartable, evidence bound, audit order, ended is final |
| `broker_runs` | 2 runs, 2 requests, 4 records, 2 stops; all errors | memory = replay but for one failed append, one run per request, `RecoverySound`: write-ahead, locks, orphans |
| `broker_replay_audit` | no errors at all | **violated**: recovery conflicts with its own audit entries |
| `executor` | 2 stories, the first depending on the second; 3 attempts, repeat limit 2, 5 iterations, 2 decisions, both modes | `HistorySound`: persisted history replays, memory = replay, retries authorized, results agree; calls end |
| `publication` | 2 concurrent calls, 2 trees, 3 faults, 2 foreign writes, the 3 policies | `PublicationSound`: only the accepted tree, one pull request, boundaries journaled; refs never overwritten; retries end |
| `resources` | per focus: 3 processes; 2 worktrees, quotas 1; 2 brokers and creates; 2 executions, 2 identities; 2 certifications; 2 requests, 5 answers; 2 servers, 2 slots, 4 sockets; 2 files, 2 repositories, 2 activators, 1 edit, 1 crash; 2 faults in the others | holder owns the lock file, worktrees sound, only what is owned is removed, nothing forgotten that a lookup found, terminated is gone, certified for its engine, key to checked addresses, endpoint sound, registrations kept |
| `progress` | per focus: 1 caller, 2 flights, 3 faults; 1 process; 2 clients of which 1 is raw, 2 sends; 1 execution; 1 worktree | runs settle, processes and terminate end, sends end or are orphaned, expired worktrees are cleaned while cleanups are begun; results are final, exchanges sound |
| `records` | per focus: 4 arms, 2 revisions, 1 finding; 4 events, 2 blocks; 2 triplets, 3 stages, 4 reports; 5 times, window 3; 2 trees, 3 sessions | acceptance is earned, projection exact, promotions earned, quarantine holds for supplied snapshots |
| `pilot_rejected` | 2 triplets, 3 stages, 1 evaluator | **violated**: re-evaluating a rejected stage lets the pilot go on |

Properties that belong to one question are conjunctions of named parts
(`AdmissionsSound`, `RecoverySound`, `EndpointSound`, …); the parts carry the comments.

Bounds. Three candidates with two slots are the least that let one task be resubmitted,
one run and one be admitted in the same cycle; an abort at any await leaves nothing
volatile, so one or two are enough, and the proofs need no bound. Twelve records are one
more than the longest life of a run with one attempt through review verdict to merge, so
a run with a second attempt, abort or failure at any point is in the instance too. Four
records with two runs cover a run accepted while another has an external process and two
processes orphaned by one stop; two stops cover a recovery interrupted and repeated
(after the second one operations get one record less, `RecordBound`). `MaxRecords`
bounds the operations, not recovery's own records; `MaxDamaged` bounds them while a
failed write is felt (`Damaged`), 9 and 3 in the two runs: an append may fail anywhere
before and be followed by others, the repeated sequence number included, and a restart
lifts the bound where it lifts the damage. In `executor` the repeat limit is
below the attempt limit, so a story can escalate for either reason; with two signatures
per gate failures repeat, alternate and change gate; five iterations are fewer than two
stories with three attempts need, so the iteration limit is reached in both modes, and
two decisions are fewer than a supervised run may need. Crashes and failed calls are not
bounded there: the histories are. In `publication` two calls are the least that race for
the locks and for a ref, three faults cut the same publication off at three different
boundaries, two foreign writes change worktree and a ref, or a ref twice.

In `resources` three processes are an owner that dies and two that reclaim it; two
faults are an operation cut off and its repetition cut off; quotas of one are reached by
the second worktree; two brokers and two creates let one reconcile what the other is
doing; two quarantine slots are used up by a reclaim and a close; two files are the
least that can be copied from two versions of the source. In `progress` one caller at a
time is what a client that waits does (section 5 has two), and three faults cover an
abort that throws, a close during it and a crash after. In `records` four events are the
least in which an invalidation of an invalidation meets a supersession; a window of
three slides over five times and leaves room for cooldown and canaries; four reports are
three stages and a re-evaluation; three sessions are one per attempt.

`CHECK_DEADLOCK FALSE` in the runs of dispatcher and broker, in the three compositions and
in `pilot_rejected`: with counters capped, with a state file nobody can read, a torn
journal, token or lock file, and with a process or sequence that has ended, the system
really stops. `executor` and `publication` are checked for deadlock.

Fairness. `AutonomousDispatcher!FairSpec` has weak fairness of the steps of a cycle in
progress only: its awaits settle. That another cycle begins is not assumed.
`runAutonomousDispatcherLoopV4` starts one after each interval, but it has no handler and
ends with the first cycle that throws; whether the process is started again is decided
outside the repository. `OutcomesRecorded` is therefore conditioned on cycles being begun
again and again (`CyclesKeepBeginning`, which excludes a dispatcher left paused), and says
that then the throwing listing and the crashes do not keep an outcome from being recorded.
It holds with leases that are kept (a lapsed lease makes the task `FAILED`, which safety
covers). `IterativeExecutor!FairSpec` has weak fairness of `Step`: the ports
a call awaits settle, with an answer or an exception; the executor sets no timeout
around them, so this is asked of the host that supplies them. A call to the executor is
never assumed to be made. `Publication!FairSpec` has weak fairness of each call's steps
(the Git and GitHub commands run under a timeout and the poll for the merge has a
deadline), of `MergeLands` (the forge performs what it took) and of `Finalize`: the
operation is there to be repeated until the run has ended, and `PublicationEnds` is
about a host that does so.

`MCProgress!Fairness` states, for each focus: weak fairness of control calls, flights
and `Exit`, and strong fairness of `Submit`, since the client that waits for its run
replays the submission again and again between whatever other calls are made; of a
bounded process, only its deadline timer and the timer behind `failSettlement`, nothing
of the child; of an exchange, the client's connection and verification, which have
timeouts of their own, and the deadline of its socket, nothing of the server or of the
peer, and nothing of a send whose socket is closed: that one is `Orphaned`; of the
sandbox, the steps of a run and of terminate, whose Docker commands are bounded
processes, but not that a certification in flight ends; of worktrees, the steps of the
operation in progress. That a caller comes back after a fault is not assumed:
`ExpiredIsCleaned` is conditioned on creates or terminal marks being begun again and again
(`CleanupsKeepBeginning`).

## 4. Proofs

`AutonomousDispatcherProofs`, for every policy, listing and number of aborts:
`TypeCorrect`, `AdmissionIsSound` and `DispositionIsSound` (the two conjunctions the run
checks), their parts `AdmissionIsControlled`, `IdentitiesAreUnique`, `CapacityIsKept`,
`SourceToldOnce`, `CompletionIsBacked`, and `TasksOnlyAdvance`. They rest on
`PolicyAssumption`, what `validatePolicy` enforces. The invariant `IInv` is built in
layers: `Shape` (types, the loops' remaining tasks have the status they were
filtered by, the task just claimed is the last one), `Control`, `Identity`, `Source`
(before a report the log of the current task is empty, since reporting drops the
lease and a lost lease is never resumed), `ClaimedHasNoRun`, `CapacityOK`
(active tasks plus the rest of the page fit). None of the checked invariants is
inductive without `Shape`: a cycle works on indices taken when it began.

`BrokerDaemonProofs`, for every number of runs, requests and trees, every stop and
every combination of I/O errors: `FilesAreRestartable`, `MemoryIsReplay`,
`OneRunPerRequest`, `EvidenceIsBound`, `EndedRunsAreFinal`. `ReduceOK` shows that
well-formed states are closed under the reducer whatever command arrives;
`Footprint` reduces the daemon's actions to nine effects on journal, cache and
memory; `BrokerInv` says that the journal is ahead of the memory by exactly the
command in flight (`FilesAgree`, as long as not `degraded`), that a line the file has
beyond it is of a command that replays (`UnsyncedOK`), that the command in flight is
well-formed, and that every accepted request is known to the replayed state.
`MemoryMatchesJournal` alone is not inductive: at the append it needs that the
command was permitted by the memory, and at the cache replacement that memory and
journal differ by that command.

`PublicationProofs`, for every number of concurrent calls, faults, foreign writes and
trees: `TypeCorrect`, `PublicationIsSound` with its parts `OnlyAcceptedIsPublished`,
`PullRequestIsUnique` and `BoundariesAreJournaled`, and `RefsKept`. They rest on `BrokerSizes`, `PublicationSizes` and
`NoCallerIsNone`, which only say that the bounds are numbers and that "nobody" is not a
caller. None of the properties is inductive: that no second pull request is created
depends on what the call at "create" learned several awaits ago. `Ind` therefore says, in
`StepOK`, what a call knows at each step (at "find" the push is journaled, at "create"
there is no pull request, at "merged" the forge merged the commit), in `LockHeld` that
only the holder of the lock is at such a step, and in `JournalAccepted` and
`ForgeAccepted` that every journaled command and the merged head name the accepted
commit. The proof separates what a caller knows about itself (`HolderMoves`), what other
callers cannot disturb (`OutsiderMoves`) and what the world cannot (`WorldMoves`).

`AutonomousDispatcherProofs` also has the refinement: `LedgerIsImplemented` says
`Spec => ImplementsLedger`. `EntryOfTask` shows that with unique identities the mapping
`StoredStatus` is the status of the stored task, `EntryReplaced` and `EntryAdded` what a
write does to it, and `LedgerStep` maps every action to `Claim`, `Start`, `Tell`,
`Record` or `Lose` of the ledger, or to a stutter. It needs `Reported` beside `IInv`:
that a reopening is recorded of a candidate whose source was told so.

`BrokerDaemonProofs` goes on with `DaemonIsTyped`, `AuditIsOrdered` and `RecoveryIsSound`
from `DaemonInv`: `AllBacked` (what a replayed state shows, a journaled command caused),
`AuditSafe` (the trail has told the journal up to a point that the place in `persist` or
`doRecover` determines, and a projected entry is that record's), `EndingsStay`,
`LocksBalance` (the locks are those of the live runs but for what the operation in
flight adds or still owes) and `ProcessesKnown`. `AuditFollowsJournal` alone is not
inductive: between two projected entries only the control state says which are still to
come.

`IterativeExecutorProofs`, for every plan, every limit and every cut between an effect
and its answer: `ExecutorTyped` and `HistoryAlwaysSound`, from `PlanAssumption` (what
`loadIterativeStoryPlanV4` enforces). The key is `OneOpen`: in a history that replays, at
most the last attempted story is open. From it follows that the story the loop selects
is a retry exactly when the last event is a rejection (`RetryIsOfLast`), that it has
attempts left (`AttemptsLeft`, so the escalation before the worker is unreachable), and
that the event the loop makes is one replay accepts (`EventIsFit`, `HistoryGrows`).
`TargetsGrow` bounds the decisions, `Control` says what a call knows at each await, and
`ResultFits` what its answer means afterwards.

`IsolationProofs`, for every number of executions, engines, runs and failures:
`TerminateIsFinal` and `RunsAreCertified` (a container is up only while its execution is
not over, `BoxHeld`, and none is up of a run that was cancelled in progress once its
terminate returned, `CancelledClean`; what the process remembers of a certification was completed for that
identity, `EvidenceProved`), `WorktreesAreSound` and `RetainedIsKept` (`WtSafe`: what an
apply pass has left to remove is terminal and expired, `TodoIsExpired`, although the report
it works from is old; between the quota check and the record there is room, `RoomLeft`).
They rest on `SandboxSizes`, `RunsAssumption` and `WorktreeSizes`.

`ResourceProofs`, component by component:

- `LockExcludes`, for any number of processes, from `LockSafe`: one writer per file
  (`OneWriter`), one process inside the coordinator (`Serialized`), and from the second
  read on the owner to be reclaimed is dead and still named (`ReclaimsTheDead`);
- `NetworksRemembered` and `CertificationLeavesNothing`, from `CertOK` of each
  certification and `Apart` between two;
- `ContainersRecorded` and `ContainersOfOthersKept`, from the nine parts of `TxSafe`: a
  create without an intent is known to nobody (`YoungIs…`), what exists or may still come
  to exist is on record (`Recorded`), only one's own creates and those of the dead are
  worked on (`OthersAreDead`);
- `AllowedIsGlobal` about all addresses, not only those of the run, and `GatewayIsSound`
  from it (`PinnedIsAllowed`);
- `EndpointIsSound`, from `EpSafe`: one server inside the critical section, a listener is
  one's own, only what is one's own or stale is moved unless an outsider got between
  check and move, and slots are set aside before they are needed (`RoomAhead`);
- `RegistrationsAreKept`, from `HostSafe`: what was copied is what was hashed, and the
  registry read under the lock is the registry that is replaced (`RegistryFresh`).

`ProgressProofs`: `HostControlTyped`, `ProcessResultIsFinal` (`KillIsFollowed`) and
`ExchangesAreSound` (`ExchangeSafe`), for every number of clients, bytes and faults.

`RecordsProofs`: `SequenceIsSound`, `BlockIsSound` and `PromotionsEarned` from inductive
invariants that say what the control state knows of the attempts, reviews and reports on
record; `ProjectionAlwaysExact` and `QuarantineAlwaysHolds` from what a recursion over
everything recorded computes. The library's induction rules take an operator and cannot
be instantiated here, so induction is done over the set of numbers for which a claim
holds (`UpTo`, from the well-foundedness of the naturals), with the step of the recursion
as a function (`RecursionExists`). `BackwardPass` and `ForwardPass` then give what the two
passes of `activeEvents` have collected up to an event, and `HealthAt` what the replay of
a snapshot's outcomes knows up to a time.

The last part of `ResourceProofs`, `ProgressProofs` and `RecordsProofs` is the composition
(`EachOnItsOwn`, `EachByItself`, `EachRecordOnItsOwn`): the components share no variable,
so a behaviour of the composition is one of each, and what each promises by itself holds
of all. `ResourcesTyped`, `ResourcesRemembered`, `OthersKept`, `ProgressTyped`,
`RecordsTyped` and `AcceptancesEarned` follow.

Assumptions. Every theorem rests only on the named `ASSUME` of the modules it is about.
They say that bounds are numbers, that sentinels ("nobody", "none", `Never`) are not among
the values they stand beside, that runs and triplets are finite sets, that an address
has four octets or eight words (`AnswersAssumption`), that plans and policies are what
their loaders accept (`PlanAssumption`, `PolicyAssumption`, `HealthAssumption`), and that
sets with a default element are not empty (`SessionsAssumption`, `ExchangeAssumption`,
`HostAssumption`). TLC evaluates each on the runs of that module.

Where a model names a part only so that a proof can cite it, it computes what it did
inline: the passes of `activeEvents` and the replay of the outcomes are functions of their
own with one operator per turn, and `With` is the table with an entry set.

Only model-checked: liveness (`OutcomesRecorded`, `CallsEnd`, `PublicationEnds`,
`HostSettles`, `WaitsEnd`), since fairness is outside the prover's reach. Every
invariant and every action property of a passing run, and the refinement, is a theorem.

## 5. Disagreements between code and documents

With a run: the three violations above; `PROJECT.json` quotes the lines.

Stated as a definition, and violated when it is listed in a configuration:

- `BreakerClosesOnlyByReset` (dispatcher, `MCDispatcherSafety.cfg` with four candidates,
  four active and four claims, as PROPERTY): a completion resets the failure count, and the
  next failure of the same cycle recomputes `circuit_open` from it, so an open breaker
  closes (`autonomous-dispatcher.ts:604`, `README.md:213`);
- `RequestAcceptedOnce` (broker, `MCBrokerRuns.cfg`): after a failed cache replacement the
  same process accepts a request again (`broker-daemon.ts:254`,
  `docs/runtime-v4-operations.md:84`);
- `OneFlight` (`MCProgress.cfg` with two callers): `schedule` awaits the status between
  `flights.has` and `flights.set` (`host-composition.ts:94`);
- `EverySendEnds` (`MCProgress.cfg`, as PROPERTY): the client of an exchange has no handler
  for an end of the connection in order. When the peer closes without an answer the socket
  is gone with its timer, the promise stays pending, and the critical section around the
  send stays held (`broker-ipc.ts:2369-2435`).

Seen in the models:

- the first cycle that throws ends `runAutonomousDispatcherLoopV4`
  (`autonomous-dispatcher.ts:413-424`), where `docs/autonomous-dispatcher-v4.md:18` has it
  repeat "serial passes until an `AbortSignal` is set";
- a journal append that throws after its line was complete (`file.sync()`,
  `journal.ts:95`) was reported as failed and takes effect at the next start; if the process
  goes on instead, its next append repeats the sequence number, and after a partial line it
  writes behind that. Either journal is refused by every later start (`journal.ts:53`), and
  a partial line of the audit trail likewise (`audit-trail.ts:296`);
- a `show-ref` that fails or times out counts as "no branch": the tombstone is written and
  the branch stays (`worktree.ts:417-421`, `:453-461`);
- a network whose create gave no identifier is forgotten when `network ls` or the
  inspection fails too (`docker-sandbox.ts:844-868`, `:950`);
- `terminate` of a run that is over returns without an error although the run's own removal
  of its container failed (`docker-sandbox.ts:1608-1613`): the run's error is the only
  word of that container;
- a credential lease that fails `validateCredentialLeaseV4` is never revoked
  (`reviewer.ts:127`, before the `try` at `:131`);
- routing allows a binding that has no snapshot and does not look at `evaluatedAt`
  (`binding-health.ts:238-241`, `adaptive-execution.ts:70`): a quarantine takes effect when
  the host supplies a new snapshot, which `docs/adaptive-execution-v4.md:69-73` asks of it;
- a lease that lapses while `resume` or `verify` is awaited does not stop
  `complete`, `reopen` or `fail`, which take no lease id
  (`docs/autonomous-dispatcher-v4.md:30-31`);
- a crash between claim and first write leaves a lease no task owns
  (`docs/autonomous-dispatcher-v4.md:27`);
- a recovery that throws after its first assignments counts as done, and the next
  operation runs without locks (`broker-daemon.ts:271`, `docs/threat-model-v4.md:118-119`);
- an abort during publication is journaled, but a merge that was already asked for
  lands nevertheless, and the run stays `ABORTED`; no document excludes it;
- a run whose ending is journaled keeps its locks when the audit projection throws
  (`docs/control-plane-v4.md:21`);
- a process that dies between creating a lock file and writing its owner leaves a lock
  nobody reclaims (`repository-lock.ts:194`); the same holds of the registry lock of an
  activation (`host-installation.ts:636`) and of a torn token file;
- a worktree directory added before its manifest was written is reported `UNOWNED` and
  stays;
- a torn container record makes every later create throw
  (`docker-container-transaction.ts:116`, `:149`), and a process that starts while another one's
  create is in progress may reconcile it away (`:303`);
- a certification that begins removes networks in the map although the certification they belong to is
  still running (`docker-sandbox.ts:832`); the map is memory only;
- an upstream answer of the gateway that breaks off after its headers is neither completed
  nor audited (`provider-egress-gateway.ts:491`);
- every clean close uses a quarantine slot; after 64 the operator has to empty them
  (`docs/runtime-broker-quarantine-remediation.md`); an endpoint restored from quarantine
  keeps two links;
- a reply about a run that advanced in the meantime is refused by `verifyDaemonReplyV4` and
  the command has to be repeated;
- two activations of one repository for different installations may leave the activation
  manifest and the Codex configuration naming different ones
  (`host-installation.ts:633`, `:666`);
- a superseded event, or an invalidated one that is not its block's last, leaves a gap in
  the block's sequence, and the block replays as `INVALID`;
- an `ACCEPT` attestation is persisted although revoking the reviewer's lease then throws
  and the sequence fails (`reviewer.ts:222`).

## 6. Plan

What is left, in this order.

1. Proofs: `OnlyAcceptedIsPublished` for `HostControl` and `Publication` from one abstract
   run (item 3), so that the daemon's reducer is reasoned about once.
2. `Orchestrator`: start, resume and abort over its own flights, beside `HostControl`.
3. An abstract specification of a run (accepted, reviewed, published at most once) that
   `Publication` and `HostControl` are shown to implement.
4. The operations of the Windows pipe and of the native endpoint helper; usage and cost
   records of the pilot where decisions read them.

## 7. Not modelled

Schemas, contracts and their parsers; command-line and container argument construction;
hashing, signing and canonical JSON (equal inputs are equal values in the models);
rendering, CLI and MCP transport; usage, cost and manifest checks of the pilot; the scoring
of `src/src/routing`; packets, envelopes, capsules and the path and diff policies of the
review gates. They have no state of their own and are functions of one input.

Frontier executor and repair packets are one sandboxed attempt and pure constructors
behind a port of `IterativeExecutor`, which has the failure of any check in them; that a
rejection may store 128 finding hashes and a packet holds 32 (`repair-packet.ts:38`) is
such a failure. The Windows pipe, the certification of the native endpoint helper and the
older path-based endpoint helpers of `broker-ipc.ts` are variants of what `BrokerEndpoint`
models. The orchestrator checks and fills its map of flights without an await in between,
so its scheduling is that of `HostControl` without the gap. Two dispatcher processes on one
state directory are not modelled: nothing in the repository says they may exist.
