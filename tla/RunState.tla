------------------------------ MODULE RunState ------------------------------
(***************************************************************************)
(* The reducer of src/runtime/run-state.ts: how one journaled command      *)
(* changes the broker's state, and which commands it refuses.              *)
(*                                                                         *)
(* Abstractions.  Runs and requests are numbers.  The evidence a command   *)
(* carries (diff, tree, attestation, policy, branch, pull request) is one  *)
(* number, `arg`: the tree of a candidate, which also names its commit, or *)
(* the attempt number or the inspection epoch.  A guard that compares one  *)
(* of those hashes is a comparison of `arg`.                               *)
(***************************************************************************)
EXTENDS Integers

CONSTANTS
    NumRuns,      \* bound: run ids that may be generated
    NumRequests,  \* distinct request_ids
    NumTrees      \* distinct candidate trees a run may produce

ASSUME BrokerSizes ==
    /\ NumRuns \in Nat \ {0} /\ NumRequests \in Nat \ {0} /\ NumTrees \in Nat \ {0}

Runs     == 1..NumRuns
Requests == 1..NumRequests
Trees    == 1..NumTrees
None     == 0

Ended == {"FAILED", "ABORTED", "FINALIZED"}
States == Ended \cup {"NONE", "READY_FOR_EXECUTOR", "EXECUTION_STARTED", "AWAITING_REINSPECTION",
                      "REVIEW_ACCEPTED", "READY_FOR_PUBLICATION", "PUBLICATION_PUSHED",
                      "PULL_REQUEST_OPEN", "REQUIRED_CHECKS_PASSED"}

\* BrokerRunStateV4; state "NONE" is a run_id that is not in `runs`.
RunRecords ==
    [state : States, attempts : Nat, epoch : Nat, inspection_required : BOOLEAN,
     external_process : BOOLEAN, tree : Trees \cup {None}, verdict : BOOLEAN,
     commit : Trees \cup {None}, merged : BOOLEAN]

NoRunYet ==
    [state |-> "NONE", attempts |-> 0, epoch |-> 0, inspection_required |-> FALSE,
     external_process |-> FALSE, tree |-> None, verdict |-> FALSE,
     commit |-> None, merged |-> FALSE]

\* BrokerStateV4; ok = FALSE stands for a replay that threw BROKER_STATE_CORRUPT.
BrokerStates ==
    [ok : BOOLEAN, runs : [Runs -> RunRecords], requests : [Requests -> Runs \cup {None}]]

initialBrokerState ==
    [ok |-> TRUE, runs |-> [r \in Runs |-> NoRunYet], requests |-> [q \in Requests |-> None]]

Corrupt == [initialBrokerState EXCEPT !.ok = FALSE]

PublicationTypes == {"BRANCH_PUSHED", "PULL_REQUEST_RECORDED", "REQUIRED_CHECKS_PASSED",
                     "RUN_MERGED", "PUBLICATION_SKIPPED"}
CommandTypes == PublicationTypes \cup
    {"RUN_ACCEPTED", "ATTEMPT_RECORDED", "PATHS_REINSPECTED", "EXTERNAL_PROCESS_STARTED",
     "CANDIDATE_ACCEPTED", "REVIEW_VERDICT_RECORDED", "COMMIT_CREATED", "RUN_ABORTED", "RUN_FAILED"}
EndingTypes == {"RUN_MERGED", "PUBLICATION_SKIPPED", "RUN_ABORTED", "RUN_FAILED"}

Commands == [type : CommandTypes, run : Runs, arg : Nat]

Command(type, r, arg) == [type |-> type, run |-> r, arg |-> arg]

Idle(run) == ~run.inspection_required /\ ~run.external_process

-----------------------------------------------------------------------------
(* Which commands the reducer takes in which state of a run: its `corrupt` calls. *)

AttemptAllowed(run, c) ==
    run.state = "EXECUTION_STARTED" /\ run.external_process /\ c.arg = run.attempts + 1

ReinspectionAllowed(run, c) ==
    /\ run.state = "AWAITING_REINSPECTION" /\ run.inspection_required /\ ~run.external_process
    /\ c.arg > run.epoch

LaunchAllowed(run) == run.state = "READY_FOR_EXECUTOR" /\ Idle(run)

CandidateAllowed(run) == run.state = "READY_FOR_EXECUTOR" /\ Idle(run) /\ run.attempts >= 1

VerdictAllowed(run, c) == run.state = "REVIEW_ACCEPTED" /\ c.arg = run.tree /\ ~run.verdict

\* Mutant: a commit is taken whatever tree its evidence names.
CommitAllowedUnbound(run, c) == run.state = "REVIEW_ACCEPTED" /\ Idle(run)

CommitAllowed(run, c) == run.state = "REVIEW_ACCEPTED" /\ Idle(run) /\ c.arg = run.tree

\* The state each publication event must find, and the commit it must name.
PublicationFrom(type) ==
    CASE type \in {"BRANCH_PUSHED", "PUBLICATION_SKIPPED"} -> {"READY_FOR_PUBLICATION"}
      [] type = "PULL_REQUEST_RECORDED"  -> {"PUBLICATION_PUSHED"}
      [] type = "REQUIRED_CHECKS_PASSED" -> {"PULL_REQUEST_OPEN"}
      [] type = "RUN_MERGED"             -> {"PULL_REQUEST_OPEN", "REQUIRED_CHECKS_PASSED"}

PublicationAllowed(run, c) ==
    c.type \in PublicationTypes /\ run.state \in PublicationFrom(c.type) /\ c.arg = run.commit

\* Mutant: an ended run takes further commands.
ActiveRunAlways(run) == run.state # "NONE"

\* requireRun, and the guard against terminal runs.
ActiveRun(run) == run.state # "NONE" /\ run.state \notin Ended

RunPermits(run, c) ==
    /\ ActiveRun(run)
    /\ \/ c.type = "ATTEMPT_RECORDED" /\ AttemptAllowed(run, c)
       \/ c.type = "PATHS_REINSPECTED" /\ ReinspectionAllowed(run, c)
       \/ c.type = "EXTERNAL_PROCESS_STARTED" /\ LaunchAllowed(run)
       \/ c.type = "CANDIDATE_ACCEPTED" /\ CandidateAllowed(run)
       \/ c.type = "REVIEW_VERDICT_RECORDED" /\ VerdictAllowed(run, c)
       \/ c.type = "COMMIT_CREATED" /\ CommitAllowed(run, c)
       \/ PublicationAllowed(run, c)
       \/ c.type \in {"RUN_ABORTED", "RUN_FAILED"}

-----------------------------------------------------------------------------
(* What a command does to its run. *)

AcceptedRun == [NoRunYet EXCEPT !.state = "READY_FOR_EXECUTOR", !.epoch = 1]

RunAfter(run, c) ==
    CASE c.type = "ATTEMPT_RECORDED" ->
           [run EXCEPT !.state = "AWAITING_REINSPECTION", !.attempts = @ + 1, !.verdict = FALSE,
                       !.inspection_required = TRUE, !.external_process = FALSE]
      [] c.type = "PATHS_REINSPECTED" ->
           [run EXCEPT !.state = "READY_FOR_EXECUTOR", !.epoch = c.arg, !.inspection_required = FALSE]
      [] c.type = "EXTERNAL_PROCESS_STARTED" ->
           [run EXCEPT !.state = "EXECUTION_STARTED", !.external_process = TRUE]
      [] c.type = "CANDIDATE_ACCEPTED" ->
           [run EXCEPT !.state = "REVIEW_ACCEPTED", !.tree = c.arg, !.verdict = FALSE]
      [] c.type = "REVIEW_VERDICT_RECORDED" -> [run EXCEPT !.verdict = TRUE]
      [] c.type = "COMMIT_CREATED" ->
           [run EXCEPT !.state = "READY_FOR_PUBLICATION", !.commit = c.arg, !.external_process = FALSE]
      [] c.type = "BRANCH_PUSHED"          -> [run EXCEPT !.state = "PUBLICATION_PUSHED"]
      [] c.type = "PULL_REQUEST_RECORDED"  -> [run EXCEPT !.state = "PULL_REQUEST_OPEN"]
      [] c.type = "REQUIRED_CHECKS_PASSED" -> [run EXCEPT !.state = "REQUIRED_CHECKS_PASSED"]
      [] c.type = "RUN_MERGED"             -> [run EXCEPT !.state = "FINALIZED", !.merged = TRUE]
      [] c.type = "PUBLICATION_SKIPPED"    -> [run EXCEPT !.state = "FINALIZED"]
      [] c.type = "RUN_ABORTED" -> [run EXCEPT !.state = "ABORTED", !.external_process = FALSE]
      [] OTHER                  -> [run EXCEPT !.state = "FAILED", !.external_process = FALSE]

\* registerRequestV4: a request_id names one run; for RUN_ACCEPTED, arg is the request.
Permits(s, c) ==
    IF c.type = "RUN_ACCEPTED"
    THEN s.runs[c.run].state = "NONE" /\ c.arg \in Requests /\ s.requests[c.arg] = None
    ELSE RunPermits(s.runs[c.run], c)

Apply(s, c) ==
    IF c.type = "RUN_ACCEPTED"
    THEN [s EXCEPT !.runs[c.run] = AcceptedRun, !.requests[c.arg] = c.run]
    ELSE [s EXCEPT !.runs[c.run] = RunAfter(@, c)]

\* reduceBrokerStateV4; replayBrokerStateV4 is its iteration, which a refused command ends.
Reduce(s, c) == IF s.ok /\ Permits(s, c) THEN Apply(s, c) ELSE Corrupt
=============================================================================
