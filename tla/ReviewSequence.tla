--------------------------- MODULE ReviewSequence ----------------------------
(***************************************************************************)
(* The economy review sequence of src/runtime/reviewer.ts with the two     *)
(* gates it calls: the validation runner of validation.ts and the reviewer *)
(* of reviewer.ts with verifyReviewAttestation.                            *)
(*                                                                         *)
(* The sequence executes a task at most three times (twice with the        *)
(* economy model, once with the escalation model); each attempt is         *)
(* validated, and one that passes is reviewed by a fresh session.  Every   *)
(* awaited call may throw, which ends the sequence.                        *)
(*                                                                         *)
(* Abstractions.  A candidate is its tree.  The finding hashes and the     *)
(* attestation hashes handed to the next execution are the sequence of the *)
(* failures they are the evidence of.  Validation has the repository       *)
(* mounted read-write, so its command may leave another tree.  The host    *)
(* connects the parts: it hands a review the sessions of the attestations  *)
(* that were persisted before.                                             *)
(***************************************************************************)
EXTENDS Integers, Sequences

CONSTANTS
    RvTrees,     \* trees an execution or a validation command may leave
    RvSessions   \* reviewer session ids

ASSUME SessionsAssumption == RvSessions # {}

VARIABLES
    rvState,      \* where the sequence is
    rvAttempts,   \* the executions: their trees and the evidence they were given
    rvFailures,   \* why the attempts before this one failed, in order
    rvWork,       \* the tree in repository_root
    rvValidated,  \* the last validation: attempt, tree before and after, clean exit
    rvGateway,    \* the reviewer's binding uses the gateway, hence a credential lease
    rvLease,      \* the credential lease granted last
    rvRound,      \* the reviewer's context round
    rvUsed,       \* the session ids this review refuses
    rvVerified,   \* the attestation verified last
    rvPersisted   \* persist_attestation: tree, session and decision

rvReview == <<rvGateway, rvLease, rvRound, rvUsed, rvVerified, rvPersisted>>
rvVars == <<rvState, rvAttempts, rvFailures, rvWork, rvValidated, rvReview>>

RvDecisions == {"ACCEPT", "REJECT", "REQUEST_CONTEXT"}
RvEnds == {"ACCEPTED", "TERMINAL_REJECTED", "THREW"}
RvStates == RvEnds \cup {"EXECUTE", "VALIDATE", "RUN_VALIDATION", "VALIDATION_RAN",
                         "REVIEW", "HARNESS", "PERSIST", "REVOKE"}
\* "none" is out; "valid" is in use; "refused" was granted but failed validateCredentialLeaseV4;
\* of "stuck" the revocation threw.
RvLeases == {"none", "valid", "refused", "stuck"}
RvAttempt == Len(rvAttempts)
RvTree == rvAttempts[RvAttempt].tree
NotValidated == [attempt |-> 0, before |-> CHOOSE t \in RvTrees : TRUE,
                 after |-> CHOOSE t \in RvTrees : TRUE, clean |-> FALSE]

RvInit ==
    /\ rvState = "EXECUTE" /\ rvAttempts = <<>> /\ rvFailures = <<>> /\ rvWork \in RvTrees
    /\ rvValidated = NotValidated /\ rvGateway \in BOOLEAN /\ rvLease = "none" /\ rvRound = 0
    /\ rvUsed = {} /\ rvPersisted = <<>>
    /\ rvVerified = [tree |-> CHOOSE t \in RvTrees : TRUE, session |-> CHOOSE n \in RvSessions : TRUE,
                     decision |-> "REJECT"]

-----------------------------------------------------------------------------
\* execute_economy, the second time with the findings, and execute_escalation.
RvExecute(tree) ==
    /\ rvState = "EXECUTE" /\ rvState' = "VALIDATE"
    /\ rvAttempts' = Append(rvAttempts, [tree |-> tree, evidence |-> rvFailures])
    /\ rvWork' = tree
    /\ UNCHANGED <<rvFailures, rvValidated, rvReview>>

\* The runner reads the tree, then probes the sandbox; a tree that is not the candidate's is
\* not run, which leaves an exit code that is not 0.
BeginValidation ==
    /\ rvState = "VALIDATE"
    /\ rvValidated' = [attempt |-> RvAttempt, before |-> rvWork, after |-> rvWork, clean |-> FALSE]
    /\ rvState' = IF rvWork = RvTree THEN "RUN_VALIDATION" ELSE "VALIDATION_RAN"
    /\ UNCHANGED <<rvAttempts, rvFailures, rvWork, rvReview>>

\* clean: exit code 0, in time, nothing truncated, and both artifacts verify.
RunValidation(clean, tree) ==
    /\ rvState = "RUN_VALIDATION" /\ rvState' = "VALIDATION_RAN"
    /\ rvWork' = tree /\ rvValidated' = [rvValidated EXCEPT !.clean = clean]
    /\ UNCHANGED <<rvAttempts, rvFailures, rvReview>>

Passed == rvValidated.clean /\ rvValidated.before = RvTree /\ rvWork = RvTree

\* No attempt is left after this one: the escalation, or a repair of a failed validation.
FinalReview == RvAttempt = 3 \/ (RvAttempt = 2 /\ rvFailures[1] = "validation")

\* A failure without finding hashes rejects at once, and so does the escalation's.
EndValidation(evidence) ==
    /\ rvState = "VALIDATION_RAN"
    /\ rvValidated' = [rvValidated EXCEPT !.after = rvWork]
    /\ rvState' = IF Passed THEN "REVIEW"
                  ELSE IF evidence /\ RvAttempt < 3 THEN "EXECUTE" ELSE "TERMINAL_REJECTED"
    /\ rvFailures' = IF Passed THEN rvFailures ELSE Append(rvFailures, "validation")
    /\ UNCHANGED <<rvAttempts, rvWork, rvReview>>

-----------------------------------------------------------------------------
\* review: the checks of the input passed, the sandbox probed fresh, the lease was granted and
\* validated.  One that is not valid is thrown away before the try block: nobody revokes it.
BeginReview(valid) ==
    /\ rvState = "REVIEW" /\ rvRound' = 0
    /\ rvState' = IF rvGateway /\ ~valid THEN "THREW" ELSE "HARNESS"
    /\ rvLease' = IF ~rvGateway THEN "none" ELSE IF valid THEN "valid" ELSE "refused"
    /\ rvUsed' = {rvPersisted[i].session : i \in DOMAIN rvPersisted}
    /\ UNCHANGED <<rvAttempts, rvFailures, rvWork, rvValidated, rvGateway, rvVerified, rvPersisted>>

\* Mutant: the sessions of earlier reviews are accepted again.
AttestationValidReused(tree, session) == tree = RvTree

\* verifyReviewAttestation; every other mismatch of the evidence is as a wrong tree.
AttestationValid(tree, session) == tree = RvTree /\ session \notin rvUsed

\* One run of the harness.  A context request is answered once; anything the reviewer refuses
\* is thrown from the try block, whose finally revokes the lease.
Harness(tree, session, decision) ==
    /\ rvState = "HARNESS"
    /\ LET valid == AttestationValid(tree, session)
           again == valid /\ decision = "REQUEST_CONTEXT" /\ rvRound = 0
           final == valid /\ decision # "REQUEST_CONTEXT"
       IN  /\ rvState' = IF again THEN "HARNESS" ELSE IF final THEN "PERSIST" ELSE "THREW"
           /\ rvRound' = IF again THEN 1 ELSE rvRound
           /\ rvUsed' = IF valid THEN rvUsed \cup {session} ELSE rvUsed
           /\ rvVerified' = IF final THEN [tree |-> tree, session |-> session, decision |-> decision]
                            ELSE rvVerified
           /\ rvLease' = IF again \/ final THEN rvLease ELSE "none"
    /\ UNCHANGED <<rvAttempts, rvFailures, rvWork, rvValidated, rvGateway, rvPersisted>>

PersistAttestation ==
    /\ rvState = "PERSIST" /\ rvState' = "REVOKE"
    /\ rvPersisted' = Append(rvPersisted, rvVerified)
    /\ UNCHANGED <<rvAttempts, rvFailures, rvWork, rvValidated, rvGateway, rvLease, rvRound,
                   rvUsed, rvVerified>>

\* The lease is revoked, and the sequence goes on from the decision.
EndReview ==
    /\ rvState = "REVOKE" /\ rvLease' = "none"
    /\ rvState' = IF rvVerified.decision = "ACCEPT" THEN "ACCEPTED"
                  ELSE IF FinalReview THEN "TERMINAL_REJECTED" ELSE "EXECUTE"
    /\ rvFailures' = IF rvVerified.decision = "ACCEPT" THEN rvFailures
                     ELSE Append(rvFailures, "review")
    /\ UNCHANGED <<rvAttempts, rvWork, rvValidated, rvGateway, rvRound, rvUsed, rvVerified,
                   rvPersisted>>

\* An awaited call throws: the executor, a probe, the sandbox, the artifact store, the
\* credentials, the harness, the persistence.  From a review the lease is revoked on the
\* way out, unless it is revoking that throws.
RvThrows ==
    /\ rvState \notin RvEnds /\ rvState' = "THREW"
    /\ rvLease' \in IF rvLease = "valid" THEN {"none", "stuck"} ELSE {rvLease}
    /\ UNCHANGED <<rvAttempts, rvFailures, rvWork, rvValidated, rvGateway, rvRound, rvUsed,
                   rvVerified, rvPersisted>>

\* Somebody else changes the repository while it is validated or reviewed.
RvMeddle(tree) ==
    /\ rvState \notin RvEnds \cup {"EXECUTE"} /\ rvWork' = tree
    /\ UNCHANGED <<rvState, rvAttempts, rvFailures, rvValidated, rvReview>>

RvNext ==
    \/ \E t \in RvTrees : RvExecute(t) \/ RvMeddle(t) \/ \E clean \in BOOLEAN : RunValidation(clean, t)
    \/ BeginValidation \/ \E evidence \in BOOLEAN : EndValidation(evidence)
    \/ \E valid \in BOOLEAN : BeginReview(valid)
    \/ PersistAttestation \/ EndReview \/ RvThrows
    \/ \E t \in RvTrees, n \in RvSessions, d \in RvDecisions : Harness(t, n, d)

RvSpec == RvInit /\ [][RvNext]_rvVars

-----------------------------------------------------------------------------
RvAttestation == [tree : RvTrees, session : RvSessions, decision : {"ACCEPT", "REJECT"}]

RvTypeOK ==
    /\ rvState \in RvStates /\ rvWork \in RvTrees /\ rvRound \in 0 .. 1
    /\ rvGateway \in BOOLEAN /\ rvLease \in RvLeases /\ rvUsed \subseteq RvSessions
    /\ rvValidated \in [attempt : 0 .. 3, before : RvTrees, after : RvTrees, clean : BOOLEAN]
    /\ rvVerified \in RvAttestation /\ RvAttempt <= 3
    /\ \A i \in DOMAIN rvPersisted : rvPersisted[i] \in RvAttestation
    /\ \A n \in 1 .. RvAttempt : rvAttempts[n].tree \in RvTrees
    /\ \A n \in DOMAIN rvFailures : rvFailures[n] \in {"validation", "review"}

\* What run() returns was validated and then accepted: the validation of that very attempt was
\* clean and found its tree before and after the command, and the attestation persisted last
\* accepts that tree and is by a session that persisted no other (validation.ts `passed`,
\* verifyReviewAttestation).  A session that only asked for context may attest in a later
\* review: what it said was not persisted.
AcceptedIsValidated ==
    rvState = "ACCEPTED" =>
        LET last == rvPersisted[Len(rvPersisted)] IN
        /\ rvValidated = [attempt |-> RvAttempt, before |-> RvTree, after |-> RvTree, clean |-> TRUE]
        /\ last.decision = "ACCEPT" /\ last.tree = RvTree
        /\ \A i \in 1 .. Len(rvPersisted) - 1 : rvPersisted[i].session # last.session

\* An execution answers every failure before it and nothing else, and a rejection it answers
\* is one that was persisted for the attempt it rejects (createEconomyReviewSequence).
RepairsAreEvidenced ==
    \A n \in DOMAIN rvAttempts :
        /\ Len(rvAttempts[n].evidence) = n - 1
        /\ \A i \in DOMAIN rvAttempts[n].evidence :
              rvAttempts[n].evidence[i] = "review" =>
                  \E p \in DOMAIN rvPersisted : /\ rvPersisted[p].decision = "REJECT"
                                                /\ rvPersisted[p].tree = rvAttempts[i].tree

\* A lease that reviewed is out only during its review: when the sequence executes, validates
\* or ends with a decision, its revocation has succeeded (the finally block).  Only a throw
\* leaves one behind: a revocation that threw, or a lease that was granted but failed its
\* validation, which comes before the try.
LeaseIsRevoked ==
    /\ rvLease = "valid" => rvState \in {"HARNESS", "PERSIST", "REVOKE"}
    /\ rvLease \in {"refused", "stuck"} => rvState = "THREW"

SequenceSound == AcceptedIsValidated /\ RepairsAreEvidenced /\ LeaseIsRevoked
=============================================================================
