----------------------------- MODULE PilotBlock -----------------------------
(***************************************************************************)
(* The reducer of one block of the routing pilot: replayBlock and its      *)
(* transition table (src/pilot/state-machine.ts).  The log is what the     *)
(* pilot's recorder wrote, so every event may carry any content; an event  *)
(* that the table or a guard refuses makes the block INVALID for good.     *)
(*                                                                         *)
(* An attempt, a review and an operation are named by the order in which   *)
(* the block meets them; an identity that was used before stands for any   *)
(* reused identity.  A revision stands for the revision and its tree hash. *)
(***************************************************************************)
EXTENDS Naturals, Sequences, FiniteSets

CONSTANTS
    BlockArms,      \* the arms explored: a subset of {"A", "B", "C", "DIRECT"}
    Revisions,      \* revisions of the repository; BaseRevision is one of them
    BaseRevision,
    Findings,       \* identities of material findings
    MaxValidations, \* bound on VALIDATION_RECORDED events of the block
    MaxOperations   \* bound on ORCHESTRATOR_OPERATION_RECORDED events

ASSUME PilotBlockAssumption ==
    /\ BlockArms \subseteq {"A", "B", "C", "DIRECT"}
    /\ BaseRevision \in Revisions
    /\ MaxValidations \in Nat /\ MaxOperations \in Nat

VARIABLES
    bArm,          \* the arm the manifest assigns to the block
    bState,        \* state of the replay
    bAttempts,     \* attempts, in the order they started
    bReviews,      \* reviews, in the order they started
    bUnresolved,   \* unresolved
    bRejected,     \* the review that rejectedReviewEventId names, or 0
    bTarget,       \* escalationTargetBinding, or "none"
    bValidations,  \* VALIDATION_RECORDED events so far
    bOperations,   \* orchestratorOperations so far
    bOpenOperation \* openOrchestratorOperation, or 0

blockVars == <<bArm, bState, bAttempts, bReviews, bUnresolved, bRejected,
               bTarget, bValidations, bOperations, bOpenOperation>>

MaxAttempts == 3
TerminalStates == {"ACCEPTED", "FAILED", "BLOCKED", "INVALID"}
Bindings == {"cheap", "strong1", "strong2"}
CapabilityOf(binding) == IF binding = "cheap" THEN "cheap" ELSE "strong"

Ready(n)       == <<"READY_1", "READY_2", "READY_3">>[n]
Executing(n)   == <<"EXECUTING_1", "EXECUTING_2", "EXECUTING_3">>[n]
ReadyReview(n) == <<"READY_REVIEW_1", "READY_REVIEW_2", "READY_FINAL_REVIEW">>[n]
Reviewing(n)   == <<"REVIEWING_1", "REVIEWING_2", "FINAL_REVIEWING">>[n]

\* An execution session and a review session are never the same session:
\* sessions are numbered by first use.
SessionsUsed == {bAttempts[i].session : i \in DOMAIN bAttempts}
                   \cup {bReviews[i].session : i \in DOMAIN bReviews}
SomeSession == 1 .. (Cardinality(SessionsUsed) + 1)

Last(s) == s[Len(s)]
CurrentCompletion == Len(bAttempts) > 0 /\ Last(bAttempts).completed
CurrentReview == Len(bReviews) > 0 /\ ~Last(bReviews).completed
CompletedReviews == {i \in DOMAIN bReviews : bReviews[i].completed}
PreviousReview == Cardinality(CompletedReviews)  \* only the last may be open

ReviewedRevision(review) == bAttempts[review.attempt].output
ChainRevision == IF PreviousReview = 0 THEN BaseRevision
                 ELSE ReviewedRevision(bReviews[PreviousReview])

(***************************************************************************)
(* routeFor                                                                *)
(***************************************************************************)
RouteFor(arm, attempt) ==
    IF arm \in {"A", "DIRECT"} THEN "strong"
    ELSE IF arm = "B" THEN "cheap"
    ELSE IF attempt = 3 THEN "strong" ELSE "cheap"

(***************************************************************************)
(* The catch of replayBlock: nothing of the block counts any more (the     *)
(* diagnostic list of findings that invalid() still reports is left out).  *)
(***************************************************************************)
Invalidate ==
    /\ bState' = "INVALID"
    /\ bAttempts' = <<>> /\ bReviews' = <<>> /\ bUnresolved' = {}
    /\ bRejected' = 0 /\ bTarget' = "none"
    /\ bValidations' = 0 /\ bOperations' = 0 /\ bOpenOperation' = 0
    /\ UNCHANGED bArm

NonTerminal == bState # "none" /\ bState \notin TerminalStates
CloseWindows == bReviews' = [i \in DOMAIN bReviews |->
                                [bReviews[i] EXCEPT !.window = FALSE]]

-----------------------------------------------------------------------------
(***************************************************************************)
(* An event that belongs to no row of the table, names another manifest,   *)
(* block or arm, leaves a gap in the sequence or goes back in time.        *)
(***************************************************************************)
ForeignEvent == bState # "INVALID" /\ Invalidate

PrepareBlock(from, to, arms) ==
    /\ bState = from /\ bArm \in arms
    /\ bState' = to
    /\ bOpenOperation' = 0
    /\ UNCHANGED <<bArm, bAttempts, bReviews, bUnresolved, bRejected, bTarget,
                   bValidations, bOperations>>

BlockPlanned == PrepareBlock("none", "PLANNED", BlockArms)
ArmAssigned == PrepareBlock("PLANNED", "ASSIGNED", BlockArms \ {"DIRECT"})
IsolationAttested(clean) ==
    IF clean
    THEN \/ PrepareBlock("ASSIGNED", "READY_1", BlockArms)
         \/ PrepareBlock("PLANNED", "READY_1", {"DIRECT"})
    ELSE bState \in {"ASSIGNED", "PLANNED"} /\ Invalidate

(***************************************************************************)
(* EXECUTION_STARTED                                                       *)
(***************************************************************************)
StartAllowed(n, session, binding, input) ==
    /\ bState = Ready(n)
    /\ input = ChainRevision
    /\ session \notin SessionsUsed
    /\ bArm = "C" /\ n = 3 => binding = bTarget
    /\ CapabilityOf(binding) = RouteFor(bArm, n)

ExecutionStarted(session, binding, input) ==
    LET n == Len(bAttempts) + 1 IN
    /\ n \in 1 .. MaxAttempts /\ NonTerminal
    /\ IF StartAllowed(n, session, binding, input)
       THEN /\ bAttempts' = Append(bAttempts,
                   [session |-> session, binding |-> binding, input |-> input,
                    output |-> input, completed |-> FALSE,
                    reviewStarted |-> FALSE, evidence |-> {}])
            /\ bState' = Executing(n)
            /\ CloseWindows
            /\ bOpenOperation' = 0
            /\ UNCHANGED <<bArm, bUnresolved, bRejected, bTarget,
                           bValidations, bOperations>>
       ELSE Invalidate

(***************************************************************************)
(* EXECUTION_COMPLETED: the completion must repeat what the start said     *)
(* (`owned`) and the tree must have been reproduced (`reproduced`).        *)
(***************************************************************************)
ExecutionCompleted(owned, reproduced, output) ==
    LET n == Len(bAttempts) IN
    /\ n > 0 /\ NonTerminal
    /\ IF bState = Executing(n) /\ owned /\ reproduced
       THEN /\ bAttempts' = [bAttempts EXCEPT ![n].completed = TRUE,
                                              ![n].output = output]
            /\ bState' = ReadyReview(n)
            /\ bOpenOperation' = 0
            /\ UNCHANGED <<bArm, bReviews, bUnresolved, bRejected, bTarget,
                           bValidations, bOperations>>
       ELSE Invalidate

(***************************************************************************)
(* VALIDATION_RECORDED: evidence is filed under a completed attempt until  *)
(* its review starts.                                                      *)
(***************************************************************************)
ValidationAllowed(attempt) ==
    /\ attempt \in DOMAIN bAttempts
    /\ bAttempts[attempt].completed /\ ~bAttempts[attempt].reviewStarted

ValidationRecorded(attempt) ==
    /\ NonTerminal /\ bValidations < MaxValidations
    /\ IF ValidationAllowed(attempt)
       THEN /\ bValidations' = bValidations + 1
            /\ bAttempts' = [bAttempts EXCEPT ![attempt].evidence =
                                @ \cup {bValidations + 1}]
            /\ bOpenOperation' = 0
            /\ UNCHANGED <<bArm, bState, bReviews, bUnresolved, bRejected,
                           bTarget, bOperations>>
       ELSE Invalidate

(***************************************************************************)
(* REVIEW_STARTED                                                          *)
(***************************************************************************)
\* Mutant: a review may start while another one is open.
ReviewAllowedRepeatedly(attempt, session, sessionReviewed) ==
    /\ attempt = Len(bAttempts) /\ CurrentCompletion
    /\ sessionReviewed = bAttempts[attempt].session
    /\ session \notin SessionsUsed

ReviewAllowed(attempt, session, sessionReviewed) ==
    /\ attempt = Len(bAttempts) /\ CurrentCompletion
    /\ bState = ReadyReview(attempt)
    /\ sessionReviewed = bAttempts[attempt].session
    /\ session \notin SessionsUsed

ReviewStarted(attempt, session, sessionReviewed) ==
    /\ NonTerminal /\ attempt \in DOMAIN bAttempts
    /\ IF ReviewAllowed(attempt, session, sessionReviewed)
       THEN /\ bAttempts' = [bAttempts EXCEPT ![attempt].reviewStarted = TRUE]
            /\ bReviews' = Append(bReviews,
                   [attempt |-> attempt, session |-> session,
                    completed |-> FALSE, window |-> FALSE,
                    decision |-> "none", evidence |-> {}])
            /\ bState' = Reviewing(attempt)
            /\ bOpenOperation' = 0
            /\ UNCHANGED <<bArm, bUnresolved, bRejected, bTarget,
                           bValidations, bOperations>>
       ELSE Invalidate

(***************************************************************************)
(* REVIEW_COMPLETED: the boundary continues the chain of revisions, cites  *)
(* exactly the evidence of the attempt and carries every finding that is   *)
(* still unresolved.                                                       *)
(***************************************************************************)
NextUnresolved(opened, resolved) == (bUnresolved \cup opened) \ resolved

ReviewProofValid(decision, from, cited, opened, resolved, reported, minor) ==
    /\ from = ChainRevision
    /\ cited = bAttempts[Last(bReviews).attempt].evidence
    /\ resolved \subseteq bUnresolved \cup opened
    /\ reported = NextUnresolved(opened, resolved)
    /\ decision = "ACCEPT" => reported = {}
    /\ decision = "REJECT" => reported \cup opened \cup resolved # {} \/ minor

AfterReview(n, decision) ==
    CASE decision = "ACCEPT" -> "READY_ACCEPT"
      [] decision = "REJECT" /\ n = 1 -> "READY_2"
      [] decision = "REJECT" /\ n = 2 ->
            IF bArm = "C" THEN "ESCALATION_REQUIRED" ELSE "READY_3"
      [] decision = "REJECT" /\ n = 3 -> "READY_FAIL"

ReviewCompleted(decision, from, cited, opened, resolved, reported, minor) ==
    LET n == Len(bReviews) IN
    /\ NonTerminal /\ n > 0
    /\ IF /\ CurrentReview
          /\ ReviewProofValid(decision, from, cited, opened, resolved, reported, minor)
       THEN /\ bReviews' = [bReviews EXCEPT ![n].completed = TRUE,
                                            ![n].window = TRUE,
                                            ![n].decision = decision,
                                            ![n].evidence = cited]
            /\ bUnresolved' = reported
            /\ bRejected' = IF decision = "REJECT" THEN n ELSE bRejected
            /\ bState' = AfterReview(n, decision)
            /\ bOpenOperation' = 0
            /\ UNCHANGED <<bArm, bAttempts, bTarget, bValidations, bOperations>>
       ELSE Invalidate

(***************************************************************************)
(* ORCHESTRATOR_OPERATION_RECORDED and USAGE_RECORDED.  Usage is charged   *)
(* to the operation recorded just before it, to a completed attempt whose  *)
(* review has not started, or to a review whose window is open.            *)
(***************************************************************************)
OperationRecorded(fresh) ==
    /\ NonTerminal /\ bOperations < MaxOperations
    /\ IF fresh
       THEN /\ bOperations' = bOperations + 1
            /\ bOpenOperation' = bOperations + 1
            /\ UNCHANGED <<bArm, bState, bAttempts, bReviews, bUnresolved,
                           bRejected, bTarget, bValidations>>
       ELSE Invalidate

UsageAllowed(role, owner) ==
    CASE role = "orchestrator" -> owner # 0 /\ owner = bOpenOperation
      [] role = "executor"     -> ValidationAllowed(owner)
      [] role = "reviewer"     -> owner \in DOMAIN bReviews /\ bReviews[owner].window

UsageRecorded(role, owner) ==
    /\ NonTerminal
    /\ IF UsageAllowed(role, owner)
       THEN /\ bOpenOperation' = IF role = "orchestrator" THEN bOpenOperation ELSE 0
            /\ UNCHANGED <<bArm, bState, bAttempts, bReviews, bUnresolved,
                           bRejected, bTarget, bValidations, bOperations>>
       ELSE Invalidate

ReworkRecorded(review, attempt) ==
    /\ NonTerminal
    /\ IF /\ review \in DOMAIN bReviews /\ bReviews[review].window
          /\ bReviews[review].attempt = attempt
       THEN /\ bOpenOperation' = 0
            /\ UNCHANGED <<bArm, bState, bAttempts, bReviews, bUnresolved,
                           bRejected, bTarget, bValidations, bOperations>>
       ELSE Invalidate

(***************************************************************************)
(* ESCALATION_DECIDED                                                      *)
(***************************************************************************)
EscalationAllowed(review, binding) ==
    /\ bState = "ESCALATION_REQUIRED" /\ bArm = "C"
    /\ review # 0 /\ review = bRejected
    /\ CapabilityOf(binding) = "strong"

EscalationDecided(review, binding) ==
    /\ NonTerminal
    /\ IF EscalationAllowed(review, binding)
       THEN /\ bTarget' = binding
            /\ bState' = "READY_3"
            /\ CloseWindows
            /\ bOpenOperation' = 0
            /\ UNCHANGED <<bArm, bAttempts, bUnresolved, bRejected,
                           bValidations, bOperations>>
       ELSE Invalidate

(***************************************************************************)
(* BLOCK_ACCEPTED, BLOCK_FAILED, BLOCK_BLOCKED, POST_ACCEPT_DEFECT_RECORDED*)
(***************************************************************************)
AcceptedReviews == {i \in CompletedReviews : bReviews[i].decision = "ACCEPT"}

EndBlock(allowed, to) ==
    IF allowed
    THEN /\ bState' = to
         /\ CloseWindows
         /\ bOpenOperation' = 0
         /\ UNCHANGED <<bArm, bAttempts, bUnresolved, bRejected, bTarget,
                        bValidations, bOperations>>
    ELSE Invalidate

BlockAccepted(revision) ==
    NonTerminal /\ EndBlock(/\ bState = "READY_ACCEPT"
                            /\ \E i \in AcceptedReviews :
                                  revision = ReviewedRevision(bReviews[i]),
                            "ACCEPTED")
BlockFailed  == NonTerminal /\ EndBlock(bState = "READY_FAIL", "FAILED")
BlockBlocked == NonTerminal /\ EndBlock(TRUE, "BLOCKED")

DefectRecorded(review, revision) ==
    /\ bState = "ACCEPTED"
    /\ IF review \in AcceptedReviews /\ revision = ReviewedRevision(bReviews[review])
       THEN UNCHANGED blockVars
       ELSE Invalidate

-----------------------------------------------------------------------------
BlockInit ==
    /\ bArm \in BlockArms
    /\ bState = "none"
    /\ bAttempts = <<>> /\ bReviews = <<>> /\ bUnresolved = {}
    /\ bRejected = 0 /\ bTarget = "none"
    /\ bValidations = 0 /\ bOperations = 0 /\ bOpenOperation = 0

BlockNext ==
    \/ ForeignEvent
    \/ BlockPlanned \/ ArmAssigned
    \/ \E clean \in BOOLEAN : IsolationAttested(clean)
    \/ \E s \in SomeSession, b \in Bindings, r \in Revisions : ExecutionStarted(s, b, r)
    \/ \E owned, reproduced \in BOOLEAN, r \in Revisions :
          ExecutionCompleted(owned, reproduced, r)
    \/ \E a \in 1 .. MaxAttempts : ValidationRecorded(a)
    \/ \E a \in 1 .. MaxAttempts, s, e \in SomeSession : ReviewStarted(a, s, e)
    \/ \E d \in {"ACCEPT", "REJECT"}, r \in Revisions, c \in SUBSET (1 .. bValidations),
          o, x, u \in SUBSET Findings, m \in BOOLEAN :
             ReviewCompleted(d, r, c, o, x, u, m)
    \/ \E fresh \in BOOLEAN : OperationRecorded(fresh)
    \/ \E role \in {"orchestrator", "executor", "reviewer"}, i \in 0 .. MaxAttempts :
          UsageRecorded(role, i)
    \/ \E r, a \in 1 .. MaxAttempts : ReworkRecorded(r, a)
    \/ \E r \in 0 .. MaxAttempts, b \in Bindings : EscalationDecided(r, b)
    \/ \E r \in Revisions : BlockAccepted(r)
    \/ BlockFailed \/ BlockBlocked
    \/ \E i \in 1 .. MaxAttempts, r \in Revisions : DefectRecorded(i, r)

BlockSpec == BlockInit /\ [][BlockNext]_blockVars
-----------------------------------------------------------------------------
(* Type invariant of the block's replay. *)
BlockTypeOK ==
    /\ bArm \in BlockArms
    /\ Len(bAttempts) \in 0 .. MaxAttempts /\ Len(bReviews) \in 0 .. Len(bAttempts)
    /\ \A i \in DOMAIN bAttempts :
          /\ bAttempts[i].binding \in Bindings
          /\ {bAttempts[i].input, bAttempts[i].output} \subseteq Revisions
          /\ bAttempts[i].evidence \subseteq 1 .. bValidations
    /\ \A i \in DOMAIN bReviews : bReviews[i].attempt \in DOMAIN bAttempts
    /\ bUnresolved \subseteq Findings
    /\ bRejected \in 0 .. Len(bReviews)
    /\ bTarget \in Bindings \cup {"none"}
    /\ bOpenOperation \in 0 .. bOperations

Accepted == bState = "ACCEPTED"
ChainUnbroken ==
    \A i \in DOMAIN bAttempts :
       bAttempts[i].input = IF i = 1 THEN BaseRevision ELSE bAttempts[i - 1].output
IndependentReviewers ==
    \A i \in DOMAIN bReviews, j \in DOMAIN bAttempts :
       bReviews[i].session # bAttempts[j].session

(* What replayBlock reports as ACCEPTED was accepted by the review of the  *)
(* last attempt, every attempt continued what the review before it saw, no *)
(* finding is left unresolved, no reviewer's session ever executed in the  *)
(* block, and every review decided on all the evidence its attempt has,    *)
(* then and now (state-machine.ts BLOCK_ACCEPTED, REVIEW_COMPLETED).       *)
AcceptedIsReviewed ==
    /\ Accepted =>
          /\ Len(bReviews) = Len(bAttempts) /\ Last(bReviews).decision = "ACCEPT"
          /\ \A i \in 1 .. Len(bReviews) - 1 : bReviews[i].decision = "REJECT"
          /\ bUnresolved = {}
    /\ ChainUnbroken /\ IndependentReviewers
    /\ \A i \in CompletedReviews :
          bReviews[i].evidence = bAttempts[bReviews[i].attempt].evidence

(* The arm decides who executes: the strong baseline never falls back to a *)
(* cheap binding, the cheap arm never escalates, and the adaptive arm uses *)
(* a strong binding only in its third attempt, the one the escalation of   *)
(* the second rejection named (state-machine.ts routeFor, transitionRows). *)
ArmIsKept ==
    /\ \A i \in DOMAIN bAttempts :
          CapabilityOf(bAttempts[i].binding) =
             CASE bArm \in {"A", "DIRECT"} -> "strong"
               [] bArm = "B" -> "cheap"
               [] bArm = "C" -> IF bTarget # "none" /\ i = 3 THEN "strong" ELSE "cheap"
    /\ bArm = "C" /\ Len(bAttempts) = 3 =>
          /\ bAttempts[3].binding = bTarget
          /\ {bReviews[1].decision, bReviews[2].decision} = {"REJECT"}
    /\ bTarget # "none" => bArm = "C" /\ bRejected >= 2

\* The experiment measures what its protocol says: reviewed work, in the arm it was assigned.
BlockSound == AcceptedIsReviewed /\ ArmIsKept
=============================================================================
