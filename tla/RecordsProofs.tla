---------------------------- MODULE RecordsProofs -----------------------------
(***************************************************************************)
(* The records of MCRecords, for every number of trees, sessions, events,  *)
(* bindings, triplets and outcomes: the review sequence, the replay of a   *)
(* block, the chain of evaluations, the event log and its projection, and  *)
(* the health of a binding.                                                *)
(*                                                                         *)
(* The argument.  The first three are inductive invariants: what the       *)
(* control state says of the attempts, reviews and reports on record.  The *)
(* last two are also about recursions over all that was recorded.  Their   *)
(* functions exist (RecursionExists), and what they have computed up to an *)
(* event or a time is followed by induction (UpTo, on the set of numbers   *)
(* for which the claim holds): BackwardPass and ForwardPass for            *)
(* activeEvents, HealthAt for the replay of the outcomes.  The last part   *)
(* is the composition.                                                     *)
(***************************************************************************)
EXTENDS MCRecords, FiniteSetTheorems, TLAPS

-----------------------------------------------------------------------------
(* The review sequence. *)

RvFailure == {"validation", "review"}
RvExecution == [tree : RvTrees, evidence : Seq(RvFailure)]
RvValidation == [attempt : Nat, before : RvTrees, after : RvTrees, clean : BOOLEAN]

RvTyped ==
    /\ rvState \in RvStates /\ rvWork \in RvTrees /\ rvRound \in 0 .. 1
    /\ rvGateway \in BOOLEAN /\ rvLease \in RvLeases /\ rvUsed \subseteq RvSessions
    /\ rvValidated \in RvValidation /\ rvVerified \in RvAttestation
    /\ rvAttempts \in Seq(RvExecution) /\ rvFailures \in Seq(RvFailure)
    /\ rvPersisted \in Seq(RvAttestation)

\* An attempt is under way from its execution to the end of its review.
RvUnderWay == {"VALIDATE", "RUN_VALIDATION", "VALIDATION_RAN", "REVIEW", "HARNESS", "PERSIST", "REVOKE"}
RvReviewed == {"REVIEW", "HARNESS", "PERSIST", "REVOKE", "ACCEPTED"}

AttemptsCounted ==
    /\ Len(rvFailures) <= Len(rvAttempts) /\ Len(rvAttempts) <= 3
    /\ rvState = "EXECUTE" => Len(rvAttempts) = Len(rvFailures) /\ Len(rvAttempts) <= 2
    /\ rvState \in RvUnderWay \cup {"ACCEPTED"} => Len(rvAttempts) = Len(rvFailures) + 1

ValidationIsCurrent ==
    /\ rvValidated.attempt <= Len(rvAttempts)
    /\ rvState \in {"RUN_VALIDATION", "VALIDATION_RAN"} => rvValidated.attempt = Len(rvAttempts)
    /\ rvState \in RvReviewed =>
          /\ rvValidated.attempt = Len(rvAttempts) /\ rvValidated.clean
          /\ rvValidated.before = RvTree /\ rvValidated.after = RvTree

PersistedBefore(session, n) == \A i \in 1 .. n : rvPersisted[i].session # session

ReviewIsFresh ==
    /\ rvState = "HARNESS" => \A i \in DOMAIN rvPersisted : rvPersisted[i].session \in rvUsed
    /\ rvState = "PERSIST" => PersistedBefore(rvVerified.session, Len(rvPersisted))
    /\ rvState \in {"REVOKE", "ACCEPTED"} =>
          /\ Len(rvPersisted) > 0 /\ rvPersisted[Len(rvPersisted)] = rvVerified
          /\ PersistedBefore(rvVerified.session, Len(rvPersisted) - 1)
    /\ rvState \in {"PERSIST", "REVOKE", "ACCEPTED"} => rvVerified.tree = RvTree
    /\ rvState = "ACCEPTED" => rvVerified.decision = "ACCEPT"

RejectionIn(persisted, tree) ==
    \E p \in DOMAIN persisted : persisted[p].decision = "REJECT" /\ persisted[p].tree = tree

RejectionsPersisted ==
    \A i \in DOMAIN rvFailures :
        rvFailures[i] = "review" => RejectionIn(rvPersisted, rvAttempts[i].tree)

RvInv ==
    /\ RvTyped /\ AttemptsCounted /\ ValidationIsCurrent /\ ReviewIsFresh
    /\ RejectionsPersisted /\ RepairsAreEvidenced /\ LeaseIsRevoked

\* The attempts, failures and attestations of a sequence are sequences of their records.
LEMMA RvTypedFacts ==
    ASSUME RvTyped
    PROVE  /\ Len(rvAttempts) \in Nat /\ Len(rvFailures) \in Nat /\ Len(rvPersisted) \in Nat
           /\ DOMAIN rvAttempts = 1 .. Len(rvAttempts)
           /\ DOMAIN rvFailures = 1 .. Len(rvFailures)
           /\ DOMAIN rvPersisted = 1 .. Len(rvPersisted)
           /\ \A i \in 1 .. Len(rvAttempts) : rvAttempts[i] \in RvExecution
           /\ \A i \in 1 .. Len(rvFailures) : rvFailures[i] \in RvFailure
           /\ \A i \in 1 .. Len(rvPersisted) : rvPersisted[i] \in RvAttestation
<1>0. rvAttempts \in Seq(RvExecution) /\ rvFailures \in Seq(RvFailure) /\ rvPersisted \in Seq(RvAttestation)
  BY DEF RvTyped
<1>q. QED BY <1>0

\* Before the first attempt.
LEMMA RvInitHolds == ASSUME RvInit PROVE RvInv
<1>1. RvTrees # {} BY DEF RvInit
<1>2. RvTyped
  <2>1. (CHOOSE t \in RvTrees : TRUE) \in RvTrees BY <1>1
  <2>2. (CHOOSE n \in RvSessions : TRUE) \in RvSessions BY SessionsAssumption
  <2>3. rvValidated \in RvValidation BY <2>1 DEF RvInit, NotValidated, RvValidation
  <2>4. rvVerified \in RvAttestation BY <2>1, <2>2 DEF RvInit, RvAttestation
  <2>5. rvAttempts \in Seq(RvExecution) /\ rvFailures \in Seq(RvFailure) /\ rvPersisted \in Seq(RvAttestation)
    BY DEF RvInit
  <2>6. rvState \in RvStates /\ rvRound \in 0 .. 1 /\ rvUsed \subseteq RvSessions /\ rvWork \in RvTrees
    BY DEF RvInit, RvStates
  <2>7. rvGateway \in BOOLEAN /\ rvLease \in RvLeases BY DEF RvInit, RvLeases
  <2>q. QED BY <2>3, <2>4, <2>5, <2>6, <2>7 DEF RvTyped
<1>3. Len(rvAttempts) = 0 /\ Len(rvFailures) = 0 /\ Len(rvPersisted) = 0 BY DEF RvInit
<1>4. DOMAIN rvAttempts = {} /\ DOMAIN rvFailures = {} BY DEF RvInit
<1>5. AttemptsCounted BY <1>3 DEF RvInit, AttemptsCounted, RvUnderWay
<1>6. ValidationIsCurrent BY <1>3 DEF RvInit, ValidationIsCurrent, NotValidated, RvReviewed
<1>7. ReviewIsFresh BY DEF RvInit, ReviewIsFresh
<1>8. RejectionsPersisted /\ RepairsAreEvidenced /\ LeaseIsRevoked
  BY <1>4 DEF RvInit, RejectionsPersisted, RepairsAreEvidenced, LeaseIsRevoked
<1>q. QED BY <1>2, <1>5, <1>6, <1>7, <1>8 DEF RvInv

\* Every step of a sequence keeps the types.
LEMMA RvTypedKept == ASSUME RvTyped, AttemptsCounted, [RvNext]_rvVars PROVE RvTyped'
<1> USE DEF rvReview
<1>0. RvTyped OBVIOUS
<1>t. /\ rvState \in RvStates /\ rvWork \in RvTrees /\ rvRound \in 0 .. 1
      /\ rvUsed \subseteq RvSessions
      /\ rvValidated \in RvValidation /\ rvVerified \in RvAttestation
      /\ rvAttempts \in Seq(RvExecution) /\ rvFailures \in Seq(RvFailure)
      /\ rvPersisted \in Seq(RvAttestation) BY <1>0 DEF RvTyped
<1>b. rvGateway \in BOOLEAN /\ rvLease \in RvLeases BY <1>0 DEF RvTyped
<1>s. \A s \in {"EXECUTE", "VALIDATE", "RUN_VALIDATION", "VALIDATION_RAN", "REVIEW", "HARNESS",
                "PERSIST", "REVOKE", "ACCEPTED", "TERMINAL_REJECTED", "THREW"} : s \in RvStates
  BY DEF RvStates, RvEnds
<1>q. ASSUME rvState' \in RvStates /\ rvWork' \in RvTrees /\ rvRound' \in 0 .. 1,
             rvUsed' \subseteq RvSessions,
             rvValidated' \in RvValidation /\ rvVerified' \in RvAttestation,
             rvAttempts' \in Seq(RvExecution) /\ rvFailures' \in Seq(RvFailure),
             rvPersisted' \in Seq(RvAttestation),
             rvGateway' \in BOOLEAN /\ rvLease' \in RvLeases
      PROVE  RvTyped'
  BY <1>q DEF RvTyped
<1>1. ASSUME NEW t \in RvTrees, RvExecute(t) PROVE RvTyped'
  <2>1. [tree |-> t, evidence |-> rvFailures] \in RvExecution BY <1>t DEF RvExecution
  <2>2. rvAttempts' \in Seq(RvExecution) BY <1>1, <1>t, <2>1 DEF RvExecute
  <2>3. rvState' = "VALIDATE" /\ rvWork' = t
        /\ UNCHANGED <<rvFailures, rvValidated, rvGateway, rvLease, rvRound, rvUsed, rvVerified, rvPersisted>>
    BY <1>1 DEF RvExecute
  <2>q. QED BY <1>q, <1>t, <1>b, <1>s, <2>2, <2>3
<1>2. ASSUME NEW t \in RvTrees, RvMeddle(t) PROVE RvTyped'
  <2>3. rvWork' = t /\ UNCHANGED <<rvState, rvAttempts, rvFailures, rvValidated, rvGateway, rvLease, rvRound, rvUsed, rvVerified, rvPersisted>>
    BY <1>2 DEF RvMeddle
  <2>q. QED BY <1>q, <1>t, <1>b, <2>3
<1>3. ASSUME NEW t \in RvTrees, NEW clean \in BOOLEAN, RunValidation(clean, t) PROVE RvTyped'
  <2>1. rvValidated' \in RvValidation
    BY <1>3, <1>t DEF RunValidation, RvValidation
  <2>3. rvWork' = t /\ rvState' = "VALIDATION_RAN"
        /\ UNCHANGED <<rvAttempts, rvFailures, rvGateway, rvLease, rvRound, rvUsed, rvVerified, rvPersisted>>
    BY <1>3 DEF RunValidation
  <2>q. QED BY <1>q, <1>t, <1>b, <1>s, <2>1, <2>3
<1>4. ASSUME BeginValidation PROVE RvTyped'
  <2>0. RvAttempt \in Nat BY <1>t DEF RvAttempt
  <2>1. rvValidated' \in RvValidation
    BY <1>4, <1>t, <2>0 DEF BeginValidation, RvValidation
  <2>2. rvState' \in RvStates BY <1>4, <1>s DEF BeginValidation
  <2>3. UNCHANGED <<rvWork, rvAttempts, rvFailures, rvGateway, rvLease, rvRound, rvUsed, rvVerified, rvPersisted>>
    BY <1>4 DEF BeginValidation
  <2>q. QED BY <1>q, <1>t, <1>b, <2>1, <2>2, <2>3
<1>5. ASSUME NEW e \in BOOLEAN, EndValidation(e) PROVE RvTyped'
  <2>1. rvValidated' \in RvValidation
    BY <1>5, <1>t DEF EndValidation, RvValidation
  <2>2. rvState' \in RvStates BY <1>5, <1>s DEF EndValidation
  <2>3. rvFailures' \in Seq(RvFailure)
    <3>1. Append(rvFailures, "validation") \in Seq(RvFailure)
      BY <1>t DEF RvFailure
    <3>q. QED BY <1>5, <1>t, <3>1 DEF EndValidation
  <2>4. UNCHANGED <<rvWork, rvAttempts, rvGateway, rvLease, rvRound, rvUsed, rvVerified, rvPersisted>>
    BY <1>5 DEF EndValidation
  <2>q. QED BY <1>q, <1>t, <1>b, <2>1, <2>2, <2>3, <2>4
<1>6. ASSUME NEW valid \in BOOLEAN, BeginReview(valid) PROVE RvTyped'
  <2>0. rvUsed' = {rvPersisted[i].session : i \in DOMAIN rvPersisted} BY <1>6 DEF BeginReview
  <2>1. \A i \in DOMAIN rvPersisted : rvPersisted[i] \in RvAttestation BY <1>t
  <2>2. \A i \in DOMAIN rvPersisted : rvPersisted[i].session \in RvSessions
    BY <2>1 DEF RvAttestation
  <2>3. rvUsed' \subseteq RvSessions BY <2>0, <2>2
  <2>4. rvState' \in {"HARNESS", "THREW"} /\ rvRound' = 0
        /\ UNCHANGED <<rvAttempts, rvFailures, rvWork, rvValidated, rvGateway, rvVerified, rvPersisted>>
    BY <1>6 DEF BeginReview
  <2>5. rvLease' \in RvLeases BY <1>6 DEF BeginReview, RvLeases
  <2>6. rvGateway' \in BOOLEAN BY <1>b, <2>4
  <2>q. QED BY <1>q, <1>t, <1>s, <2>3, <2>4, <2>5, <2>6
<1>7. ASSUME PersistAttestation PROVE RvTyped'
  <2>1. rvPersisted' \in Seq(RvAttestation) BY <1>7, <1>t DEF PersistAttestation
  <2>2. rvState' = "REVOKE"
        /\ UNCHANGED <<rvAttempts, rvFailures, rvWork, rvValidated, rvGateway, rvLease, rvRound, rvUsed, rvVerified>>
    BY <1>7 DEF PersistAttestation
  <2>q. QED BY <1>q, <1>t, <1>b, <1>s, <2>1, <2>2
<1>8. ASSUME EndReview PROVE RvTyped'
  <2>1. rvFailures' \in Seq(RvFailure)
    <3>1. Append(rvFailures, "review") \in Seq(RvFailure)
      BY <1>t DEF RvFailure
    <3>q. QED BY <1>8, <1>t, <3>1 DEF EndReview
  <2>2. rvState' \in RvStates BY <1>8, <1>s DEF EndReview
  <2>3. UNCHANGED <<rvAttempts, rvWork, rvValidated, rvGateway, rvRound, rvUsed, rvVerified, rvPersisted>>
    BY <1>8 DEF EndReview
  <2>4. rvLease' \in RvLeases BY <1>8 DEF EndReview, RvLeases
  <2>q. QED BY <1>q, <1>t, <1>b, <2>1, <2>2, <2>3, <2>4
<1>9. ASSUME RvThrows PROVE RvTyped'
  <2>1. rvState' = "THREW"
        /\ UNCHANGED <<rvAttempts, rvFailures, rvWork, rvValidated, rvGateway, rvRound, rvUsed, rvVerified, rvPersisted>>
    BY <1>9 DEF RvThrows
  <2>3. rvLease' \in RvLeases BY <1>9, <1>b DEF RvThrows, RvLeases
  <2>q. QED BY <1>q, <1>t, <1>b, <1>s, <2>1, <2>3
<1>10. ASSUME NEW t \in RvTrees, NEW n \in RvSessions, NEW d \in RvDecisions, Harness(t, n, d)
       PROVE  RvTyped'
  <2>1. rvState' \in {"HARNESS", "PERSIST", "THREW"} BY <1>10 DEF Harness
  <2>2. rvRound' \in 0 .. 1 BY <1>10, <1>t DEF Harness
  <2>3. rvUsed' \subseteq RvSessions BY <1>10, <1>t DEF Harness
  <2>4. rvVerified' \in RvAttestation
    <3>1. ASSUME d # "REQUEST_CONTEXT"
          PROVE  [tree |-> t, session |-> n, decision |-> d] \in RvAttestation
      BY <3>1 DEF RvAttestation, RvDecisions
    <3>2. \/ rvVerified' = rvVerified
          \/ d # "REQUEST_CONTEXT" /\ rvVerified' = [tree |-> t, session |-> n, decision |-> d]
      BY <1>10 DEF Harness
    <3>q. QED BY <3>1, <3>2, <1>t
  <2>5. rvLease' \in RvLeases BY <1>10, <1>b DEF Harness, RvLeases
  <2>6. UNCHANGED <<rvAttempts, rvFailures, rvWork, rvValidated, rvGateway, rvPersisted>>
    BY <1>10 DEF Harness
  <2>7. rvGateway' \in BOOLEAN BY <1>b, <2>6
  <2>q. QED BY <1>q, <1>t, <1>s, <2>1, <2>2, <2>3, <2>4, <2>5, <2>6, <2>7
<1>11. ASSUME UNCHANGED rvVars PROVE RvTyped'
  BY <1>11, <1>q, <1>t, <1>b DEF rvVars
<1>z. QED BY <1>1, <1>2, <1>3, <1>4, <1>5, <1>6, <1>7, <1>8, <1>9, <1>10, <1>11 DEF RvNext

\* There is one failure per attempt that ended, and one more attempt while one is under way.
LEMMA AttemptsCountedKept ==
    ASSUME RvTyped, AttemptsCounted, [RvNext]_rvVars PROVE AttemptsCounted'
<1> USE DEF rvReview
<1>t. /\ Len(rvAttempts) \in Nat /\ Len(rvFailures) \in Nat
      /\ rvAttempts \in Seq(RvExecution) /\ rvFailures \in Seq(RvFailure)
  BY RvTypedFacts DEF RvTyped
<1>c. AttemptsCounted OBVIOUS
<1>f. \A x : Len(Append(rvFailures, x)) = Len(rvFailures) + 1 BY <1>t
<1>u. rvState \in RvUnderWay => Len(rvAttempts) = Len(rvFailures) + 1 BY <1>c DEF AttemptsCounted
<1>k. ASSUME UNCHANGED <<rvAttempts, rvFailures>>,
             rvState \in RvUnderWay, rvState' \in RvUnderWay \cup {"THREW"}
      PROVE  AttemptsCounted'
  BY <1>k, <1>c DEF AttemptsCounted, RvUnderWay
<1>1. ASSUME NEW t \in RvTrees, RvExecute(t) PROVE AttemptsCounted'
  <2>1. Len(rvAttempts) = Len(rvFailures) /\ Len(rvAttempts) <= 2
    BY <1>1, <1>c DEF RvExecute, AttemptsCounted
  <2>2. Len(rvAttempts') = Len(rvAttempts) + 1 BY <1>1, <1>t DEF RvExecute
  <2>3. rvState' = "VALIDATE" /\ rvFailures' = rvFailures BY <1>1 DEF RvExecute
  <2>q. QED BY <1>t, <2>1, <2>2, <2>3 DEF AttemptsCounted, RvUnderWay
<1>2. ASSUME NEW t \in RvTrees, RvMeddle(t) PROVE AttemptsCounted'
  <2>1. UNCHANGED <<rvState, rvAttempts, rvFailures>> BY <1>2 DEF RvMeddle
  <2>q. QED BY <1>c, <2>1 DEF AttemptsCounted
<1>3. ASSUME NEW t \in RvTrees, NEW clean \in BOOLEAN, RunValidation(clean, t) PROVE AttemptsCounted'
  BY <1>3, <1>k DEF RunValidation, RvUnderWay
<1>4. ASSUME BeginValidation PROVE AttemptsCounted'
  BY <1>4, <1>k DEF BeginValidation, RvUnderWay
<1>5. ASSUME NEW e \in BOOLEAN, EndValidation(e) PROVE AttemptsCounted'
  <2>0. rvState = "VALIDATION_RAN" /\ rvAttempts' = rvAttempts BY <1>5 DEF EndValidation
  <2>1. Len(rvAttempts) = Len(rvFailures) + 1 /\ Len(rvAttempts) <= 3
    BY <2>0, <1>u, <1>c DEF RvUnderWay, AttemptsCounted
  <2>2. CASE Passed
    <3>1. rvState' = "REVIEW" /\ rvFailures' = rvFailures BY <1>5, <2>2 DEF EndValidation
    <3>q. QED BY <1>t, <2>0, <2>1, <3>1 DEF AttemptsCounted, RvUnderWay
  <2>3. CASE ~Passed
    <3>1. rvFailures' = Append(rvFailures, "validation") BY <1>5, <2>3 DEF EndValidation
    <3>2. Len(rvFailures') = Len(rvFailures) + 1 BY <3>1, <1>f
    <3>3. \/ rvState' = "EXECUTE" /\ Len(rvAttempts) < 3
          \/ rvState' = "TERMINAL_REJECTED"
      BY <1>5, <2>3 DEF EndValidation, RvAttempt
    <3>q. QED BY <1>t, <2>0, <2>1, <3>2, <3>3 DEF AttemptsCounted, RvUnderWay
  <2>q. QED BY <2>2, <2>3
<1>6. ASSUME NEW valid \in BOOLEAN, BeginReview(valid) PROVE AttemptsCounted'
  BY <1>6, <1>k DEF BeginReview, RvUnderWay
<1>7. ASSUME PersistAttestation PROVE AttemptsCounted'
  BY <1>7, <1>k DEF PersistAttestation, RvUnderWay
<1>8. ASSUME EndReview PROVE AttemptsCounted'
  <2>0. rvState = "REVOKE" /\ rvAttempts' = rvAttempts BY <1>8 DEF EndReview
  <2>1. Len(rvAttempts) = Len(rvFailures) + 1 /\ Len(rvAttempts) <= 3
    BY <2>0, <1>u, <1>c DEF RvUnderWay, AttemptsCounted
  <2>2. CASE rvVerified.decision = "ACCEPT"
    <3>1. rvState' = "ACCEPTED" /\ rvFailures' = rvFailures BY <1>8, <2>2 DEF EndReview
    <3>q. QED BY <1>t, <2>0, <2>1, <3>1 DEF AttemptsCounted, RvUnderWay
  <2>3. CASE rvVerified.decision # "ACCEPT"
    <3>1. rvFailures' = Append(rvFailures, "review") BY <1>8, <2>3 DEF EndReview
    <3>2. Len(rvFailures') = Len(rvFailures) + 1 BY <3>1, <1>f
    <3>3. \/ rvState' = "EXECUTE" /\ Len(rvAttempts) # 3
          \/ rvState' = "TERMINAL_REJECTED"
      BY <1>8, <2>3 DEF EndReview, FinalReview, RvAttempt
    <3>q. QED BY <1>t, <2>0, <2>1, <3>2, <3>3 DEF AttemptsCounted, RvUnderWay
  <2>q. QED BY <2>2, <2>3
<1>9. ASSUME RvThrows PROVE AttemptsCounted'
  <2>1. rvState' = "THREW" /\ UNCHANGED <<rvAttempts, rvFailures>> BY <1>9 DEF RvThrows
  <2>q. QED BY <1>c, <2>1 DEF AttemptsCounted, RvUnderWay
<1>10. ASSUME NEW t \in RvTrees, NEW n \in RvSessions, NEW d \in RvDecisions, Harness(t, n, d)
       PROVE  AttemptsCounted'
  <2>1. rvState = "HARNESS" /\ rvState' \in {"HARNESS", "PERSIST", "THREW"}
        /\ UNCHANGED <<rvAttempts, rvFailures>> BY <1>10 DEF Harness
  <2>q. QED BY <2>1, <1>k DEF RvUnderWay
<1>11. ASSUME UNCHANGED rvVars PROVE AttemptsCounted'
  BY <1>11, <1>c DEF rvVars, AttemptsCounted
<1>z. QED BY <1>1, <1>2, <1>3, <1>4, <1>5, <1>6, <1>7, <1>8, <1>9, <1>10, <1>11 DEF RvNext

\* What is reviewed is what the current attempt had validated.
LEMMA ValidationIsCurrentKept ==
    ASSUME RvTyped, AttemptsCounted, ValidationIsCurrent, [RvNext]_rvVars PROVE ValidationIsCurrent'
<1> USE DEF rvReview
<1>t. /\ Len(rvAttempts) \in Nat /\ rvValidated \in RvValidation
      /\ rvAttempts \in Seq(RvExecution)
  BY RvTypedFacts DEF RvTyped
<1>c. ValidationIsCurrent OBVIOUS
<1>v. /\ rvValidated.attempt \in Nat /\ rvValidated.attempt <= Len(rvAttempts)
      /\ rvState \in RvReviewed =>
          /\ rvValidated.attempt = Len(rvAttempts) /\ rvValidated.clean
          /\ rvValidated.before = RvTree /\ rvValidated.after = RvTree
  BY <1>t, <1>c DEF RvValidation, ValidationIsCurrent
<1>k. ASSUME UNCHANGED <<rvAttempts, rvValidated>>,
             rvState' \in {"EXECUTE", "TERMINAL_REJECTED", "THREW"} \/ (rvState \in RvReviewed /\ rvState' \in RvReviewed)
      PROVE  ValidationIsCurrent'
  <2>1. RvTree' = RvTree BY <1>k DEF RvTree, RvAttempt
  <2>q. QED BY <1>k, <1>v, <2>1 DEF ValidationIsCurrent, RvReviewed
<1>1. ASSUME NEW t \in RvTrees, RvExecute(t) PROVE ValidationIsCurrent'
  <2>2. Len(rvAttempts') = Len(rvAttempts) + 1 BY <1>1, <1>t DEF RvExecute
  <2>3. rvState' = "VALIDATE" /\ rvValidated' = rvValidated BY <1>1 DEF RvExecute
  <2>q. QED BY <1>t, <1>v, <2>2, <2>3 DEF ValidationIsCurrent, RvReviewed
<1>2. ASSUME NEW t \in RvTrees, RvMeddle(t) PROVE ValidationIsCurrent'
  <2>1. UNCHANGED <<rvState, rvAttempts, rvValidated>> BY <1>2 DEF RvMeddle
  <2>q. QED BY <1>c, <2>1 DEF ValidationIsCurrent, RvTree, RvAttempt
<1>3. ASSUME NEW t \in RvTrees, NEW clean \in BOOLEAN, RunValidation(clean, t) PROVE ValidationIsCurrent'
  <2>1. rvState = "RUN_VALIDATION" /\ rvState' = "VALIDATION_RAN" /\ rvAttempts' = rvAttempts
    BY <1>3 DEF RunValidation
  <2>2. rvValidated'.attempt = rvValidated.attempt BY <1>3, <1>t DEF RunValidation, RvValidation
  <2>3. rvValidated.attempt = Len(rvAttempts) BY <1>c, <2>1 DEF ValidationIsCurrent
  <2>q. QED BY <1>t, <2>1, <2>2, <2>3 DEF ValidationIsCurrent, RvReviewed
<1>4. ASSUME BeginValidation PROVE ValidationIsCurrent'
  <2>1. rvState' \in {"RUN_VALIDATION", "VALIDATION_RAN"} /\ rvAttempts' = rvAttempts
        /\ rvValidated'.attempt = Len(rvAttempts)
    BY <1>4 DEF BeginValidation, RvAttempt
  <2>q. QED BY <1>t, <2>1 DEF ValidationIsCurrent, RvReviewed
<1>5. ASSUME NEW e \in BOOLEAN, EndValidation(e) PROVE ValidationIsCurrent'
  <2>0. rvState = "VALIDATION_RAN" /\ rvAttempts' = rvAttempts BY <1>5 DEF EndValidation
  <2>1. rvValidated' = [rvValidated EXCEPT !.after = rvWork] BY <1>5 DEF EndValidation
  <2>2. /\ rvValidated'.attempt = rvValidated.attempt /\ rvValidated'.clean = rvValidated.clean
        /\ rvValidated'.before = rvValidated.before /\ rvValidated'.after = rvWork
    BY <2>1, <1>t DEF RvValidation
  <2>3. rvValidated.attempt = Len(rvAttempts) BY <1>c, <2>0 DEF ValidationIsCurrent
  <2>4. CASE Passed
    <3>1. rvState' = "REVIEW" BY <1>5, <2>4 DEF EndValidation
    <3>2. RvTree' = RvTree BY <2>0 DEF RvTree, RvAttempt
    <3>3. rvValidated'.clean /\ rvValidated'.before = RvTree' /\ rvValidated'.after = RvTree'
      BY <2>2, <2>4, <3>2 DEF Passed
    <3>4. rvValidated'.attempt = Len(rvAttempts') BY <2>0, <2>2, <2>3
    <3>5. rvValidated'.attempt <= Len(rvAttempts') BY <3>4, <1>t, <2>0
    <3>q. QED BY <3>1, <3>3, <3>4, <3>5 DEF ValidationIsCurrent
  <2>5. CASE ~Passed
    <3>1. rvState' \in {"EXECUTE", "TERMINAL_REJECTED"} BY <1>5, <2>5 DEF EndValidation
    <3>q. QED BY <1>t, <2>0, <2>2, <2>3, <3>1 DEF ValidationIsCurrent, RvReviewed
  <2>q. QED BY <2>4, <2>5
<1>6. ASSUME NEW valid \in BOOLEAN, BeginReview(valid) PROVE ValidationIsCurrent'
  BY <1>6, <1>k DEF BeginReview, RvReviewed
<1>7. ASSUME PersistAttestation PROVE ValidationIsCurrent'
  BY <1>7, <1>k DEF PersistAttestation, RvReviewed
<1>8. ASSUME EndReview PROVE ValidationIsCurrent'
  <2>1. rvState = "REVOKE" /\ rvState' \in {"ACCEPTED", "TERMINAL_REJECTED", "EXECUTE"}
        /\ UNCHANGED <<rvAttempts, rvValidated>> BY <1>8 DEF EndReview
  <2>q. QED BY <2>1, <1>k DEF RvReviewed
<1>9. ASSUME RvThrows PROVE ValidationIsCurrent'
  BY <1>9, <1>k DEF RvThrows
<1>10. ASSUME NEW t \in RvTrees, NEW n \in RvSessions, NEW d \in RvDecisions, Harness(t, n, d)
       PROVE  ValidationIsCurrent'
  <2>1. rvState = "HARNESS" /\ rvState' \in {"HARNESS", "PERSIST", "THREW"}
        /\ UNCHANGED <<rvAttempts, rvValidated>> BY <1>10 DEF Harness
  <2>q. QED BY <2>1, <1>k DEF RvReviewed
<1>11. ASSUME UNCHANGED rvVars PROVE ValidationIsCurrent'
  BY <1>11, <1>c DEF rvVars, ValidationIsCurrent, RvTree, RvAttempt
<1>z. QED BY <1>1, <1>2, <1>3, <1>4, <1>5, <1>6, <1>7, <1>8, <1>9, <1>10, <1>11 DEF RvNext

\* The attestation that is persisted is of this tree and of a session not seen before.
LEMMA ReviewIsFreshKept ==
    ASSUME RvTyped, ReviewIsFresh, [RvNext]_rvVars PROVE ReviewIsFresh'
<1> USE DEF rvReview
<1>t. /\ Len(rvPersisted) \in Nat /\ rvPersisted \in Seq(RvAttestation)
      /\ DOMAIN rvPersisted = 1 .. Len(rvPersisted) /\ rvVerified \in RvAttestation
  BY RvTypedFacts DEF RvTyped
<1>c. ReviewIsFresh OBVIOUS
<1>k. ASSUME rvState' \in {"EXECUTE", "VALIDATE", "RUN_VALIDATION", "VALIDATION_RAN", "REVIEW",
                           "TERMINAL_REJECTED", "THREW"}
      PROVE  ReviewIsFresh'
  BY <1>k DEF ReviewIsFresh
<1>1. ASSUME NEW t \in RvTrees, RvExecute(t) PROVE ReviewIsFresh'
  BY <1>1, <1>k DEF RvExecute
<1>2. ASSUME NEW t \in RvTrees, RvMeddle(t) PROVE ReviewIsFresh'
  <2>1. UNCHANGED <<rvState, rvAttempts, rvPersisted, rvVerified, rvUsed>> BY <1>2 DEF RvMeddle
  <2>q. QED BY <1>c, <2>1 DEF ReviewIsFresh, PersistedBefore, RvTree, RvAttempt
<1>3. ASSUME NEW t \in RvTrees, NEW clean \in BOOLEAN, RunValidation(clean, t) PROVE ReviewIsFresh'
  BY <1>3, <1>k DEF RunValidation
<1>4. ASSUME BeginValidation PROVE ReviewIsFresh'
  BY <1>4, <1>k DEF BeginValidation
<1>5. ASSUME NEW e \in BOOLEAN, EndValidation(e) PROVE ReviewIsFresh'
  BY <1>5, <1>k DEF EndValidation
<1>6. ASSUME NEW valid \in BOOLEAN, BeginReview(valid) PROVE ReviewIsFresh'
  <2>1. rvState' \in {"HARNESS", "THREW"} /\ rvPersisted' = rvPersisted BY <1>6 DEF BeginReview
  <2>2. rvUsed' = {rvPersisted[i].session : i \in DOMAIN rvPersisted} BY <1>6 DEF BeginReview
  <2>3. \A i \in DOMAIN rvPersisted' : rvPersisted'[i].session \in rvUsed' BY <2>1, <2>2
  <2>q. QED BY <2>1, <2>3 DEF ReviewIsFresh
<1>7. ASSUME PersistAttestation PROVE ReviewIsFresh'
  <2>1. rvState = "PERSIST" /\ rvState' = "REVOKE" /\ UNCHANGED <<rvAttempts, rvVerified>>
    BY <1>7 DEF PersistAttestation
  <2>2. rvPersisted' = Append(rvPersisted, rvVerified) BY <1>7 DEF PersistAttestation
  <2>3. /\ Len(rvPersisted') = Len(rvPersisted) + 1
        /\ rvPersisted'[Len(rvPersisted) + 1] = rvVerified
        /\ \A i \in 1 .. Len(rvPersisted) : rvPersisted'[i] = rvPersisted[i]
    BY <2>2, <1>t
  <2>4. rvVerified.tree = RvTree BY <1>c, <2>1 DEF ReviewIsFresh
  <2>5. RvTree' = RvTree BY <2>1 DEF RvTree, RvAttempt
  <2>6. \A i \in 1 .. Len(rvPersisted) : rvPersisted[i].session # rvVerified.session
    BY <1>c, <2>1 DEF ReviewIsFresh, PersistedBefore
  <2>7. Len(rvPersisted') > 0 /\ Len(rvPersisted') - 1 = Len(rvPersisted) BY <1>t, <2>3
  <2>8. PersistedBefore(rvVerified.session, Len(rvPersisted) - 1)'
    BY <2>1, <2>3, <2>6, <2>7 DEF PersistedBefore
  <2>9. (rvPersisted[Len(rvPersisted)])' = rvVerified' BY <2>1, <2>3
  <2>q. QED BY <2>1, <2>4, <2>5, <2>7, <2>8, <2>9 DEF ReviewIsFresh
<1>8. ASSUME EndReview PROVE ReviewIsFresh'
  <2>1. rvState = "REVOKE" /\ UNCHANGED <<rvAttempts, rvVerified, rvPersisted>> BY <1>8 DEF EndReview
  <2>2. CASE rvVerified.decision = "ACCEPT"
    <3>1. rvState' = "ACCEPTED" BY <1>8, <2>2 DEF EndReview
    <3>2. RvTree' = RvTree BY <2>1 DEF RvTree, RvAttempt
    <3>3. /\ Len(rvPersisted) > 0 /\ rvPersisted[Len(rvPersisted)] = rvVerified
          /\ PersistedBefore(rvVerified.session, Len(rvPersisted) - 1)
          /\ rvVerified.tree = RvTree
      BY <1>c, <2>1 DEF ReviewIsFresh
    <3>4. PersistedBefore(rvVerified.session, Len(rvPersisted) - 1)'
      BY <3>3, <2>1 DEF PersistedBefore
    <3>q. QED BY <2>1, <2>2, <3>1, <3>2, <3>3, <3>4 DEF ReviewIsFresh
  <2>3. CASE rvVerified.decision # "ACCEPT"
    <3>1. rvState' \in {"EXECUTE", "TERMINAL_REJECTED"} BY <1>8, <2>3 DEF EndReview
    <3>q. QED BY <3>1, <1>k
  <2>q. QED BY <2>2, <2>3
<1>9. ASSUME RvThrows PROVE ReviewIsFresh'
  BY <1>9, <1>k DEF RvThrows
<1>10. ASSUME NEW t \in RvTrees, NEW n \in RvSessions, NEW d \in RvDecisions, Harness(t, n, d)
       PROVE  ReviewIsFresh'
  <2>1. rvState = "HARNESS" /\ UNCHANGED <<rvAttempts, rvPersisted>> BY <1>10 DEF Harness
  <2>2. \A i \in DOMAIN rvPersisted : rvPersisted[i].session \in rvUsed
    BY <1>c, <2>1 DEF ReviewIsFresh
  <2>3. rvUsed \subseteq rvUsed' BY <1>10 DEF Harness
  <2>4. CASE rvState' = "THREW" BY <2>4, <1>k
  <2>5. CASE rvState' = "HARNESS" BY <2>1, <2>2, <2>3, <2>5 DEF ReviewIsFresh
  <2>6. CASE rvState' = "PERSIST"
    <3>1. AttestationValid(t, n) /\ rvVerified' = [tree |-> t, session |-> n, decision |-> d]
      BY <1>10, <2>6 DEF Harness
    <3>2. rvVerified'.tree = t /\ rvVerified'.session = n BY <3>1
    <3>3. t = RvTree /\ n \notin rvUsed BY <3>1 DEF AttestationValid
    <3>4. RvTree' = RvTree BY <2>1 DEF RvTree, RvAttempt
    <3>5. \A i \in 1 .. Len(rvPersisted) : rvPersisted[i].session # n BY <1>t, <2>2, <3>3
    <3>6. PersistedBefore(rvVerified.session, Len(rvPersisted))'
      BY <2>1, <3>2, <3>5 DEF PersistedBefore
    <3>q. QED BY <2>6, <3>2, <3>3, <3>4, <3>6 DEF ReviewIsFresh
  <2>7. rvState' \in {"HARNESS", "PERSIST", "THREW"} BY <1>10 DEF Harness
  <2>q. QED BY <2>4, <2>5, <2>6, <2>7
<1>11. ASSUME UNCHANGED rvVars PROVE ReviewIsFresh'
  BY <1>11, <1>c DEF rvVars, ReviewIsFresh, PersistedBefore, RvTree, RvAttempt
<1>z. QED BY <1>1, <1>2, <1>3, <1>4, <1>5, <1>6, <1>7, <1>8, <1>9, <1>10, <1>11 DEF RvNext

\* Attestations are only ever appended.
LEMMA PersistedGrows ==
    ASSUME RvTyped, [RvNext]_rvVars
    PROVE  \A tree : RejectionIn(rvPersisted, tree) => RejectionIn(rvPersisted', tree)
<1> USE DEF rvReview
<1>t. rvPersisted \in Seq(RvAttestation) BY DEF RvTyped
<1>1. CASE rvPersisted' = rvPersisted BY <1>1
<1>2. CASE rvPersisted' = Append(rvPersisted, rvVerified)
  <2>1. \A p \in DOMAIN rvPersisted : p \in DOMAIN rvPersisted' /\ rvPersisted'[p] = rvPersisted[p]
    BY <1>2, <1>t
  <2>q. QED BY <2>1 DEF RejectionIn
<1>3. rvPersisted' = rvPersisted \/ rvPersisted' = Append(rvPersisted, rvVerified)
  BY DEF RvNext, rvVars, RvExecute, RvMeddle, RunValidation, BeginValidation, EndValidation,
         BeginReview, PersistAttestation, EndReview, RvThrows, Harness
<1>q. QED BY <1>1, <1>2, <1>3

\* Attempts are only ever appended.
LEMMA AttemptsGrow ==
    ASSUME RvTyped, [RvNext]_rvVars
    PROVE  \A i \in DOMAIN rvAttempts : i \in DOMAIN rvAttempts' /\ rvAttempts'[i] = rvAttempts[i]
<1> USE DEF rvReview
<1>t. rvAttempts \in Seq(RvExecution) BY DEF RvTyped
<1>1. rvAttempts' = rvAttempts \/ \E x : rvAttempts' = Append(rvAttempts, x)
  BY DEF RvNext, rvVars, RvExecute, RvMeddle, RunValidation, BeginValidation, EndValidation,
         BeginReview, PersistAttestation, EndReview, RvThrows, Harness
<1>2. ASSUME NEW x
      PROVE  \A i \in DOMAIN rvAttempts : i \in DOMAIN Append(rvAttempts, x) /\ Append(rvAttempts, x)[i] = rvAttempts[i]
  BY <1>t
<1>q. QED BY <1>1, <1>2

\* A rejection that counts as a failure is on record for the tree it rejects.
LEMMA RejectionsPersistedKept ==
    ASSUME RvTyped, AttemptsCounted, ReviewIsFresh, RejectionsPersisted, [RvNext]_rvVars
    PROVE  RejectionsPersisted'
<1> USE DEF rvReview
<1>t. /\ Len(rvAttempts) \in Nat /\ Len(rvFailures) \in Nat /\ Len(rvPersisted) \in Nat
      /\ DOMAIN rvAttempts = 1 .. Len(rvAttempts) /\ DOMAIN rvFailures = 1 .. Len(rvFailures)
      /\ DOMAIN rvPersisted = 1 .. Len(rvPersisted)
      /\ rvFailures \in Seq(RvFailure) /\ rvVerified \in RvAttestation
  BY RvTypedFacts DEF RvTyped
<1>o. \A i \in 1 .. Len(rvFailures) :
         rvFailures[i] = "review" => RejectionIn(rvPersisted', rvAttempts'[i].tree)
  <2>1. \A i \in 1 .. Len(rvFailures) :
           rvFailures[i] = "review" => RejectionIn(rvPersisted, rvAttempts[i].tree)
    BY <1>t DEF RejectionsPersisted
  <2>2. \A i \in 1 .. Len(rvFailures) : i \in DOMAIN rvAttempts
    <3>1. Len(rvFailures) <= Len(rvAttempts) BY DEF AttemptsCounted
    <3>2. \A i \in 1 .. Len(rvFailures) : i \in 1 .. Len(rvAttempts) BY <1>t, <3>1
    <3>q. QED BY <1>t, <3>2
  <2>3. \A i \in 1 .. Len(rvFailures) : rvAttempts'[i] = rvAttempts[i] BY <2>2, AttemptsGrow
  <2>q. QED BY <2>1, <2>3, PersistedGrows
<1>1. CASE rvFailures' = rvFailures
  BY <1>1, <1>o, <1>t DEF RejectionsPersisted
<1>2. ASSUME NEW x, rvFailures' = Append(rvFailures, x),
             x = "review" => RejectionIn(rvPersisted', rvAttempts'[Len(rvFailures) + 1].tree)
      PROVE  RejectionsPersisted'
  <2>1. DOMAIN rvFailures' = 1 .. (Len(rvFailures) + 1) BY <1>2, <1>t
  <2>2. /\ \A i \in 1 .. Len(rvFailures) : rvFailures'[i] = rvFailures[i]
        /\ rvFailures'[Len(rvFailures) + 1] = x BY <1>2, <1>t
  <2>3. \A i \in 1 .. (Len(rvFailures) + 1) : i \in 1 .. Len(rvFailures) \/ i = Len(rvFailures) + 1
    BY <1>t
  <2>4. \A i \in DOMAIN rvFailures' :
           rvFailures'[i] = "review" => RejectionIn(rvPersisted', rvAttempts'[i].tree)
    BY <1>2, <1>o, <2>1, <2>2, <2>3
  <2>q. QED BY <2>4 DEF RejectionsPersisted
<1>3. ASSUME NEW e \in BOOLEAN, EndValidation(e) PROVE RejectionsPersisted'
  <2>1. rvFailures' = rvFailures \/ rvFailures' = Append(rvFailures, "validation")
    BY <1>3 DEF EndValidation
  <2>2. "validation" # "review" OBVIOUS
  <2>q. QED BY <2>1, <2>2, <1>1, <1>2
<1>4. ASSUME EndReview, rvVerified.decision # "ACCEPT" PROVE RejectionsPersisted'
  <2>1. rvState = "REVOKE" /\ UNCHANGED <<rvAttempts, rvPersisted>>
        /\ rvFailures' = Append(rvFailures, "review") BY <1>4 DEF EndReview
  <2>2. rvVerified.decision = "REJECT" BY <1>4, <1>t DEF RvAttestation
  <2>3. /\ Len(rvPersisted) > 0 /\ rvPersisted[Len(rvPersisted)] = rvVerified
        /\ rvVerified.tree = RvTree BY <2>1 DEF ReviewIsFresh
  <2>4. Len(rvAttempts) = Len(rvFailures) + 1 BY <2>1 DEF AttemptsCounted, RvUnderWay
  <2>5. rvVerified.tree = rvAttempts[Len(rvFailures) + 1].tree BY <2>3, <2>4 DEF RvTree, RvAttempt
  <2>6. Len(rvPersisted) \in DOMAIN rvPersisted BY <1>t, <2>3
  <2>7. RejectionIn(rvPersisted, rvAttempts[Len(rvFailures) + 1].tree)
    BY <2>2, <2>3, <2>5, <2>6 DEF RejectionIn
  <2>q. QED BY <2>1, <2>7, <1>2
<1>5. \/ rvFailures' = rvFailures
      \/ \E e \in BOOLEAN : EndValidation(e)
      \/ EndReview /\ rvVerified.decision # "ACCEPT"
  BY DEF RvNext, rvVars, RvExecute, RvMeddle, RunValidation, BeginValidation,
         BeginReview, PersistAttestation, EndReview, RvThrows, Harness
<1>q. QED BY <1>1, <1>3, <1>4, <1>5

\* A repair starts from the failures so far.
LEMMA RepairsAreEvidencedKept ==
    ASSUME RvTyped, AttemptsCounted, RejectionsPersisted, RepairsAreEvidenced, [RvNext]_rvVars
    PROVE  RepairsAreEvidenced'
<1> USE DEF rvReview
<1>t. /\ Len(rvAttempts) \in Nat /\ Len(rvFailures) \in Nat
      /\ DOMAIN rvAttempts = 1 .. Len(rvAttempts) /\ DOMAIN rvFailures = 1 .. Len(rvFailures)
      /\ rvAttempts \in Seq(RvExecution)
      /\ \A i \in 1 .. Len(rvAttempts) : rvAttempts[i] \in RvExecution
  BY RvTypedFacts DEF RvTyped
<1> DEFINE Answers(attempts, persisted, n) ==
              /\ Len(attempts[n].evidence) = n - 1
              /\ \A i \in DOMAIN attempts[n].evidence :
                    attempts[n].evidence[i] = "review" => RejectionIn(persisted, attempts[i].tree)
<1>c. \A n \in DOMAIN rvAttempts : Answers(rvAttempts, rvPersisted, n)
  BY DEF RepairsAreEvidenced, RejectionIn
<1>p. ASSUME \A n \in DOMAIN rvAttempts' : Answers(rvAttempts', rvPersisted', n)
      PROVE  RepairsAreEvidenced'
  BY <1>p DEF RepairsAreEvidenced, RejectionIn
<1>o. \A n \in DOMAIN rvAttempts : Answers(rvAttempts', rvPersisted', n)
  <2>1. SUFFICES ASSUME NEW n \in DOMAIN rvAttempts PROVE Answers(rvAttempts', rvPersisted', n)
    OBVIOUS
  <2>2. Answers(rvAttempts, rvPersisted, n) BY <1>c
  <2>3. rvAttempts'[n] = rvAttempts[n] BY AttemptsGrow
  <2>4. rvAttempts[n].evidence \in Seq(RvFailure) BY <1>t DEF RvExecution
  <2>5. DOMAIN rvAttempts[n].evidence = 1 .. (n - 1) BY <2>2, <2>4
  <2>6. \A i \in 1 .. (n - 1) : i \in DOMAIN rvAttempts BY <1>t
  <2>7. \A i \in 1 .. (n - 1) : rvAttempts'[i] = rvAttempts[i] BY <2>6, AttemptsGrow
  <2>q. QED BY <2>2, <2>3, <2>5, <2>7, PersistedGrows
<1>1. CASE rvAttempts' = rvAttempts
  <2>1. \A n \in DOMAIN rvAttempts' : Answers(rvAttempts', rvPersisted', n) BY <1>1, <1>o
  <2>q. QED BY <2>1, <1>p
<1>2. ASSUME NEW t \in RvTrees, RvExecute(t) PROVE RepairsAreEvidenced'
  <2>1. /\ rvState = "EXECUTE" /\ rvPersisted' = rvPersisted
        /\ rvAttempts' = Append(rvAttempts, [tree |-> t, evidence |-> rvFailures])
    BY <1>2 DEF RvExecute
  <2>2. Len(rvAttempts) = Len(rvFailures) BY <2>1 DEF AttemptsCounted
  <2> DEFINE k == Len(rvAttempts) + 1
  <2>3. DOMAIN rvAttempts' = 1 .. k /\ rvAttempts'[k] = [tree |-> t, evidence |-> rvFailures]
    BY <2>1, <1>t
  <2>4. Answers(rvAttempts', rvPersisted', k)
    <3>1. rvAttempts'[k].evidence = rvFailures BY <2>3
    <3>2. Len(rvFailures) = k - 1 BY <1>t, <2>2
    <3>3. \A i \in DOMAIN rvFailures : i \in DOMAIN rvAttempts BY <1>t, <2>2
    <3>4. \A i \in DOMAIN rvFailures : rvAttempts'[i] = rvAttempts[i] BY <3>3, AttemptsGrow
    <3>5. \A i \in DOMAIN rvFailures : rvFailures[i] = "review" => RejectionIn(rvPersisted', rvAttempts'[i].tree)
      BY <2>1, <3>4 DEF RejectionsPersisted
    <3>q. QED BY <3>1, <3>2, <3>5
  <2>5. \A n \in 1 .. k : n \in DOMAIN rvAttempts \/ n = k BY <1>t
  <2>6. \A n \in DOMAIN rvAttempts' : Answers(rvAttempts', rvPersisted', n)
    BY <2>3, <2>4, <2>5, <1>o
  <2>q. QED BY <2>6, <1>p
<1>3. rvAttempts' = rvAttempts \/ \E t \in RvTrees : RvExecute(t)
  BY DEF RvNext, rvVars, RvMeddle, RunValidation, BeginValidation, EndValidation,
         BeginReview, PersistAttestation, EndReview, RvThrows, Harness
<1>q. QED BY <1>1, <1>2, <1>3

\* Where the lease may be, as the control state says.
LeaseWhere(lease, at) ==
    /\ lease = "valid" => at \in {"HARNESS", "PERSIST", "REVOKE"}
    /\ lease \in {"refused", "stuck"} => at = "THREW"

\* A lease outlives its review only where revoking it threw, or where it was not valid.
LEMMA LeaseIsRevokedKept == ASSUME RvTyped, LeaseIsRevoked, [RvNext]_rvVars PROVE LeaseIsRevoked'
<1> USE DEF rvReview
<1>0. LeaseIsRevoked <=> LeaseWhere(rvLease, rvState) BY DEF LeaseIsRevoked, LeaseWhere
<1>q. LeaseIsRevoked' <=> LeaseWhere(rvLease', rvState') BY DEF LeaseIsRevoked, LeaseWhere
<1>c. LeaseWhere(rvLease, rvState) BY <1>0
<1>n. ASSUME rvLease' = "none" PROVE LeaseIsRevoked' BY <1>n, <1>q DEF LeaseWhere
<1>1. ASSUME rvLease' = rvLease,
             rvState \in {"EXECUTE", "VALIDATE", "RUN_VALIDATION", "VALIDATION_RAN"}
      PROVE  LeaseIsRevoked'
  <2>1. rvLease \notin {"valid", "refused", "stuck"} BY <1>1, <1>c DEF LeaseWhere
  <2>2. rvLease' \notin {"valid", "refused", "stuck"} BY <2>1, <1>1
  <2>q. QED BY <2>2, <1>q DEF LeaseWhere
<1>2. ASSUME NEW t \in RvTrees, RvExecute(t) PROVE LeaseIsRevoked' BY <1>1, <1>2 DEF RvExecute
<1>3. ASSUME NEW t \in RvTrees, NEW clean \in BOOLEAN, RunValidation(clean, t) PROVE LeaseIsRevoked'
  BY <1>1, <1>3 DEF RunValidation
<1>4. ASSUME BeginValidation PROVE LeaseIsRevoked' BY <1>1, <1>4 DEF BeginValidation
<1>5. ASSUME NEW e \in BOOLEAN, EndValidation(e) PROVE LeaseIsRevoked' BY <1>1, <1>5 DEF EndValidation
<1>6. ASSUME NEW valid \in BOOLEAN, BeginReview(valid) PROVE LeaseIsRevoked'
  BY <1>6, <1>q DEF BeginReview, LeaseWhere
<1>7. ASSUME PersistAttestation PROVE LeaseIsRevoked' BY <1>7, <1>c, <1>q DEF PersistAttestation, LeaseWhere
<1>8. ASSUME EndReview PROVE LeaseIsRevoked' BY <1>8, <1>n DEF EndReview
<1>9. ASSUME RvThrows PROVE LeaseIsRevoked' BY <1>9, <1>c, <1>q DEF RvThrows, LeaseWhere
<1>10. ASSUME NEW t \in RvTrees, NEW n \in RvSessions, NEW d \in RvDecisions, Harness(t, n, d)
       PROVE  LeaseIsRevoked'
  <2>1. /\ rvState = "HARNESS"
        /\ rvLease' = "none" \/ (rvLease' = rvLease /\ rvState' \in {"HARNESS", "PERSIST"})
    BY <1>10 DEF Harness
  <2>2. rvLease \notin {"refused", "stuck"} BY <2>1, <1>c DEF LeaseWhere
  <2>q. QED BY <2>1, <2>2, <1>n, <1>q DEF LeaseWhere
<1>11. ASSUME NEW t \in RvTrees, RvMeddle(t) PROVE LeaseIsRevoked'
  <2>1. rvLease' = rvLease /\ rvState' = rvState BY <1>11 DEF RvMeddle
  <2>q. QED BY <2>1, <1>c, <1>q
<1>12. ASSUME UNCHANGED rvVars PROVE LeaseIsRevoked'
  <2>1. rvLease' = rvLease /\ rvState' = rvState BY <1>12 DEF rvVars
  <2>q. QED BY <2>1, <1>c, <1>q
<1>z. QED BY <1>2, <1>3, <1>4, <1>5, <1>6, <1>7, <1>8, <1>9, <1>10, <1>11, <1>12 DEF RvNext

\* Every step of a sequence keeps all of it.
LEMMA RvInvKept == ASSUME RvInv, [RvNext]_rvVars PROVE RvInv'
<1>1. RvTyped /\ AttemptsCounted /\ ValidationIsCurrent /\ ReviewIsFresh
      /\ RejectionsPersisted /\ RepairsAreEvidenced /\ LeaseIsRevoked BY DEF RvInv
<1>q. QED BY <1>1, RvTypedKept, AttemptsCountedKept, ValidationIsCurrentKept, ReviewIsFreshKept,
             RejectionsPersistedKept, RepairsAreEvidencedKept, LeaseIsRevokedKept DEF RvInv

\* The invariant gives the types.
LEMMA RvInvTypes == ASSUME RvInv PROVE RvTypeOK
<1>1. RvTyped /\ AttemptsCounted /\ ValidationIsCurrent BY DEF RvInv
<1>2. rvValidated \in [attempt : 0 .. 3, before : RvTrees, after : RvTrees, clean : BOOLEAN]
  <2>1. rvValidated \in RvValidation /\ rvValidated.attempt <= Len(rvAttempts) /\ Len(rvAttempts) <= 3
    BY <1>1 DEF RvTyped, ValidationIsCurrent, AttemptsCounted
  <2>2. Len(rvAttempts) \in Nat BY <1>1, RvTypedFacts
  <2>3. rvValidated.attempt \in 0 .. 3 BY <2>1, <2>2 DEF RvValidation
  <2>q. QED BY <2>1, <2>3 DEF RvValidation
<1>3. \A i \in DOMAIN rvPersisted : rvPersisted[i] \in RvAttestation BY <1>1, RvTypedFacts
<1>4. \A n \in 1 .. RvAttempt : rvAttempts[n].tree \in RvTrees
  BY <1>1, RvTypedFacts DEF RvAttempt, RvExecution
<1>5. \A n \in DOMAIN rvFailures : rvFailures[n] \in {"validation", "review"}
  BY <1>1, RvTypedFacts DEF RvFailure
<1>6. RvAttempt <= 3 BY <1>1 DEF AttemptsCounted, RvAttempt
<1>q. QED BY <1>1, <1>2, <1>3, <1>4, <1>5, <1>6 DEF RvTyped, RvTypeOK

\* The invariant gives the soundness of an acceptance.
LEMMA RvInvSound == ASSUME RvInv PROVE SequenceSound
<1>1. RvTyped /\ ValidationIsCurrent /\ ReviewIsFresh BY DEF RvInv
<1>2. AcceptedIsValidated
  <2>1. SUFFICES ASSUME rvState = "ACCEPTED"
                 PROVE  LET last == rvPersisted[Len(rvPersisted)] IN
                        /\ rvValidated = [attempt |-> RvAttempt, before |-> RvTree, after |-> RvTree, clean |-> TRUE]
                        /\ last.decision = "ACCEPT" /\ last.tree = RvTree
                        /\ \A i \in 1 .. Len(rvPersisted) - 1 : rvPersisted[i].session # last.session
    BY DEF AcceptedIsValidated
  <2>2. rvValidated = [attempt |-> RvAttempt, before |-> RvTree, after |-> RvTree, clean |-> TRUE]
    <3>1. /\ rvValidated.attempt = RvAttempt /\ rvValidated.clean
          /\ rvValidated.before = RvTree /\ rvValidated.after = RvTree
      BY <1>1, <2>1 DEF ValidationIsCurrent, RvReviewed, RvAttempt
    <3>2. rvValidated.clean = TRUE BY <1>1, <3>1 DEF RvTyped, RvValidation
    <3>q. QED BY <1>1, <3>1, <3>2 DEF RvTyped, RvValidation
  <2>3. /\ rvPersisted[Len(rvPersisted)] = rvVerified /\ rvVerified.tree = RvTree
        /\ rvVerified.decision = "ACCEPT"
        /\ \A i \in 1 .. Len(rvPersisted) - 1 : rvPersisted[i].session # rvVerified.session
    BY <1>1, <2>1 DEF ReviewIsFresh, PersistedBefore
  <2>q. QED BY <2>2, <2>3
<1>q. QED BY <1>2 DEF SequenceSound, RvInv

\* Every variable of a review sequence has its type (createEconomyReviewSequence of
\* reviewer.ts).
THEOREM SequenceTyped == RvSpec => []RvTypeOK
<1>1. RvInv /\ [RvNext]_rvVars => RvInv' BY RvInvKept
<1>q. QED BY <1>1, RvInitHolds, RvInvTypes, PTL DEF RvSpec

\* Whatever the executor, the validation and the reviewer answer, and wherever the sequence
\* throws, an accepted attempt was validated on the tree that was reviewed and attested by a
\* session that persisted no other attestation (verifyReviewAttestation), repairs carry the
\* failures so far, and a lease is out after its review only if the sequence threw: because
\* revoking it did, or because it was refused before the review began (createReviewer).
THEOREM SequenceIsSound == RvSpec => []SequenceSound
<1>1. RvInv /\ [RvNext]_rvVars => RvInv' BY RvInvKept
<1>q. QED BY <1>1, RvInitHolds, RvInvSound, PTL DEF RvSpec

-----------------------------------------------------------------------------
(* The replay of a block of the pilot. *)

BlockAttempt ==
    [session : Nat, binding : Bindings, input : Revisions, output : Revisions,
     completed : BOOLEAN, reviewStarted : BOOLEAN, evidence : SUBSET Nat]
BlockReview ==
    [attempt : Nat, session : Nat, completed : BOOLEAN, window : BOOLEAN,
     decision : {"none", "ACCEPT", "REJECT"}, evidence : SUBSET Nat]

BlockTyped ==
    /\ bArm \in BlockArms /\ bAttempts \in Seq(BlockAttempt) /\ bReviews \in Seq(BlockReview)
    /\ bUnresolved \subseteq Findings /\ bTarget \in Bindings \cup {"none"}
    /\ bRejected \in Nat /\ bValidations \in Nat /\ bOperations \in Nat
    /\ bOpenOperation \in 0 .. bOperations
    /\ bRejected <= Len(bReviews)
    /\ \A i \in DOMAIN bAttempts : bAttempts[i].evidence \subseteq 1 .. bValidations

At(attempts, reviews) == Len(bAttempts) = attempts /\ Len(bReviews) = reviews

\* How many attempts and reviews there are in each state of the replay.
BlockPlace ==
    /\ Len(bReviews) <= Len(bAttempts) /\ Len(bAttempts) <= Len(bReviews) + 1
    /\ Len(bAttempts) <= 3
    /\ bState \in {"none", "PLANNED", "ASSIGNED", "READY_1", "INVALID"} => At(0, 0)
    /\ bState \in {"EXECUTING_1", "READY_REVIEW_1"} => At(1, 0)
    /\ bState \in {"REVIEWING_1", "READY_2"} => At(1, 1)
    /\ bState \in {"EXECUTING_2", "READY_REVIEW_2"} => At(2, 1)
    /\ bState \in {"REVIEWING_2", "READY_3", "ESCALATION_REQUIRED"} => At(2, 2)
    /\ bState \in {"EXECUTING_3", "READY_FINAL_REVIEW"} => At(3, 2)
    /\ bState \in {"FINAL_REVIEWING", "READY_FAIL"} => At(3, 3)

ReviewOpen == {"REVIEWING_1", "REVIEWING_2", "FINAL_REVIEWING"}
AwaitsAttempt == {"READY_2", "READY_3", "ESCALATION_REQUIRED", "READY_FAIL"}

ReviewsInOrder ==
    \A i \in DOMAIN bReviews :
        /\ bReviews[i].attempt = i /\ bAttempts[i].reviewStarted
        /\ bReviews[i].completed => bReviews[i].evidence = bAttempts[i].evidence
        /\ bState \notin ReviewOpen \cup {"BLOCKED"} => bReviews[i].completed
        /\ i < Len(bAttempts) \/ bState \in AwaitsAttempt =>
              bReviews[i].completed /\ bReviews[i].decision = "REJECT"

AcceptedLast ==
    bState \in {"READY_ACCEPT", "ACCEPTED"} =>
        /\ Len(bReviews) = Len(bAttempts) /\ Len(bReviews) > 0
        /\ bReviews[Len(bReviews)].decision = "ACCEPT" /\ bUnresolved = {}

ArmFollowed ==
    /\ \A i \in DOMAIN bAttempts : CapabilityOf(bAttempts[i].binding) = RouteFor(bArm, i)
    /\ bArm = "C" /\ Len(bAttempts) = 3 => bAttempts[3].binding = bTarget
    /\ bTarget # "none" => bArm = "C" /\ bRejected >= 2 /\ Len(bAttempts) >= 2
    /\ bState = "ESCALATION_REQUIRED" => bArm = "C" /\ bRejected = 2

BlockInv ==
    /\ BlockTyped /\ BlockPlace /\ ReviewsInOrder /\ AcceptedLast
    /\ ChainUnbroken /\ IndependentReviewers /\ ArmFollowed

\* The windows of the reviews may close; nothing else of a review changes.
SameReviews ==
    /\ bReviews' \in Seq(BlockReview) /\ Len(bReviews') = Len(bReviews)
    /\ \A i \in DOMAIN bReviews :
          /\ bReviews'[i].attempt = bReviews[i].attempt /\ bReviews'[i].session = bReviews[i].session
          /\ bReviews'[i].completed = bReviews[i].completed
          /\ bReviews'[i].decision = bReviews[i].decision
          /\ bReviews'[i].evidence = bReviews[i].evidence

\* The attempts and reviews of a block are sequences of their records.
LEMMA BlockFacts ==
    ASSUME BlockTyped
    PROVE  /\ Len(bAttempts) \in Nat /\ Len(bReviews) \in Nat
           /\ DOMAIN bAttempts = 1 .. Len(bAttempts) /\ DOMAIN bReviews = 1 .. Len(bReviews)
           /\ \A i \in DOMAIN bAttempts : bAttempts[i] \in BlockAttempt
           /\ \A i \in DOMAIN bReviews : bReviews[i] \in BlockReview
<1>0. bAttempts \in Seq(BlockAttempt) /\ bReviews \in Seq(BlockReview) BY DEF BlockTyped
<1>q. QED BY <1>0

\* Closing the windows of the reviews changes nothing else of them.
LEMMA WindowsClosed == ASSUME BlockTyped, CloseWindows PROVE SameReviews
<1>1. bReviews' = [i \in DOMAIN bReviews |-> [bReviews[i] EXCEPT !.window = FALSE]]
  BY DEF CloseWindows
<1>2. /\ Len(bReviews) \in Nat /\ DOMAIN bReviews = 1 .. Len(bReviews)
      /\ \A i \in DOMAIN bReviews : bReviews[i] \in BlockReview BY BlockFacts
<1>3. \A i \in DOMAIN bReviews : bReviews'[i] = [bReviews[i] EXCEPT !.window = FALSE] BY <1>1
<1>4. \A i \in DOMAIN bReviews : bReviews'[i] \in BlockReview
  <2>1. ASSUME NEW r \in BlockReview PROVE [r EXCEPT !.window = FALSE] \in BlockReview
    BY DEF BlockReview
  <2>q. QED BY <1>2, <1>3, <2>1
<1>5. bReviews' \in [1 .. Len(bReviews) -> BlockReview] BY <1>1, <1>2, <1>4
<1>6. bReviews' \in Seq(BlockReview) BY <1>2, <1>5
<1>7. Len(bReviews') = Len(bReviews) BY <1>2, <1>5, <1>6
<1>8. \A i \in DOMAIN bReviews :
         /\ bReviews'[i].attempt = bReviews[i].attempt /\ bReviews'[i].session = bReviews[i].session
         /\ bReviews'[i].completed = bReviews[i].completed
         /\ bReviews'[i].decision = bReviews[i].decision
         /\ bReviews'[i].evidence = bReviews[i].evidence
  BY <1>2, <1>3 DEF BlockReview
<1>q. QED BY <1>6, <1>7, <1>8 DEF SameReviews

\* Before the first event of the block.
LEMMA BlockInitHolds == ASSUME BlockInit PROVE BlockInv
<1>1. /\ Len(bAttempts) = 0 /\ Len(bReviews) = 0 /\ DOMAIN bAttempts = {} /\ DOMAIN bReviews = {}
      /\ bAttempts \in Seq(BlockAttempt) /\ bReviews \in Seq(BlockReview) BY DEF BlockInit
<1>2. BlockTyped
  <2>1. bTarget \in Bindings \cup {"none"} BY DEF BlockInit
  <2>q. QED BY <1>1, <2>1 DEF BlockInit, BlockTyped
<1>3. BlockPlace BY <1>1 DEF BlockInit, BlockPlace, At
<1>4. ReviewsInOrder /\ ChainUnbroken /\ IndependentReviewers
  BY <1>1 DEF ReviewsInOrder, ChainUnbroken, IndependentReviewers
<1>5. AcceptedLast BY DEF BlockInit, AcceptedLast
<1>6. ArmFollowed BY <1>1 DEF BlockInit, ArmFollowed
<1>q. QED BY <1>2, <1>3, <1>4, <1>5, <1>6 DEF BlockInv

\* An event that is refused makes the block invalid, and forgets its attempts.
LEMMA InvalidateKeeps == ASSUME BlockInv, Invalidate PROVE BlockInv'
<1>0. bArm \in BlockArms BY DEF BlockInv, BlockTyped
<1>1. /\ Len(bAttempts') = 0 /\ Len(bReviews') = 0 /\ DOMAIN bAttempts' = {} /\ DOMAIN bReviews' = {}
      /\ bAttempts' \in Seq(BlockAttempt) /\ bReviews' \in Seq(BlockReview) BY DEF Invalidate
<1>2. BlockTyped' BY <1>0, <1>1 DEF Invalidate, BlockTyped
<1>3. BlockPlace' BY <1>1 DEF Invalidate, BlockPlace, At
<1>4. ReviewsInOrder' /\ ChainUnbroken' /\ IndependentReviewers'
  BY <1>1 DEF ReviewsInOrder, ChainUnbroken, IndependentReviewers
<1>5. AcceptedLast' BY DEF Invalidate, AcceptedLast
<1>6. ArmFollowed' BY <1>1 DEF Invalidate, ArmFollowed
<1>q. QED BY <1>2, <1>3, <1>4, <1>5, <1>6 DEF BlockInv

\* A step that only opens or closes an operation.
LEMMA QuietKeeps ==
    ASSUME BlockInv, bOperations' \in Nat, bOpenOperation' \in 0 .. bOperations',
           UNCHANGED <<bArm, bState, bAttempts, bReviews, bUnresolved, bRejected, bTarget, bValidations>>
    PROVE  BlockInv'
<1>1. BlockTyped /\ BlockPlace /\ ReviewsInOrder /\ AcceptedLast
      /\ ChainUnbroken /\ IndependentReviewers /\ ArmFollowed BY DEF BlockInv
<1>2. BlockTyped' BY <1>1 DEF BlockTyped
<1>3. BlockPlace' BY <1>1 DEF BlockPlace, At
<1>4. ReviewsInOrder' BY <1>1 DEF ReviewsInOrder
<1>5. AcceptedLast' BY <1>1 DEF AcceptedLast
<1>6. ChainUnbroken' /\ IndependentReviewers' BY <1>1 DEF ChainUnbroken, IndependentReviewers
<1>7. ArmFollowed' BY <1>1 DEF ArmFollowed
<1>q. QED BY <1>2, <1>3, <1>4, <1>5, <1>6, <1>7 DEF BlockInv

MovedOn ==
    \/ bState \in {"none", "PLANNED", "ASSIGNED"} /\ bState' \in {"PLANNED", "ASSIGNED", "READY_1"}
    \/ bState = "ESCALATION_REQUIRED" /\ bState' = "READY_3"
    \/ bState = "READY_ACCEPT" /\ bState' = "ACCEPTED"
    \/ bState = "READY_FAIL" /\ bState' = "FAILED"
    \/ bState' = "BLOCKED"

\* A step that only moves the block to another state.
LEMMA MoveKeeps ==
    ASSUME BlockInv, SameReviews, MovedOn, bOpenOperation' = 0,
           UNCHANGED <<bArm, bAttempts, bUnresolved, bRejected, bValidations, bOperations>>,
           bTarget' = bTarget \/ (bState = "ESCALATION_REQUIRED" /\ bTarget' \in Bindings)
    PROVE  BlockInv'
<1>1. BlockTyped /\ BlockPlace /\ ReviewsInOrder /\ AcceptedLast
      /\ ChainUnbroken /\ IndependentReviewers /\ ArmFollowed BY DEF BlockInv
<1>f. /\ Len(bAttempts) \in Nat /\ Len(bReviews) \in Nat
      /\ DOMAIN bAttempts = 1 .. Len(bAttempts) /\ DOMAIN bReviews = 1 .. Len(bReviews)
  BY <1>1, BlockFacts
<1>r. /\ bReviews' \in Seq(BlockReview) /\ Len(bReviews') = Len(bReviews)
      /\ DOMAIN bReviews' = DOMAIN bReviews
  BY <1>f DEF SameReviews
<1>2. BlockTyped'
  <2>1. bTarget' \in Bindings \cup {"none"} BY <1>1 DEF BlockTyped
  <2>2. bOpenOperation' \in 0 .. bOperations' BY <1>1 DEF BlockTyped
  <2>q. QED BY <1>1, <1>r, <2>1, <2>2 DEF BlockTyped
<1>3. BlockPlace' BY <1>1, <1>r DEF BlockPlace, At, MovedOn
<1>4. ReviewsInOrder'
  <2>1. \A i \in DOMAIN bReviews : bState \notin ReviewOpen \cup {"BLOCKED"} => bReviews[i].completed
    BY <1>1 DEF ReviewsInOrder
  <2>2. \/ bState' = "BLOCKED" \/ bState \notin ReviewOpen \cup {"BLOCKED"}
    BY DEF MovedOn, ReviewOpen
  <2>3. bState' \in AwaitsAttempt => bState \in AwaitsAttempt BY DEF MovedOn, AwaitsAttempt
  <2>q. QED BY <1>1, <1>r, <2>1, <2>2, <2>3 DEF ReviewsInOrder, SameReviews
<1>5. AcceptedLast'
  <2>1. bState' \in {"READY_ACCEPT", "ACCEPTED"} => bState = "READY_ACCEPT" BY DEF MovedOn
  <2>2. Len(bReviews) > 0 => Len(bReviews) \in DOMAIN bReviews BY <1>f
  <2>q. QED BY <1>1, <1>r, <2>1, <2>2 DEF AcceptedLast, SameReviews
<1>6. ChainUnbroken' BY <1>1 DEF ChainUnbroken
<1>7. IndependentReviewers' BY <1>1, <1>r DEF IndependentReviewers, SameReviews
<1>8. ArmFollowed'
  <2>1. bState' # "ESCALATION_REQUIRED" BY DEF MovedOn
  <2>2. bState = "ESCALATION_REQUIRED" => Len(bAttempts) = 2 BY <1>1 DEF BlockPlace, At
  <2>3. CASE bTarget' = bTarget BY <1>1, <2>1, <2>3 DEF ArmFollowed
  <2>4. CASE bState = "ESCALATION_REQUIRED"
    <3>1. bArm = "C" /\ bRejected = 2 /\ Len(bAttempts) = 2 BY <1>1, <2>2, <2>4 DEF ArmFollowed
    <3>2. \A i \in DOMAIN bAttempts : CapabilityOf(bAttempts[i].binding) = RouteFor(bArm, i)
      BY <1>1 DEF ArmFollowed
    <3>q. QED BY <2>1, <3>1, <3>2 DEF ArmFollowed
  <2>q. QED BY <2>3, <2>4
<1>q. QED BY <1>2, <1>3, <1>4, <1>5, <1>6, <1>7, <1>8 DEF BlockInv

\* Sessions are numbers.
LEMMA SessionsAreNumbers == ASSUME BlockTyped PROVE SessionsUsed \subseteq Nat /\ SomeSession \subseteq Nat
<1>f. /\ Len(bAttempts) \in Nat /\ Len(bReviews) \in Nat
      /\ DOMAIN bAttempts = 1 .. Len(bAttempts) /\ DOMAIN bReviews = 1 .. Len(bReviews)
      /\ \A i \in DOMAIN bAttempts : bAttempts[i] \in BlockAttempt
      /\ \A i \in DOMAIN bReviews : bReviews[i] \in BlockReview
  BY BlockFacts
<1>1. /\ \A i \in DOMAIN bAttempts : bAttempts[i].session \in Nat
      /\ \A i \in DOMAIN bReviews : bReviews[i].session \in Nat
  BY <1>f DEF BlockAttempt, BlockReview
<1>2. SessionsUsed \subseteq Nat BY <1>1 DEF SessionsUsed
<1>3. IsFiniteSet({bAttempts[i].session : i \in DOMAIN bAttempts})
  <2> DEFINE T == {bAttempts[i].session : i \in DOMAIN bAttempts}
             f == [i \in 1 .. Len(bAttempts) |-> bAttempts[i].session]
  <2>1. f \in Surjection(1 .. Len(bAttempts), T) BY <1>f DEF Surjection
  <2>2. IsFiniteSet(1 .. Len(bAttempts)) BY <1>f, FS_Interval
  <2>3. IsFiniteSet(T)
    <3> HIDE DEF f, T
    <3>q. QED BY <2>1, <2>2, FS_Surjection
  <2>q. QED BY <2>3
<1>4. IsFiniteSet({bReviews[i].session : i \in DOMAIN bReviews})
  <2> DEFINE T == {bReviews[i].session : i \in DOMAIN bReviews}
             f == [i \in 1 .. Len(bReviews) |-> bReviews[i].session]
  <2>1. f \in Surjection(1 .. Len(bReviews), T) BY <1>f DEF Surjection
  <2>2. IsFiniteSet(1 .. Len(bReviews)) BY <1>f, FS_Interval
  <2>3. IsFiniteSet(T)
    <3> HIDE DEF f, T
    <3>q. QED BY <2>1, <2>2, FS_Surjection
  <2>q. QED BY <2>3
<1>5. IsFiniteSet(SessionsUsed) BY <1>3, <1>4, FS_Union DEF SessionsUsed
<1>6. Cardinality(SessionsUsed) \in Nat BY <1>5, FS_CardinalityType
<1>7. SomeSession \subseteq Nat BY <1>6 DEF SomeSession
<1>q. QED BY <1>2, <1>7

\* When no review is open the chain continues from the last attempt's output.
LEMMA ChainContinues ==
    ASSUME BlockInv, NEW n \in 1 .. 3, bState = Ready(n)
    PROVE  /\ Len(bAttempts) = n - 1 /\ Len(bReviews) = n - 1
           /\ ChainRevision = IF n = 1 THEN BaseRevision ELSE bAttempts[n - 1].output
<1>0. BlockTyped /\ BlockPlace /\ ReviewsInOrder BY DEF BlockInv
<1>f. DOMAIN bReviews = 1 .. Len(bReviews) /\ Len(bReviews) \in Nat BY <1>0, BlockFacts
<1>1. bState \in {"READY_1", "READY_2", "READY_3"} /\ Len(bAttempts) = n - 1 /\ Len(bReviews) = n - 1
  <2>1. n = 1 \/ n = 2 \/ n = 3 OBVIOUS
  <2>2. CASE n = 1
    <3>1. bState = "READY_1" BY <2>2 DEF Ready
    <3>q. QED BY <1>0, <3>1, <2>2 DEF BlockPlace, At
  <2>3. CASE n = 2
    <3>1. bState = "READY_2" BY <2>3 DEF Ready
    <3>q. QED BY <1>0, <3>1, <2>3 DEF BlockPlace, At
  <2>4. CASE n = 3
    <3>1. bState = "READY_3" BY <2>4 DEF Ready
    <3>q. QED BY <1>0, <3>1, <2>4 DEF BlockPlace, At
  <2>q. QED BY <2>1, <2>2, <2>3, <2>4
<1>2. \A i \in DOMAIN bReviews : bReviews[i].completed /\ bReviews[i].attempt = i
  <2>1. bState \notin ReviewOpen \cup {"BLOCKED"} BY <1>1 DEF ReviewOpen
  <2>q. QED BY <1>0, <2>1 DEF ReviewsInOrder
<1>3. CompletedReviews = 1 .. (n - 1) BY <1>1, <1>2, <1>f DEF CompletedReviews
<1>4. PreviousReview = n - 1
  <2>1. Cardinality(1 .. (n - 1)) = IF 1 > n - 1 THEN 0 ELSE (n - 1) - 1 + 1 BY FS_Interval
  <2>q. QED BY <1>3, <2>1 DEF PreviousReview
<1>5. CASE n = 1 BY <1>1, <1>4, <1>5 DEF ChainRevision
<1>6. CASE n # 1
  <2>1. n - 1 \in DOMAIN bReviews BY <1>1, <1>6, <1>f
  <2>2. bReviews[n - 1].attempt = n - 1 BY <1>2, <2>1
  <2>3. ChainRevision = bAttempts[bReviews[n - 1].attempt].output
    BY <1>4, <1>6 DEF ChainRevision, ReviewedRevision
  <2>q. QED BY <1>1, <1>6, <2>2, <2>3
<1>q. QED BY <1>5, <1>6

\* The start of an attempt, with its binding and its input.
LEMMA StartKeeps ==
    ASSUME BlockInv, NEW session \in SomeSession, NEW binding \in Bindings, NEW input \in Revisions,
           NEW n \in 1 .. 3, n = Len(bAttempts) + 1, StartAllowed(n, session, binding, input),
           bAttempts' = Append(bAttempts,
                   [session |-> session, binding |-> binding, input |-> input,
                    output |-> input, completed |-> FALSE,
                    reviewStarted |-> FALSE, evidence |-> {}]),
           bState' = Executing(n), CloseWindows, bOpenOperation' = 0,
           UNCHANGED <<bArm, bUnresolved, bRejected, bTarget, bValidations, bOperations>>
    PROVE  BlockInv'
<1>1. BlockTyped /\ BlockPlace /\ ReviewsInOrder /\ AcceptedLast
      /\ ChainUnbroken /\ IndependentReviewers /\ ArmFollowed BY DEF BlockInv
<1>f. /\ Len(bAttempts) \in Nat /\ Len(bReviews) \in Nat
      /\ DOMAIN bAttempts = 1 .. Len(bAttempts) /\ DOMAIN bReviews = 1 .. Len(bReviews)
      /\ bAttempts \in Seq(BlockAttempt)
  BY <1>1, BlockFacts DEF BlockTyped
<1>c. /\ Len(bAttempts) = n - 1 /\ Len(bReviews) = n - 1
      /\ input = IF n = 1 THEN BaseRevision ELSE bAttempts[n - 1].output
  BY ChainContinues DEF StartAllowed
<1>s. SameReviews BY <1>1, WindowsClosed
<1>r. /\ bReviews' \in Seq(BlockReview) /\ Len(bReviews') = Len(bReviews)
      /\ DOMAIN bReviews' = DOMAIN bReviews
  BY <1>f, <1>s DEF SameReviews
<1>a. PICK x : /\ bAttempts' = Append(bAttempts, x)
               /\ x = [session |-> session, binding |-> binding, input |-> input,
                       output |-> input, completed |-> FALSE,
                       reviewStarted |-> FALSE, evidence |-> {}]
  OBVIOUS
<1>x. /\ x \in BlockAttempt /\ x.session = session /\ x.binding = binding /\ x.input = input
      /\ x.evidence = {}
  <2>1. session \in Nat BY <1>1, SessionsAreNumbers
  <2>q. QED BY <1>a, <2>1 DEF BlockAttempt
<1>b. /\ bAttempts' \in Seq(BlockAttempt) /\ Len(bAttempts') = n /\ DOMAIN bAttempts' = 1 .. n
      /\ bAttempts'[n] = x /\ \A i \in DOMAIN bAttempts : bAttempts'[i] = bAttempts[i]
  BY <1>a, <1>x, <1>f, <1>c
<1>d. \A i \in 1 .. n : i \in DOMAIN bAttempts \/ i = n BY <1>f, <1>c
<1>e. \/ n = 1 /\ bState = "READY_1" /\ bState' = "EXECUTING_1"
      \/ n = 2 /\ bState = "READY_2" /\ bState' = "EXECUTING_2"
      \/ n = 3 /\ bState = "READY_3" /\ bState' = "EXECUTING_3"
  <2>1. n = 1 \/ n = 2 \/ n = 3 OBVIOUS
  <2>2. bState = Ready(n) BY DEF StartAllowed
  <2>q. QED BY <2>1, <2>2 DEF Ready, Executing
<1>2. BlockTyped'
  <2>1. \A i \in DOMAIN bAttempts' : bAttempts'[i].evidence \subseteq 1 .. bValidations'
    BY <1>1, <1>b, <1>d, <1>x DEF BlockTyped
  <2>2. bOpenOperation' \in 0 .. bOperations' BY <1>1 DEF BlockTyped
  <2>q. QED BY <1>1, <1>b, <1>r, <2>1, <2>2 DEF BlockTyped
<1>3. BlockPlace' BY <1>b, <1>r, <1>c, <1>e DEF BlockPlace, At
<1>4. ReviewsInOrder'
  <2>1. \A i \in DOMAIN bReviews : i \in DOMAIN bAttempts BY <1>f, <1>c
  <2>2. \A i \in DOMAIN bReviews : bAttempts'[i] = bAttempts[i] BY <2>1, <1>b
  <2>3. \A i \in DOMAIN bReviews : bReviews[i].decision = "REJECT"
    <3>1. CASE n = 1
      <4>1. DOMAIN bReviews = {} BY <3>1, <1>f, <1>c
      <4>q. QED BY <4>1
    <3>2. CASE n # 1
      <4>1. bState \in AwaitsAttempt BY <3>2, <1>e DEF AwaitsAttempt
      <4>q. QED BY <1>1, <4>1 DEF ReviewsInOrder
    <3>q. QED BY <3>1, <3>2
  <2>4. \A i \in DOMAIN bReviews : bReviews[i].completed
    <3>1. bState \notin ReviewOpen \cup {"BLOCKED"} BY <1>e DEF ReviewOpen
    <3>q. QED BY <1>1, <3>1 DEF ReviewsInOrder
  <2>5. \A i \in DOMAIN bReviews :
          /\ bReviews'[i].attempt = bReviews[i].attempt /\ bReviews'[i].completed = bReviews[i].completed
          /\ bReviews'[i].decision = bReviews[i].decision /\ bReviews'[i].evidence = bReviews[i].evidence
    BY <1>s DEF SameReviews
  <2>6. \A i \in DOMAIN bReviews :
          /\ bReviews[i].attempt = i /\ bAttempts[i].reviewStarted
          /\ bReviews[i].completed => bReviews[i].evidence = bAttempts[i].evidence
    BY <1>1 DEF ReviewsInOrder
  <2>7. \A i \in DOMAIN bReviews' :
          /\ bReviews'[i].attempt = i /\ bAttempts'[i].reviewStarted
          /\ bReviews'[i].completed => bReviews'[i].evidence = bAttempts'[i].evidence
    BY <1>r, <2>2, <2>5, <2>6
  <2>8. \A i \in DOMAIN bReviews' : bReviews'[i].completed /\ bReviews'[i].decision = "REJECT"
    BY <1>r, <2>3, <2>4, <2>5
  <2>q. QED BY <2>7, <2>8 DEF ReviewsInOrder
<1>5. AcceptedLast' BY <1>e DEF AcceptedLast
<1>6. ChainUnbroken'
  <2>1. \A i \in DOMAIN bAttempts : i # 1 => i - 1 \in DOMAIN bAttempts BY <1>f
  <2>2. \A i \in DOMAIN bAttempts :
           bAttempts'[i].input = IF i = 1 THEN BaseRevision ELSE bAttempts'[i - 1].output
    BY <1>1, <1>b, <2>1 DEF ChainUnbroken
  <2>3. n # 1 => n - 1 \in DOMAIN bAttempts BY <1>f, <1>c
  <2>4. bAttempts'[n].input = IF n = 1 THEN BaseRevision ELSE bAttempts'[n - 1].output
    BY <1>b, <1>x, <1>c, <2>3
  <2>q. QED BY <1>b, <1>d, <2>2, <2>4 DEF ChainUnbroken
<1>7. IndependentReviewers'
  <2>1. \A i \in DOMAIN bReviews : bReviews[i].session # session
    BY DEF StartAllowed, SessionsUsed
  <2>q. QED BY <1>1, <1>b, <1>d, <1>x, <1>r, <1>s, <2>1 DEF IndependentReviewers, SameReviews
<1>8. ArmFollowed'
  <2>1. CapabilityOf(binding) = RouteFor(bArm, n) BY DEF StartAllowed
  <2>2. \A i \in DOMAIN bAttempts' : CapabilityOf(bAttempts'[i].binding) = RouteFor(bArm', i)
    BY <1>1, <1>b, <1>d, <1>x, <2>1 DEF ArmFollowed
  <2>3. bArm = "C" /\ n = 3 => binding = bTarget BY DEF StartAllowed
  <2>4. bArm' = "C" /\ Len(bAttempts') = 3 => bAttempts'[3].binding = bTarget'
    BY <1>b, <1>x, <2>3
  <2>5. bTarget' # "none" => bArm' = "C" /\ bRejected' >= 2 /\ Len(bAttempts') >= 2
    BY <1>1, <1>b, <1>c DEF ArmFollowed
  <2>q. QED BY <1>e, <2>2, <2>4, <2>5 DEF ArmFollowed
<1>q. QED BY <1>2, <1>3, <1>4, <1>5, <1>6, <1>7, <1>8 DEF BlockInv

\* One attempt changes in what it produced, not in who executed it from where.
LEMMA AttemptKeeps ==
    ASSUME BlockInv, NEW n \in DOMAIN bAttempts, NEW x \in BlockAttempt,
           bAttempts' = [bAttempts EXCEPT ![n] = x],
           x.session = bAttempts[n].session, x.binding = bAttempts[n].binding,
           x.input = bAttempts[n].input, x.output = bAttempts[n].output \/ n = Len(bAttempts),
           x.evidence \subseteq 1 .. bValidations',
           bValidations' \in Nat, bValidations <= bValidations', bOpenOperation' = 0,
           UNCHANGED <<bArm, bUnresolved, bRejected, bTarget, bOperations>>,
           bReviews' \in Seq(BlockReview), Len(bReviews') >= Len(bReviews),
           bState' # "ESCALATION_REQUIRED" \/ bState' = bState
    PROVE  /\ BlockTyped' /\ ChainUnbroken' /\ ArmFollowed'
           /\ Len(bAttempts') = Len(bAttempts) /\ DOMAIN bAttempts' = DOMAIN bAttempts
           /\ bAttempts'[n] = x
           /\ \A i \in DOMAIN bAttempts : i # n => bAttempts'[i] = bAttempts[i]
           /\ \A i \in DOMAIN bAttempts : bAttempts'[i].session = bAttempts[i].session
<1>1. BlockTyped /\ ChainUnbroken /\ ArmFollowed BY DEF BlockInv
<1>f. /\ Len(bAttempts) \in Nat /\ Len(bReviews) \in Nat
      /\ DOMAIN bAttempts = 1 .. Len(bAttempts) /\ bAttempts \in Seq(BlockAttempt)
  BY <1>1, BlockFacts DEF BlockTyped
<1>b. /\ bAttempts' \in Seq(BlockAttempt) /\ Len(bAttempts') = Len(bAttempts)
      /\ DOMAIN bAttempts' = DOMAIN bAttempts /\ bAttempts'[n] = x
      /\ \A i \in DOMAIN bAttempts : i # n => bAttempts'[i] = bAttempts[i]
  BY <1>f
<1>s. \A i \in DOMAIN bAttempts : /\ bAttempts'[i].session = bAttempts[i].session
                                  /\ bAttempts'[i].binding = bAttempts[i].binding
                                  /\ bAttempts'[i].input = bAttempts[i].input
  BY <1>b
<1>2. BlockTyped'
  <2>1. \A e : e \subseteq 1 .. bValidations => e \subseteq 1 .. bValidations'
    BY <1>1 DEF BlockTyped
  <2>2. \A i \in DOMAIN bAttempts' : bAttempts'[i].evidence \subseteq 1 .. bValidations'
    BY <1>1, <1>b, <2>1 DEF BlockTyped
  <2>3. bOpenOperation' \in 0 .. bOperations' BY <1>1 DEF BlockTyped
  <2>4. bRejected' <= Len(bReviews')
    <3>1. bRejected \in Nat /\ bRejected <= Len(bReviews) /\ bRejected' = bRejected BY <1>1 DEF BlockTyped
    <3>2. Len(bReviews') \in Nat OBVIOUS
    <3>q. QED BY <3>1, <3>2, <1>f
  <2>q. QED BY <1>1, <1>b, <2>2, <2>3, <2>4 DEF BlockTyped
<1>3. ChainUnbroken'
  <2>1. \A i \in DOMAIN bAttempts : i # 1 => i - 1 \in DOMAIN bAttempts /\ i - 1 # Len(bAttempts)
    BY <1>f
  <2>2. \A i \in DOMAIN bAttempts : i # Len(bAttempts) => bAttempts'[i].output = bAttempts[i].output
    BY <1>b
  <2>3. \A i \in DOMAIN bAttempts : i # 1 => bAttempts'[i - 1].output = bAttempts[i - 1].output
    BY <2>1, <2>2
  <2>q. QED BY <1>1, <1>b, <1>s, <2>3 DEF ChainUnbroken
<1>4. ArmFollowed'
  <2>1. \A i \in DOMAIN bAttempts' : CapabilityOf(bAttempts'[i].binding) = RouteFor(bArm', i)
    BY <1>1, <1>b, <1>s DEF ArmFollowed
  <2>2. Len(bAttempts) = 3 => 3 \in DOMAIN bAttempts BY <1>f
  <2>3. bArm' = "C" /\ Len(bAttempts') = 3 => bAttempts'[3].binding = bTarget'
    BY <1>1, <1>b, <1>s, <2>2 DEF ArmFollowed
  <2>q. QED BY <1>1, <1>b, <2>1, <2>3 DEF ArmFollowed
<1>q. QED BY <1>b, <1>s, <1>2, <1>3, <1>4

\* The completion of an attempt.
LEMMA CompletionKeeps ==
    ASSUME BlockInv, NEW n, n = Len(bAttempts), n > 0, NEW output \in Revisions,
           bState = Executing(n), bState' = ReadyReview(n),
           bAttempts' = [bAttempts EXCEPT ![n].completed = TRUE, ![n].output = output],
           bOpenOperation' = 0,
           UNCHANGED <<bArm, bReviews, bUnresolved, bRejected, bTarget, bValidations, bOperations>>
    PROVE  BlockInv'
<1>1. BlockTyped /\ BlockPlace /\ ReviewsInOrder /\ IndependentReviewers BY DEF BlockInv
<1>f. /\ Len(bAttempts) \in Nat /\ Len(bReviews) \in Nat
      /\ DOMAIN bAttempts = 1 .. Len(bAttempts) /\ DOMAIN bReviews = 1 .. Len(bReviews)
      /\ \A i \in DOMAIN bAttempts : bAttempts[i] \in BlockAttempt
  BY <1>1, BlockFacts
<1>n. n \in DOMAIN bAttempts /\ bAttempts[n] \in BlockAttempt BY <1>f
<1>x. PICK x : x = [[bAttempts[n] EXCEPT !.completed = TRUE] EXCEPT !.output = output] OBVIOUS
<1>y. /\ x \in BlockAttempt /\ x.session = bAttempts[n].session /\ x.binding = bAttempts[n].binding
      /\ x.input = bAttempts[n].input /\ x.evidence = bAttempts[n].evidence
  BY <1>n, <1>x DEF BlockAttempt
<1>b. bAttempts' = [bAttempts EXCEPT ![n] = x] BY <1>n, <1>x
<1>e. \/ n = 1 /\ bState = "EXECUTING_1" /\ bState' = "READY_REVIEW_1"
      \/ n = 2 /\ bState = "EXECUTING_2" /\ bState' = "READY_REVIEW_2"
      \/ n = 3 /\ bState = "EXECUTING_3" /\ bState' = "READY_FINAL_REVIEW"
  <2>1. n \in Nat /\ n <= 3 BY <1>1, <1>f DEF BlockPlace
  <2>2. n = 1 \/ n = 2 \/ n = 3 BY <2>1
  <2>q. QED BY <2>2 DEF Executing, ReadyReview
<1>k. /\ BlockTyped' /\ ChainUnbroken' /\ ArmFollowed'
      /\ Len(bAttempts') = Len(bAttempts) /\ DOMAIN bAttempts' = DOMAIN bAttempts
      /\ \A i \in DOMAIN bAttempts : i # n => bAttempts'[i] = bAttempts[i]
      /\ \A i \in DOMAIN bAttempts : bAttempts'[i].session = bAttempts[i].session
  <2>1. bReviews' \in Seq(BlockReview) /\ Len(bReviews') >= Len(bReviews)
    BY <1>1, <1>f DEF BlockTyped
  <2>2. bValidations' \in Nat /\ bValidations <= bValidations' BY <1>1 DEF BlockTyped
  <2>3. x.evidence \subseteq 1 .. bValidations' BY <1>1, <1>n, <1>y DEF BlockTyped
  <2>4. bState' # "ESCALATION_REQUIRED" BY <1>e
  <2>q. QED BY <1>n, <1>y, <1>b, <2>1, <2>2, <2>3, <2>4, AttemptKeeps
<1>2. BlockPlace' BY <1>1, <1>e, <1>k DEF BlockPlace, At
<1>3. ReviewsInOrder'
  <2>1. Len(bReviews) = n - 1
    <3>1. CASE n = 1 /\ bState = "EXECUTING_1" BY <1>1, <3>1 DEF BlockPlace, At
    <3>2. CASE n = 2 /\ bState = "EXECUTING_2" BY <1>1, <3>2 DEF BlockPlace, At
    <3>3. CASE n = 3 /\ bState = "EXECUTING_3" BY <1>1, <3>3 DEF BlockPlace, At
    <3>q. QED BY <3>1, <3>2, <3>3, <1>e
  <2>2. \A i \in DOMAIN bReviews : i \in DOMAIN bAttempts /\ i # n BY <2>1, <1>f
  <2>3. \A i \in DOMAIN bReviews : bAttempts'[i] = bAttempts[i] BY <2>2, <1>k
  <2>4. bState \notin ReviewOpen \cup {"BLOCKED"} /\ bState' \notin AwaitsAttempt
    BY <1>e DEF ReviewOpen, AwaitsAttempt
  <2>5. ASSUME NEW i \in DOMAIN bReviews
        PROVE  /\ bReviews[i].attempt = i /\ bAttempts[i].reviewStarted
               /\ bReviews[i].completed /\ bReviews[i].evidence = bAttempts[i].evidence
               /\ i < Len(bAttempts) => bReviews[i].decision = "REJECT" /\ bReviews[i].completed
    BY <1>1, <2>4 DEF ReviewsInOrder
  <2>q. QED BY <1>k, <2>3, <2>4, <2>5 DEF ReviewsInOrder
<1>4. AcceptedLast' BY <1>e DEF AcceptedLast
<1>5. IndependentReviewers' BY <1>1, <1>k DEF IndependentReviewers
<1>q. QED BY <1>k, <1>2, <1>3, <1>4, <1>5 DEF BlockInv

\* The validation of a completed attempt.
LEMMA ValidationKeeps ==
    ASSUME BlockInv, NEW n, ValidationAllowed(n), bValidations' = bValidations + 1,
           bAttempts' = [bAttempts EXCEPT ![n].evidence = @ \cup {bValidations + 1}],
           bOpenOperation' = 0,
           UNCHANGED <<bArm, bState, bReviews, bUnresolved, bRejected, bTarget, bOperations>>
    PROVE  BlockInv'
<1>1. BlockTyped /\ BlockPlace /\ ReviewsInOrder /\ AcceptedLast /\ IndependentReviewers
  BY DEF BlockInv
<1>f. /\ Len(bAttempts) \in Nat /\ Len(bReviews) \in Nat
      /\ DOMAIN bAttempts = 1 .. Len(bAttempts) /\ DOMAIN bReviews = 1 .. Len(bReviews)
      /\ \A i \in DOMAIN bAttempts : bAttempts[i] \in BlockAttempt
  BY <1>1, BlockFacts
<1>n. n \in DOMAIN bAttempts /\ bAttempts[n] \in BlockAttempt /\ ~bAttempts[n].reviewStarted
  BY <1>f DEF ValidationAllowed
<1>v. /\ bValidations \in Nat /\ bValidations' \in Nat /\ bValidations <= bValidations'
      /\ bAttempts[n].evidence \subseteq 1 .. bValidations BY <1>1, <1>n DEF BlockTyped
<1>w. bAttempts[n].evidence \cup {bValidations + 1} \subseteq 1 .. bValidations' BY <1>v
<1>x. PICK x : x = [bAttempts[n] EXCEPT !.evidence = @ \cup {bValidations + 1}] OBVIOUS
<1>y. /\ x \in BlockAttempt /\ x.session = bAttempts[n].session /\ x.binding = bAttempts[n].binding
      /\ x.input = bAttempts[n].input /\ x.output = bAttempts[n].output
      /\ x.evidence = bAttempts[n].evidence \cup {bValidations + 1}
  <2>1. bAttempts[n].evidence \cup {bValidations + 1} \in SUBSET Nat BY <1>v
  <2>q. QED BY <1>n, <1>x, <2>1 DEF BlockAttempt
<1>b. bAttempts' = [bAttempts EXCEPT ![n] = x] BY <1>n, <1>x
<1>k. /\ BlockTyped' /\ ChainUnbroken' /\ ArmFollowed'
      /\ Len(bAttempts') = Len(bAttempts) /\ DOMAIN bAttempts' = DOMAIN bAttempts
      /\ \A i \in DOMAIN bAttempts : i # n => bAttempts'[i] = bAttempts[i]
      /\ \A i \in DOMAIN bAttempts : bAttempts'[i].session = bAttempts[i].session
  <2>1. bReviews' \in Seq(BlockReview) /\ Len(bReviews') >= Len(bReviews)
    BY <1>1, <1>f DEF BlockTyped
  <2>2. x.evidence \subseteq 1 .. bValidations' BY <1>w, <1>y
  <2>q. QED BY <1>n, <1>v, <1>y, <1>b, <2>1, <2>2, AttemptKeeps
<1>2. BlockPlace' BY <1>1, <1>k DEF BlockPlace, At
<1>3. ReviewsInOrder'
  <2>1. \A i \in DOMAIN bReviews : i \in DOMAIN bAttempts
    <3>1. Len(bReviews) <= Len(bAttempts) BY <1>1 DEF BlockPlace
    <3>q. QED BY <3>1, <1>f
  <2>2. \A i \in DOMAIN bReviews : i # n BY <1>1, <1>n DEF ReviewsInOrder
  <2>3. \A i \in DOMAIN bReviews : bAttempts'[i] = bAttempts[i] BY <2>1, <2>2, <1>k
  <2>4. ASSUME NEW i \in DOMAIN bReviews
        PROVE  /\ bReviews[i].attempt = i /\ bAttempts[i].reviewStarted
               /\ bReviews[i].completed => bReviews[i].evidence = bAttempts[i].evidence
               /\ bState \notin ReviewOpen \cup {"BLOCKED"} => bReviews[i].completed
               /\ i < Len(bAttempts) \/ bState \in AwaitsAttempt =>
                     bReviews[i].completed /\ bReviews[i].decision = "REJECT"
    BY <1>1 DEF ReviewsInOrder
  <2>q. QED BY <1>k, <2>3, <2>4 DEF ReviewsInOrder
<1>4. AcceptedLast' BY <1>1, <1>k DEF AcceptedLast
<1>5. IndependentReviewers' BY <1>1, <1>k DEF IndependentReviewers
<1>q. QED BY <1>k, <1>2, <1>3, <1>4, <1>5 DEF BlockInv

\* The start of a review, by a session nobody used before.
LEMMA ReviewStartKeeps ==
    ASSUME BlockInv, NEW n \in DOMAIN bAttempts, NEW session \in SomeSession, NEW reviewed,
           ReviewAllowed(n, session, reviewed),
           bAttempts' = [bAttempts EXCEPT ![n].reviewStarted = TRUE],
           bReviews' = Append(bReviews,
                   [attempt |-> n, session |-> session, completed |-> FALSE, window |-> FALSE,
                    decision |-> "none", evidence |-> {}]),
           bState' = Reviewing(n), bOpenOperation' = 0,
           UNCHANGED <<bArm, bUnresolved, bRejected, bTarget, bValidations, bOperations>>
    PROVE  BlockInv'
<1>1. BlockTyped /\ BlockPlace /\ ReviewsInOrder /\ IndependentReviewers BY DEF BlockInv
<1>f. /\ Len(bAttempts) \in Nat /\ Len(bReviews) \in Nat
      /\ DOMAIN bAttempts = 1 .. Len(bAttempts) /\ DOMAIN bReviews = 1 .. Len(bReviews)
      /\ \A i \in DOMAIN bAttempts : bAttempts[i] \in BlockAttempt
      /\ bReviews \in Seq(BlockReview)
  BY <1>1, BlockFacts DEF BlockTyped
<1>a. n = Len(bAttempts) /\ bState = ReadyReview(n) /\ session \notin SessionsUsed
  BY DEF ReviewAllowed
<1>n. bAttempts[n] \in BlockAttempt BY <1>f
<1>x. PICK x : x = [bAttempts[n] EXCEPT !.reviewStarted = TRUE] OBVIOUS
<1>y. /\ x \in BlockAttempt /\ x.session = bAttempts[n].session /\ x.binding = bAttempts[n].binding
      /\ x.input = bAttempts[n].input /\ x.evidence = bAttempts[n].evidence /\ x.reviewStarted = TRUE
  BY <1>n, <1>x DEF BlockAttempt
<1>b. bAttempts' = [bAttempts EXCEPT ![n] = x] BY <1>x
<1>e. \/ n = 1 /\ bState = "READY_REVIEW_1" /\ bState' = "REVIEWING_1"
      \/ n = 2 /\ bState = "READY_REVIEW_2" /\ bState' = "REVIEWING_2"
      \/ n = 3 /\ bState = "READY_FINAL_REVIEW" /\ bState' = "FINAL_REVIEWING"
  <2>1. n \in Nat /\ n > 0 /\ n <= 3 BY <1>1, <1>f, <1>a DEF BlockPlace
  <2>2. n = 1 \/ n = 2 \/ n = 3 BY <2>1
  <2>q. QED BY <1>a, <2>2 DEF ReadyReview, Reviewing
<1>l. Len(bReviews) = n - 1
  <2>1. CASE n = 1 /\ bState = "READY_REVIEW_1" BY <1>1, <2>1 DEF BlockPlace, At
  <2>2. CASE n = 2 /\ bState = "READY_REVIEW_2" BY <1>1, <2>2 DEF BlockPlace, At
  <2>3. CASE n = 3 /\ bState = "READY_FINAL_REVIEW" BY <1>1, <2>3 DEF BlockPlace, At
  <2>q. QED BY <2>1, <2>2, <2>3, <1>e
<1>r. PICK y : /\ bReviews' = Append(bReviews, y)
               /\ y = [attempt |-> n, session |-> session, completed |-> FALSE, window |-> FALSE,
                       decision |-> "none", evidence |-> {}]
  OBVIOUS
<1>s. y \in BlockReview /\ y.attempt = n /\ y.session = session /\ y.completed = FALSE
  <2>1. session \in Nat /\ n \in Nat BY <1>1, <1>f, SessionsAreNumbers
  <2>q. QED BY <1>r, <2>1 DEF BlockReview
<1>t. /\ bReviews' \in Seq(BlockReview) /\ Len(bReviews') = n /\ DOMAIN bReviews' = 1 .. n
      /\ bReviews'[n] = y /\ \A i \in DOMAIN bReviews : bReviews'[i] = bReviews[i]
  BY <1>f, <1>l, <1>r, <1>s
<1>d. \A i \in 1 .. n : i \in DOMAIN bReviews \/ i = n BY <1>f, <1>l
<1>k. /\ BlockTyped' /\ ChainUnbroken' /\ ArmFollowed'
      /\ Len(bAttempts') = Len(bAttempts) /\ DOMAIN bAttempts' = DOMAIN bAttempts
      /\ bAttempts'[n] = x
      /\ \A i \in DOMAIN bAttempts : i # n => bAttempts'[i] = bAttempts[i]
      /\ \A i \in DOMAIN bAttempts : bAttempts'[i].session = bAttempts[i].session
  <2>1. Len(bReviews') >= Len(bReviews) BY <1>f, <1>l, <1>t
  <2>2. bValidations' \in Nat /\ bValidations <= bValidations' BY <1>1 DEF BlockTyped
  <2>3. x.evidence \subseteq 1 .. bValidations' BY <1>1, <1>y DEF BlockTyped
  <2>4. bState' # "ESCALATION_REQUIRED" BY <1>e
  <2>q. QED BY <1>a, <1>y, <1>b, <1>t, <2>1, <2>2, <2>3, <2>4, AttemptKeeps
<1>2. BlockPlace' BY <1>1, <1>a, <1>e, <1>k, <1>t DEF BlockPlace, At
<1>3. ReviewsInOrder'
  <2>1. \A i \in DOMAIN bReviews : i \in DOMAIN bAttempts /\ i # n /\ i < n BY <1>f, <1>l, <1>a
  <2>2. \A i \in DOMAIN bReviews : bAttempts'[i] = bAttempts[i] BY <2>1, <1>k
  <2>3. bState' \in ReviewOpen /\ bState' \notin AwaitsAttempt BY <1>e DEF ReviewOpen, AwaitsAttempt
  <2>4. ASSUME NEW i \in DOMAIN bReviews
        PROVE  /\ bReviews'[i].attempt = i /\ bAttempts'[i].reviewStarted
               /\ bReviews'[i].completed => bReviews'[i].evidence = bAttempts'[i].evidence
               /\ bReviews'[i].decision = "REJECT" /\ bReviews'[i].completed
    BY <1>1, <1>a, <1>t, <2>1, <2>2 DEF ReviewsInOrder
  <2>5. /\ bReviews'[n].attempt = n /\ bAttempts'[n].reviewStarted /\ ~bReviews'[n].completed
        /\ ~(n < Len(bAttempts'))
    <3>1. bReviews'[n].attempt = n /\ bReviews'[n].completed = FALSE BY <1>s, <1>t
    <3>2. bAttempts'[n].reviewStarted = TRUE BY <1>k, <1>y
    <3>3. ~(n < Len(bAttempts')) BY <1>k, <1>a, <1>f
    <3>q. QED BY <3>1, <3>2, <3>3
  <2>q. QED BY <1>d, <1>t, <2>3, <2>4, <2>5 DEF ReviewsInOrder
<1>4. AcceptedLast' BY <1>e DEF AcceptedLast
<1>5. IndependentReviewers'
  <2>1. \A j \in DOMAIN bAttempts : bAttempts[j].session # session BY <1>a DEF SessionsUsed
  <2>q. QED BY <1>1, <1>d, <1>k, <1>s, <1>t, <2>1 DEF IndependentReviewers
<1>q. QED BY <1>k, <1>2, <1>3, <1>4, <1>5 DEF BlockInv

\* The element of a sequence that is replaced, and the others.
LEMMA Replaced ==
    ASSUME NEW S, NEW s \in Seq(S), NEW n \in DOMAIN s, NEW x \in S
    PROVE  /\ [s EXCEPT ![n] = x] \in Seq(S) /\ Len([s EXCEPT ![n] = x]) = Len(s)
           /\ DOMAIN [s EXCEPT ![n] = x] = DOMAIN s /\ [s EXCEPT ![n] = x][n] = x
           /\ \A i \in DOMAIN s : i # n => [s EXCEPT ![n] = x][i] = s[i]
OBVIOUS

\* The end of a review: accepted, or rejected with what is left to resolve.
LEMMA ReviewEndKeeps ==
    ASSUME BlockInv, NonTerminal, NEW n, n = Len(bReviews), n > 0, CurrentReview,
           NEW decision \in {"ACCEPT", "REJECT"}, NEW cited, NEW reported \in SUBSET Findings,
           cited = bAttempts[Last(bReviews).attempt].evidence,
           decision = "ACCEPT" => reported = {},
           bReviews' = [bReviews EXCEPT ![n].completed = TRUE, ![n].window = TRUE,
                                        ![n].decision = decision, ![n].evidence = cited],
           bUnresolved' = reported,
           bRejected' = IF decision = "REJECT" THEN n ELSE bRejected,
           bState' = AfterReview(n, decision), bOpenOperation' = 0,
           UNCHANGED <<bArm, bAttempts, bTarget, bValidations, bOperations>>
    PROVE  BlockInv'
<1>1. BlockTyped /\ BlockPlace /\ ReviewsInOrder /\ ChainUnbroken /\ IndependentReviewers /\ ArmFollowed
  BY DEF BlockInv
<1>f. /\ Len(bAttempts) \in Nat /\ Len(bReviews) \in Nat
      /\ DOMAIN bAttempts = 1 .. Len(bAttempts) /\ DOMAIN bReviews = 1 .. Len(bReviews)
      /\ \A i \in DOMAIN bAttempts : bAttempts[i] \in BlockAttempt
      /\ \A i \in DOMAIN bReviews : bReviews[i] \in BlockReview
      /\ bReviews \in Seq(BlockReview)
  BY <1>1, BlockFacts DEF BlockTyped
<1>n. n \in DOMAIN bReviews /\ n \in Nat /\ bReviews[n] \in BlockReview BY <1>f
<1>o. ~bReviews[n].completed BY DEF CurrentReview, Last
<1>s. bState \in ReviewOpen
  <2>1. bState # "BLOCKED" BY DEF NonTerminal, TerminalStates
  <2>q. QED BY <1>1, <1>n, <1>o, <2>1 DEF ReviewsInOrder
<1>e. \/ n = 1 /\ bState = "REVIEWING_1" /\ Len(bAttempts) = n
      \/ n = 2 /\ bState = "REVIEWING_2" /\ Len(bAttempts) = n
      \/ n = 3 /\ bState = "FINAL_REVIEWING" /\ Len(bAttempts) = n
  <2>1. CASE bState = "REVIEWING_1"
    <3>1. At(1, 1) BY <1>1, <2>1 DEF BlockPlace
    <3>q. QED BY <2>1, <3>1 DEF At
  <2>2. CASE bState = "REVIEWING_2"
    <3>1. At(2, 2) BY <1>1, <2>2 DEF BlockPlace
    <3>q. QED BY <2>2, <3>1 DEF At
  <2>3. CASE bState = "FINAL_REVIEWING"
    <3>1. At(3, 3) BY <1>1, <2>3 DEF BlockPlace
    <3>q. QED BY <2>3, <3>1 DEF At
  <2>q. QED BY <1>s, <2>1, <2>2, <2>3 DEF ReviewOpen
<1>l. Len(bAttempts) = n /\ n \in DOMAIN bAttempts BY <1>e, <1>f
<1>x. PICK x : x = [[[[bReviews[n] EXCEPT !.completed = TRUE] EXCEPT !.window = TRUE]
                                EXCEPT !.decision = decision] EXCEPT !.evidence = cited]
  OBVIOUS
<1>c. cited = bAttempts[n].evidence /\ bReviews[n].attempt = n /\ bAttempts[n].reviewStarted
  <2>1. bReviews[n].attempt = n /\ bAttempts[n].reviewStarted BY <1>1, <1>n DEF ReviewsInOrder
  <2>q. QED BY <2>1 DEF Last
<1>y. /\ x \in BlockReview /\ x.attempt = n /\ x.session = bReviews[n].session
      /\ x.completed = TRUE /\ x.decision = decision /\ x.evidence = bAttempts[n].evidence
  <2>1. cited \in SUBSET Nat BY <1>c, <1>l, <1>f DEF BlockAttempt
  <2>q. QED BY <1>n, <1>x, <1>c, <2>1 DEF BlockReview
<1>b. bReviews' = [bReviews EXCEPT ![n] = x] BY <1>n, <1>x
<1>t. /\ bReviews' \in Seq(BlockReview) /\ Len(bReviews') = n /\ DOMAIN bReviews' = DOMAIN bReviews
      /\ bReviews'[n] = x /\ \A i \in DOMAIN bReviews : i # n => bReviews'[i] = bReviews[i]
  <2>1. bReviews \in Seq(BlockReview) /\ n \in DOMAIN bReviews /\ x \in BlockReview
    BY <1>n, <1>f, <1>y
  <2>q. QED BY ONLY <1>b, <2>1, n = Len(bReviews), Replaced
<1>a. \/ decision = "ACCEPT" /\ bState' = "READY_ACCEPT"
      \/ decision = "REJECT" /\ n = 1 /\ bState' = "READY_2"
      \/ decision = "REJECT" /\ n = 2 /\ bArm = "C" /\ bState' = "ESCALATION_REQUIRED"
      \/ decision = "REJECT" /\ n = 2 /\ bArm # "C" /\ bState' = "READY_3"
      \/ decision = "REJECT" /\ n = 3 /\ bState' = "READY_FAIL"
  <2>1. n = 1 \/ n = 2 \/ n = 3 BY <1>e
  <2>2. decision = "ACCEPT" \/ decision = "REJECT" OBVIOUS
  <2>3. CASE decision = "ACCEPT" BY <2>3 DEF AfterReview
  <2>4. CASE decision = "REJECT" BY <2>1, <2>4 DEF AfterReview
  <2>q. QED BY <2>2, <2>3, <2>4
<1>2. BlockTyped'
  <2>1. bRejected' \in Nat /\ bRejected' <= Len(bReviews') BY <1>1, <1>n, <1>t DEF BlockTyped
  <2>2. bOpenOperation' \in 0 .. bOperations' BY <1>1 DEF BlockTyped
  <2>q. QED BY <1>1, <1>t, <2>1, <2>2 DEF BlockTyped
<1>3. BlockPlace' BY <1>a, <1>e, <1>t, <1>l DEF BlockPlace, At
<1>4. ReviewsInOrder'
  <2>1. \A i \in DOMAIN bReviews : i # n => i < Len(bAttempts) BY <1>f, <1>l
  <2>2. ASSUME NEW i \in DOMAIN bReviews, i # n
        PROVE  /\ bReviews'[i].attempt = i /\ bAttempts'[i].reviewStarted
               /\ bReviews'[i].completed => bReviews'[i].evidence = bAttempts'[i].evidence
               /\ bReviews'[i].decision = "REJECT" /\ bReviews'[i].completed
    <3>1. bReviews[i].completed
      <4>1. i < Len(bAttempts) BY <2>1, <2>2
      <4>q. QED BY <1>1, <4>1 DEF ReviewsInOrder
    <3>q. QED BY <1>1, <1>t, <2>1, <2>2, <3>1 DEF ReviewsInOrder
  <2>3. /\ bReviews'[n].attempt = n /\ bAttempts'[n].reviewStarted
        /\ bReviews'[n].evidence = bAttempts'[n].evidence /\ bReviews'[n].completed = TRUE
        /\ bReviews'[n].decision = decision
    BY <1>t, <1>y, <1>c
  <2>4. ~(n < Len(bAttempts')) BY <1>l, <1>n
  <2>5. bState' \in AwaitsAttempt => decision = "REJECT" BY <1>a DEF AwaitsAttempt
  <2>q. QED BY <1>t, <2>2, <2>3, <2>4, <2>5 DEF ReviewsInOrder
<1>5. AcceptedLast'
  <2>1. bState' \in {"READY_ACCEPT", "ACCEPTED"} => decision = "ACCEPT" BY <1>a
  <2>2. bReviews'[n].decision = decision BY <1>t, <1>y
  <2>q. QED BY <1>l, <1>t, <2>1, <2>2 DEF AcceptedLast
<1>6. ChainUnbroken' BY <1>1 DEF ChainUnbroken
<1>7. IndependentReviewers'
  <2>1. \A i \in DOMAIN bReviews : bReviews'[i].session = bReviews[i].session BY <1>t, <1>y
  <2>q. QED BY <1>1, <1>t, <2>1 DEF IndependentReviewers
<1>8. ArmFollowed'
  <2>1. bTarget' # "none" => bRejected' >= 2
    <3>1. bTarget # "none" => bRejected >= 2 /\ n >= 2 BY <1>1, <1>l DEF ArmFollowed
    <3>q. QED BY <3>1
  <2>2. bState' = "ESCALATION_REQUIRED" => bArm = "C" /\ bRejected' = 2 BY <1>a
  <2>3. /\ \A i \in DOMAIN bAttempts : CapabilityOf(bAttempts[i].binding) = RouteFor(bArm, i)
        /\ bArm = "C" /\ Len(bAttempts) = 3 => bAttempts[3].binding = bTarget
        /\ bTarget # "none" => bArm = "C" /\ Len(bAttempts) >= 2
    BY <1>1 DEF ArmFollowed
  <2>q. QED BY <2>1, <2>2, <2>3 DEF ArmFollowed
<1>q. QED BY <1>2, <1>3, <1>4, <1>5, <1>6, <1>7, <1>8 DEF BlockInv

\* The end of the block, accepted or failed.
LEMMA EndBlockKeeps ==
    ASSUME BlockInv, NEW allowed \in BOOLEAN, NEW to, EndBlock(allowed, to),
           allowed => \/ bState = "READY_ACCEPT" /\ to = "ACCEPTED"
                      \/ bState = "READY_FAIL" /\ to = "FAILED"
                      \/ to = "BLOCKED"
    PROVE  BlockInv'
<1>1. CASE allowed
  <2>1. /\ bState' = to /\ CloseWindows /\ bOpenOperation' = 0
        /\ UNCHANGED <<bArm, bAttempts, bUnresolved, bRejected, bTarget, bValidations, bOperations>>
    BY <1>1 DEF EndBlock
  <2>2. MovedOn BY <1>1, <2>1 DEF MovedOn
  <2>3. SameReviews BY <2>1, WindowsClosed DEF BlockInv
  <2>q. QED BY <2>1, <2>2, <2>3, MoveKeeps
<1>2. CASE ~allowed BY <1>2, InvalidateKeeps DEF EndBlock
<1>q. QED BY <1>1, <1>2

\* What comes before the first attempt.
LEMMA PrepareKeeps ==
    ASSUME BlockInv, NEW from \in {"none", "PLANNED", "ASSIGNED"}, NEW arms,
           NEW to \in {"PLANNED", "ASSIGNED", "READY_1"}, PrepareBlock(from, to, arms)
    PROVE  BlockInv'
<1>1. /\ bState = from /\ bState' = to /\ bOpenOperation' = 0
      /\ UNCHANGED <<bArm, bAttempts, bReviews, bUnresolved, bRejected, bTarget, bValidations, bOperations>>
  BY DEF PrepareBlock
<1>2. SameReviews BY <1>1 DEF SameReviews, BlockInv, BlockTyped
<1>3. MovedOn BY <1>1 DEF MovedOn
<1>q. QED BY <1>1, <1>2, <1>3, MoveKeeps

\* Every event of the replay keeps all of it.
LEMMA BlockInvKept == ASSUME BlockInv, [BlockNext]_blockVars PROVE BlockInv'
<1>t. /\ bOperations \in Nat /\ bOpenOperation \in 0 .. bOperations /\ bOpenOperation \in Nat
      /\ 0 \in 0 .. bOperations
  BY DEF BlockInv, BlockTyped
<1>1. CASE ForeignEvent BY <1>1, InvalidateKeeps DEF ForeignEvent
<1>2. CASE BlockPlanned BY <1>2, PrepareKeeps DEF BlockPlanned
<1>3. CASE ArmAssigned BY <1>3, PrepareKeeps DEF ArmAssigned
<1>4. ASSUME NEW clean \in BOOLEAN, IsolationAttested(clean) PROVE BlockInv'
  BY <1>4, PrepareKeeps, InvalidateKeeps DEF IsolationAttested
<1>5. ASSUME NEW s \in SomeSession, NEW b \in Bindings, NEW r \in Revisions, ExecutionStarted(s, b, r)
      PROVE  BlockInv'
  <2>1. PICK n : n = Len(bAttempts) + 1 OBVIOUS
  <2>2. n \in 1 .. 3 BY <1>5, <2>1 DEF ExecutionStarted, MaxAttempts
  <2>3. CASE StartAllowed(n, s, b, r)
    BY <1>5, <2>1, <2>2, <2>3, StartKeeps DEF ExecutionStarted
  <2>4. CASE ~StartAllowed(n, s, b, r)
    BY <1>5, <2>1, <2>4, InvalidateKeeps DEF ExecutionStarted
  <2>q. QED BY <2>3, <2>4
<1>6. ASSUME NEW owned \in BOOLEAN, NEW reproduced \in BOOLEAN, NEW r \in Revisions,
             ExecutionCompleted(owned, reproduced, r)
      PROVE  BlockInv'
  <2>1. PICK n : n = Len(bAttempts) OBVIOUS
  <2>2. CASE bState = Executing(n) /\ owned /\ reproduced
    BY <1>6, <2>1, <2>2, CompletionKeeps DEF ExecutionCompleted
  <2>3. CASE ~(bState = Executing(n) /\ owned /\ reproduced)
    BY <1>6, <2>1, <2>3, InvalidateKeeps DEF ExecutionCompleted
  <2>q. QED BY <2>2, <2>3
<1>7. ASSUME NEW a \in 1 .. MaxAttempts, ValidationRecorded(a) PROVE BlockInv'
  BY <1>7, ValidationKeeps, InvalidateKeeps DEF ValidationRecorded
<1>8. ASSUME NEW a \in 1 .. MaxAttempts, NEW s \in SomeSession, NEW e \in SomeSession, ReviewStarted(a, s, e)
      PROVE  BlockInv'
  BY <1>8, ReviewStartKeeps, InvalidateKeeps DEF ReviewStarted
<1>9. ASSUME NEW d \in {"ACCEPT", "REJECT"}, NEW r \in Revisions, NEW c \in SUBSET (1 .. bValidations),
             NEW o \in SUBSET Findings, NEW x \in SUBSET Findings, NEW u \in SUBSET Findings,
             NEW m \in BOOLEAN, ReviewCompleted(d, r, c, o, x, u, m)
      PROVE  BlockInv'
  <2>1. PICK n : n = Len(bReviews) OBVIOUS
  <2>2. CASE CurrentReview /\ ReviewProofValid(d, r, c, o, x, u, m)
    <3>1. c = bAttempts[Last(bReviews).attempt].evidence /\ (d = "ACCEPT" => u = {})
      BY <2>2 DEF ReviewProofValid
    <3>q. QED BY <1>9, <2>1, <2>2, <3>1, ReviewEndKeeps DEF ReviewCompleted
  <2>3. CASE ~(CurrentReview /\ ReviewProofValid(d, r, c, o, x, u, m))
    BY <1>9, <2>3, InvalidateKeeps DEF ReviewCompleted
  <2>q. QED BY <2>2, <2>3
<1>10. ASSUME NEW fresh \in BOOLEAN, OperationRecorded(fresh) PROVE BlockInv'
  <2>1. CASE fresh
    <3>1. /\ bOperations' = bOperations + 1 /\ bOpenOperation' = bOperations + 1
          /\ UNCHANGED <<bArm, bState, bAttempts, bReviews, bUnresolved, bRejected, bTarget, bValidations>>
      BY <1>10, <2>1 DEF OperationRecorded
    <3>2. bOperations' \in Nat /\ bOpenOperation' \in 0 .. bOperations' BY <1>t, <3>1
    <3>q. QED BY <3>1, <3>2, QuietKeeps
  <2>2. CASE ~fresh BY <1>10, <2>2, InvalidateKeeps DEF OperationRecorded
  <2>q. QED BY <2>1, <2>2
<1>11. ASSUME NEW role \in {"orchestrator", "executor", "reviewer"}, NEW i \in 0 .. MaxAttempts,
              UsageRecorded(role, i)
       PROVE  BlockInv'
  <2>1. CASE UsageAllowed(role, i)
    <3>1. /\ bOpenOperation' = bOpenOperation \/ bOpenOperation' = 0
          /\ UNCHANGED <<bArm, bState, bAttempts, bReviews, bUnresolved, bRejected, bTarget,
                         bValidations, bOperations>>
      BY <1>11, <2>1 DEF UsageRecorded
    <3>2. bOperations' \in Nat /\ bOpenOperation' \in 0 .. bOperations' BY <1>t, <3>1
    <3>q. QED BY <3>1, <3>2, QuietKeeps
  <2>2. CASE ~UsageAllowed(role, i) BY <1>11, <2>2, InvalidateKeeps DEF UsageRecorded
  <2>q. QED BY <2>1, <2>2
<1>12. ASSUME NEW r \in 1 .. MaxAttempts, NEW a \in 1 .. MaxAttempts, ReworkRecorded(r, a)
       PROVE  BlockInv'
  <2>1. \/ Invalidate
        \/ /\ bOpenOperation' = 0
           /\ UNCHANGED <<bArm, bState, bAttempts, bReviews, bUnresolved, bRejected, bTarget,
                          bValidations, bOperations>>
    BY <1>12, Zenon DEF ReworkRecorded
  <2>q. QED BY <1>t, <2>1, QuietKeeps, InvalidateKeeps
<1>13. ASSUME NEW r \in 0 .. MaxAttempts, NEW b \in Bindings, EscalationDecided(r, b) PROVE BlockInv'
  <2>1. CASE EscalationAllowed(r, b)
    <3>1. /\ bTarget' = b /\ bState' = "READY_3" /\ CloseWindows /\ bOpenOperation' = 0
          /\ UNCHANGED <<bArm, bAttempts, bUnresolved, bRejected, bValidations, bOperations>>
      BY <1>13, <2>1 DEF EscalationDecided
    <3>2. bState = "ESCALATION_REQUIRED" BY <2>1 DEF EscalationAllowed
    <3>3. SameReviews BY <3>1, WindowsClosed DEF BlockInv
    <3>4. MovedOn BY <3>1, <3>2 DEF MovedOn
    <3>q. QED BY <3>1, <3>2, <3>3, <3>4, MoveKeeps
  <2>2. CASE ~EscalationAllowed(r, b) BY <1>13, <2>2, InvalidateKeeps DEF EscalationDecided
  <2>q. QED BY <2>1, <2>2
<1>14. ASSUME NEW r \in Revisions, BlockAccepted(r) PROVE BlockInv'
  <2>1. PICK allowed \in BOOLEAN : /\ EndBlock(allowed, "ACCEPTED")
                                   /\ allowed => bState = "READY_ACCEPT"
    BY <1>14 DEF BlockAccepted
  <2>q. QED BY <2>1, EndBlockKeeps
<1>15. CASE BlockFailed
  <2>1. PICK allowed \in BOOLEAN : /\ EndBlock(allowed, "FAILED")
                                   /\ allowed => bState = "READY_FAIL"
    BY <1>15 DEF BlockFailed
  <2>q. QED BY <2>1, EndBlockKeeps
<1>16. CASE BlockBlocked
  <2>1. EndBlock(TRUE, "BLOCKED") BY <1>16 DEF BlockBlocked
  <2>q. QED BY <2>1, EndBlockKeeps
<1>17. ASSUME NEW i \in 1 .. MaxAttempts, NEW r \in Revisions, DefectRecorded(i, r) PROVE BlockInv'
  <2>1. Invalidate \/ UNCHANGED blockVars BY <1>17, Zenon DEF DefectRecorded
  <2>q. QED BY <1>t, <2>1, QuietKeeps, InvalidateKeeps DEF blockVars
<1>18. CASE UNCHANGED blockVars BY <1>t, <1>18, QuietKeeps DEF blockVars
<1>19. CASE BlockNext
  BY <1>19, <1>1, <1>2, <1>3, <1>4, <1>5, <1>6, <1>7, <1>8, <1>9, <1>10, <1>11, <1>12, <1>13, <1>14,
     <1>15, <1>16, <1>17 DEF BlockNext
<1>q. QED BY <1>18, <1>19

\* The invariant gives the types.
LEMMA BlockInvTypes == ASSUME BlockInv PROVE BlockTypeOK
<1>1. BlockTyped /\ BlockPlace /\ ReviewsInOrder BY DEF BlockInv
<1>f. /\ Len(bAttempts) \in Nat /\ Len(bReviews) \in Nat
      /\ DOMAIN bAttempts = 1 .. Len(bAttempts) /\ DOMAIN bReviews = 1 .. Len(bReviews)
      /\ \A i \in DOMAIN bAttempts : bAttempts[i] \in BlockAttempt
  BY <1>1, BlockFacts
<1>2. Len(bAttempts) \in 0 .. MaxAttempts /\ Len(bReviews) \in 0 .. Len(bAttempts)
  BY <1>1, <1>f DEF BlockPlace, MaxAttempts
<1>3. \A i \in DOMAIN bAttempts :
          /\ bAttempts[i].binding \in Bindings
          /\ {bAttempts[i].input, bAttempts[i].output} \subseteq Revisions
          /\ bAttempts[i].evidence \subseteq 1 .. bValidations
  BY <1>1, <1>f DEF BlockAttempt, BlockTyped
<1>4. \A i \in DOMAIN bReviews : bReviews[i].attempt \in DOMAIN bAttempts
  <2>1. \A i \in DOMAIN bReviews : bReviews[i].attempt = i BY <1>1 DEF ReviewsInOrder
  <2>2. \A i \in DOMAIN bReviews : i \in DOMAIN bAttempts BY <1>2, <1>f
  <2>q. QED BY <2>1, <2>2
<1>5. bRejected \in 0 .. Len(bReviews) BY <1>1, <1>f DEF BlockTyped
<1>q. QED BY <1>1, <1>2, <1>3, <1>4, <1>5 DEF BlockTyped, BlockTypeOK

\* The invariant gives the soundness of the record of a block.
LEMMA BlockInvSound == ASSUME BlockInv PROVE BlockSound
<1>1. BlockTyped /\ BlockPlace /\ ReviewsInOrder /\ AcceptedLast
      /\ ChainUnbroken /\ IndependentReviewers /\ ArmFollowed BY DEF BlockInv
<1>f. /\ Len(bAttempts) \in Nat /\ Len(bReviews) \in Nat
      /\ DOMAIN bAttempts = 1 .. Len(bAttempts) /\ DOMAIN bReviews = 1 .. Len(bReviews)
      /\ \A i \in DOMAIN bAttempts : bAttempts[i] \in BlockAttempt
  BY <1>1, BlockFacts
<1>l. Len(bReviews) <= Len(bAttempts) /\ Len(bAttempts) <= 3 /\ Len(bAttempts) <= Len(bReviews) + 1
  BY <1>1 DEF BlockPlace
<1>d. \A i \in DOMAIN bReviews : i < Len(bAttempts) => bReviews[i].decision = "REJECT"
  BY <1>1 DEF ReviewsInOrder
<1>2. AcceptedIsReviewed
  <2>1. ASSUME Accepted
        PROVE  /\ Len(bReviews) = Len(bAttempts) /\ Last(bReviews).decision = "ACCEPT"
               /\ \A i \in 1 .. Len(bReviews) - 1 : bReviews[i].decision = "REJECT"
               /\ bUnresolved = {}
    <3>1. /\ Len(bReviews) = Len(bAttempts) /\ Last(bReviews).decision = "ACCEPT"
          /\ bUnresolved = {} BY <1>1, <2>1 DEF Accepted, AcceptedLast, Last
    <3>2. \A i \in 1 .. Len(bReviews) - 1 : i \in DOMAIN bReviews /\ i < Len(bAttempts)
      BY <1>f, <1>l
    <3>q. QED BY <3>1, <3>2, <1>d
  <2>2. \A i \in CompletedReviews : bReviews[i].evidence = bAttempts[bReviews[i].attempt].evidence
    <3>1. \A i \in DOMAIN bReviews : bReviews[i].attempt = i /\
             (bReviews[i].completed => bReviews[i].evidence = bAttempts[i].evidence)
      BY <1>1 DEF ReviewsInOrder
    <3>q. QED BY <3>1 DEF CompletedReviews
  <2>q. QED BY <1>1, <2>1, <2>2 DEF AcceptedIsReviewed
<1>3. ArmIsKept
  <2>1. bArm \in {"A", "B", "C", "DIRECT"} BY <1>1, PilotBlockAssumption DEF BlockTyped
  <2>2. \A i \in DOMAIN bAttempts : CapabilityOf(bAttempts[i].binding) = RouteFor(bArm, i)
    BY <1>1 DEF ArmFollowed
  <2>3. bArm = "C" /\ Len(bAttempts) = 3 => bAttempts[3].binding = bTarget BY <1>1 DEF ArmFollowed
  <2>4. \A i \in DOMAIN bAttempts : bArm = "C" /\ i = 3 => bTarget # "none"
    <3>1. SUFFICES ASSUME 3 \in DOMAIN bAttempts, bArm = "C" PROVE bTarget # "none"
      OBVIOUS
    <3>2. Len(bAttempts) = 3 BY <3>1, <1>f, <1>l
    <3>3. bTarget \in Bindings BY <3>1, <3>2, <2>3, <1>f DEF BlockAttempt
    <3>q. QED BY <3>3 DEF Bindings
  <2>5. \A i \in DOMAIN bAttempts :
          CapabilityOf(bAttempts[i].binding) =
             CASE bArm \in {"A", "DIRECT"} -> "strong"
               [] bArm = "B" -> "cheap"
               [] bArm = "C" -> IF bTarget # "none" /\ i = 3 THEN "strong" ELSE "cheap"
    <3>1. CASE bArm \in {"A", "DIRECT"} BY <2>2, <3>1 DEF RouteFor
    <3>2. CASE bArm = "B" BY <2>2, <3>2 DEF RouteFor
    <3>3. CASE bArm = "C" BY <2>2, <2>4, <3>3 DEF RouteFor
    <3>q. QED BY <2>1, <3>1, <3>2, <3>3
  <2>6. bArm = "C" /\ Len(bAttempts) = 3 => {bReviews[1].decision, bReviews[2].decision} = {"REJECT"}
    <3>1. Len(bAttempts) = 3 => 1 \in DOMAIN bReviews /\ 2 \in DOMAIN bReviews BY <1>f, <1>l
    <3>2. Len(bAttempts) = 3 => bReviews[1].decision = "REJECT" /\ bReviews[2].decision = "REJECT"
      BY <3>1, <1>d
    <3>q. QED BY <3>2
  <2>7. bTarget # "none" => bArm = "C" /\ bRejected >= 2 BY <1>1 DEF ArmFollowed
  <2>q. QED BY <2>3, <2>5, <2>6, <2>7 DEF ArmIsKept
<1>q. QED BY <1>2, <1>3 DEF BlockSound

\* Every variable of the replay of a block has its type (replayBlock of state-machine.ts).
THEOREM BlockIsTyped == BlockSpec => []BlockTypeOK
<1>1. BlockInv /\ [BlockNext]_blockVars => BlockInv' BY BlockInvKept
<1>q. QED BY <1>1, BlockInitHolds, BlockInvTypes, PTL DEF BlockSpec

\* Whatever events are replayed and in whatever order, a block that counts as accepted was
\* reviewed to the end by sessions independent of those that executed it, every attempt
\* continues from the last, and the capability follows the arm (replayBlock).
THEOREM BlockIsSound == BlockSpec => []BlockSound
<1>1. BlockInv /\ [BlockNext]_blockVars => BlockInv' BY BlockInvKept
<1>q. QED BY <1>1, BlockInitHolds, BlockInvSound, PTL DEF BlockSpec

-----------------------------------------------------------------------------
(* The chain of evaluations. *)

HistoryEntry == [stage : Stages, decision : Decisions]
DecidedOn == [input : Nat, quality : Nat, late : Nat]

EvaluationTyped ==
    /\ eProfile \in [Triplets -> Profiles \cup {"missing"}]
    /\ eClosed \subseteq Triplets /\ eDefects \subseteq Triplets \X {"A", "C"}
    /\ eLate \in 0 .. MaxLater /\ eHistory \in Seq(HistoryEntry)
    /\ eNewest \in DecidedOn /\ eHeld \subseteq EvaluationReport

\* No report counts quality evidence that was not recorded.
EvidenceExists ==
    eNewest.quality <= QualityCount /\ \A report \in eHeld : report.quality <= QualityCount

\* The first stage is looked at first, and it promotes nobody.
FirstLook ==
    /\ eHistory = <<>> => \A report \in eHeld : report.stage = 1
    /\ \A report \in eHeld : report.decision = "PROMOTE_BOUNDED" => report.stage > 1

\* What holds of the report at j and those before it.
Monotone(history, j) == \A i \in 1 .. j - 1 : history[i].stage <= history[j].stage
Looked(history, j) ==
    \A s \in 1 .. history[j].stage - 1 : \E i \in 1 .. j - 1 :
        /\ history[i].stage = s /\ history[i + 1].stage = s + 1 /\ ~Terminal(history[i].decision)
NotLate(history, j) ==
    \A i \in 1 .. j - 1 : history[i].stage = 3 => history[i].decision = "PROMOTE_BOUNDED"

HistoryEarned ==
    \A j \in DOMAIN eHistory :
        /\ Monotone(eHistory, j) /\ Looked(eHistory, j)
        /\ eHistory[j].decision = "PROMOTE_BOUNDED" => eHistory[j].stage > 1 /\ NotLate(eHistory, j)

EvaluationInv == EvaluationTyped /\ EvidenceExists /\ FirstLook /\ HistoryEarned

\* The evidence of finitely many triplets can be counted.
LEMMA EvidenceCounted ==
    ASSUME NEW closed \in SUBSET Triplets, NEW defects \in SUBSET (Triplets \X {"A", "C"}),
           NEW late \in 0 .. MaxLater
    PROVE  /\ IsFiniteSet(closed) /\ IsFiniteSet(defects)
           /\ Cardinality(closed) \in Nat /\ Cardinality(defects) \in Nat /\ late \in Nat
           /\ Cardinality(closed) + Cardinality(defects) + late \in Nat
<1>1. IsFiniteSet(Triplets) BY EvaluationAssumption
<1>2. IsFiniteSet(closed) BY <1>1, FS_Subset
<1>3. IsFiniteSet({"A", "C"})
  <2>1. IsFiniteSet({"A"}) BY FS_Singleton
  <2>2. IsFiniteSet({"A"} \cup {"C"}) BY <2>1, FS_AddElement
  <2>3. {"A", "C"} = {"A"} \cup {"C"} OBVIOUS
  <2>q. QED BY <2>2, <2>3
<1>4. IsFiniteSet(Triplets \X {"A", "C"}) BY <1>1, <1>3, FS_Product
<1>5. IsFiniteSet(defects) BY <1>4, FS_Subset
<1>6. late \in Nat
  <2>1. MaxLater \in Nat BY EvaluationAssumption
  <2>q. QED BY <2>1
<1>7. Cardinality(closed) \in Nat /\ Cardinality(defects) \in Nat BY <1>2, <1>5, FS_CardinalityType
<1>q. QED BY <1>2, <1>5, <1>6, <1>7

\* So can what the evaluation has, and what it decides on.
LEMMA EvidenceIsFinite ==
    ASSUME EvaluationTyped
    PROVE  /\ IsFiniteSet(eClosed) /\ IsFiniteSet(eDefects) /\ QualityCount \in Nat
           /\ Cardinality(eClosed) \in Nat /\ Cardinality(eDefects) \in Nat /\ eLate \in Nat
           /\ DecisionInput \in Nat
<1>1. eClosed \subseteq Triplets /\ eDefects \subseteq Triplets \X {"A", "C"} /\ eLate \in 0 .. MaxLater
  BY DEF EvaluationTyped
<1>2. DecisionInput \in Nat
  <2>1. Observed(Triplets) \subseteq Triplets BY DEF Observed
  <2>2. IsFiniteSet(Observed(Triplets)) BY <2>1, EvaluationAssumption, FS_Subset
  <2>q. QED BY <2>2, FS_CardinalityType DEF DecisionInput
<1>q. QED BY <1>1, <1>2, EvidenceCounted DEF QualityCount

\* An evaluation decides one of the decisions, and the first stage never to promote.
LEMMA DecisionIsOne ==
    ASSUME NEW stage \in Stages
    PROVE  Decision(stage) \in Decisions /\ (stage = 1 => Decision(stage) # "PROMOTE_BOUNDED")
<1>1. \A second \in Decisions : Later(stage, second) \in Decisions BY DEF Later, Decisions
<1>2. Later(stage, "INSUFFICIENT_EVIDENCE") \in Decisions /\ Later(stage, "CONTINUE") \in Decisions
  BY <1>1 DEF Decisions
<1>3. {"REJECT", "CONTINUE", "PROMOTE_BOUNDED"} \subseteq Decisions BY DEF Decisions
<1>4. Decision(stage) \in Decisions BY <1>2, <1>3 DEF Decision
<1>5. stage = 1 => Decision(stage) \in {"REJECT", "CONTINUE"} BY DEF Decision
<1>q. QED BY <1>4, <1>5

\* Before anything is evaluated.
LEMMA EvaluationInitHolds == ASSUME EvaluationInit PROVE EvaluationInv
<1>1. EvaluationTyped
  <2>1. eHistory \in Seq(HistoryEntry) /\ eHeld \subseteq EvaluationReport BY DEF EvaluationInit
  <2>2. eNewest \in DecidedOn BY DEF EvaluationInit, DecidedOn
  <2>3. eLate \in 0 .. MaxLater BY EvaluationAssumption DEF EvaluationInit
  <2>4. eProfile \in [Triplets -> Profiles \cup {"missing"}] BY DEF EvaluationInit
  <2>q. QED BY <2>1, <2>2, <2>3, <2>4 DEF EvaluationInit, EvaluationTyped
<1>2. EvidenceExists
  <2>1. QualityCount \in Nat BY <1>1, EvidenceIsFinite
  <2>q. QED BY <2>1 DEF EvaluationInit, EvidenceExists
<1>3. FirstLook BY DEF EvaluationInit, FirstLook
<1>4. HistoryEarned BY DEF EvaluationInit, HistoryEarned
<1>q. QED BY <1>1, <1>2, <1>3, <1>4 DEF EvaluationInv

\* Evidence only grows: reports in hand stay backed by it.
LEMMA EvidenceGrows ==
    ASSUME EvaluationInv, EvaluationTyped', QualityCount <= QualityCount',
           UNCHANGED <<eHistory, eNewest, eHeld>>
    PROVE  EvaluationInv'
<1>1. EvaluationTyped /\ EvidenceExists /\ FirstLook /\ HistoryEarned BY DEF EvaluationInv
<1>2. QualityCount \in Nat /\ QualityCount' \in Nat
  <2>1. QualityCount \in Nat BY <1>1, EvidenceIsFinite
  <2>2. eClosed' \subseteq Triplets /\ eDefects' \subseteq Triplets \X {"A", "C"} /\ eLate' \in 0 .. MaxLater
    BY DEF EvaluationTyped
  <2>3. QualityCount' \in Nat BY <2>2, EvidenceCounted DEF QualityCount
  <2>q. QED BY <2>1, <2>3
<1>3. eNewest.quality \in Nat BY <1>1 DEF EvaluationTyped, DecidedOn
<1>4. \A report \in eHeld : report.quality \in Nat BY <1>1 DEF EvaluationTyped, EvaluationReport
<1>5. EvidenceExists' BY <1>1, <1>2, <1>3, <1>4 DEF EvidenceExists
<1>6. FirstLook' BY <1>1 DEF FirstLook
<1>7. HistoryEarned' BY <1>1 DEF HistoryEarned
<1>q. QED BY <1>5, <1>6, <1>7 DEF EvaluationInv

\* What appending one report adds to a history of earned reports.
LEMMA AppendEarned ==
    ASSUME NEW h \in Seq(HistoryEntry), NEW x \in HistoryEntry,
           \A j \in DOMAIN h :
              /\ Monotone(h, j) /\ Looked(h, j)
              /\ h[j].decision = "PROMOTE_BOUNDED" => h[j].stage > 1 /\ NotLate(h, j),
           x.decision = "PROMOTE_BOUNDED" => x.stage > 1,
           h = <<>> => x.stage = 1,
           h # <<>> => LET last == h[Len(h)] IN
              /\ x.stage \in {last.stage, last.stage + 1}
              /\ Terminal(last.decision) => x.stage = last.stage
              /\ x.stage = last.stage => ~(x.decision = "PROMOTE_BOUNDED" /\ CannotPromote(last))
    PROVE  \A j \in DOMAIN Append(h, x) :
              /\ Monotone(Append(h, x), j) /\ Looked(Append(h, x), j)
              /\ Append(h, x)[j].decision = "PROMOTE_BOUNDED" =>
                    Append(h, x)[j].stage > 1 /\ NotLate(Append(h, x), j)
<1>f. /\ Len(h) \in Nat /\ DOMAIN h = 1 .. Len(h) /\ \A i \in DOMAIN h : h[i] \in HistoryEntry
  OBVIOUS
<1>g. PICK g : g = Append(h, x) OBVIOUS
<1>h. /\ DOMAIN g = 1 .. Len(h) + 1 /\ g[Len(h) + 1] = x /\ \A i \in DOMAIN h : g[i] = h[i]
  BY <1>g
<1>s. \A i \in DOMAIN h : h[i].stage \in 1 .. 3 BY <1>f DEF HistoryEntry, Stages
<1>x. x.stage \in 1 .. 3 BY DEF HistoryEntry, Stages
<1>1. ASSUME NEW j \in DOMAIN h
      PROVE  /\ Monotone(g, j) /\ Looked(g, j)
             /\ g[j].decision = "PROMOTE_BOUNDED" => g[j].stage > 1 /\ NotLate(g, j)
  <2>1. g[j] = h[j] /\ \A i \in 1 .. j - 1 : i \in DOMAIN h /\ i + 1 \in DOMAIN h BY <1>f, <1>h
  <2>2. \A i \in 1 .. j - 1 : g[i] = h[i] /\ g[i + 1] = h[i + 1] BY <1>h, <2>1
  <2>3. Monotone(g, j) BY <2>1, <2>2 DEF Monotone
  <2>4. Looked(h, j) OBVIOUS
  <2>5. Looked(g, j)
    <3>1. SUFFICES ASSUME NEW s \in 1 .. h[j].stage - 1
                   PROVE  \E i \in 1 .. j - 1 : /\ g[i].stage = s /\ g[i + 1].stage = s + 1
                                                /\ ~Terminal(g[i].decision)
      BY <2>1 DEF Looked
    <3>2. PICK i \in 1 .. j - 1 : /\ h[i].stage = s /\ h[i + 1].stage = s + 1
                                  /\ ~Terminal(h[i].decision)
      BY <2>4, <3>1 DEF Looked
    <3>3. g[i] = h[i] /\ g[i + 1] = h[i + 1] BY <2>2
    <3>q. QED BY <3>2, <3>3
  <2>6. NotLate(h, j) => NotLate(g, j) BY <2>2 DEF NotLate
  <2>q. QED BY <2>1, <2>3, <2>5, <2>6
<1>2. CASE h = <<>>
  <2>1. DOMAIN g = {1} /\ g[1] = x /\ x.stage = 1 BY <1>2, <1>h
  <2>2. Monotone(g, 1) /\ NotLate(g, 1) BY DEF Monotone, NotLate
  <2>3. Looked(g, 1) BY <2>1 DEF Looked
  <2>q. QED BY <1>g, <2>1, <2>2, <2>3
<1>3. CASE h # <<>>
  <2>k. PICK n : n = Len(h) OBVIOUS
  <2>n. n \in DOMAIN h /\ n \in Nat /\ n >= 1 /\ (n + 1) - 1 = n BY <1>3, <1>f, <2>k
  <2>l. /\ x.stage \in {h[n].stage, h[n].stage + 1}
        /\ Terminal(h[n].decision) => x.stage = h[n].stage
        /\ x.stage = h[n].stage => ~(x.decision = "PROMOTE_BOUNDED" /\ CannotPromote(h[n]))
    BY <1>3, <2>k
  <2>i. /\ \A i \in 1 .. n - 1 : h[i].stage <= h[n].stage
        /\ Looked(h, n) /\ (h[n].decision = "PROMOTE_BOUNDED" => NotLate(h, n))
    BY <2>n DEF Monotone
  <2>g. g[n + 1] = x /\ g[n] = h[n] /\ \A i \in 1 .. n : g[i] = h[i] BY <1>f, <1>h, <2>n, <2>k
  <2>m. \A i \in 1 .. n : h[i].stage <= h[n].stage
    <3>1. \A i \in 1 .. n : i \in 1 .. n - 1 \/ i = n BY <2>n
    <3>2. h[n].stage <= h[n].stage BY <1>s, <2>n
    <3>q. QED BY <3>1, <3>2, <2>i
  <2>1. Monotone(g, n + 1)
    <3>1. \A i \in 1 .. n : h[i].stage \in 1 .. 3 BY <1>s, <1>f, <2>k
    <3>2. h[n].stage <= x.stage BY <1>s, <2>n, <2>l
    <3>4. \A a, b, c \in 1 .. 3 : a <= b /\ b <= c => a <= c OBVIOUS
    <3>5. h[n].stage \in 1 .. 3 BY <1>s, <2>n
    <3>3. \A i \in 1 .. n : h[i].stage <= x.stage BY <3>1, <3>2, <3>4, <3>5, <2>m, <1>x
    <3>q. QED BY <3>3, <2>g, <2>n DEF Monotone
  <2>2. Looked(g, n + 1)
    <3>1. SUFFICES ASSUME NEW s \in 1 .. x.stage - 1
                   PROVE  \E i \in 1 .. n : /\ g[i].stage = s /\ g[i + 1].stage = s + 1
                                            /\ ~Terminal(g[i].decision)
      <4>1. g[n + 1].stage = x.stage /\ 1 .. (n + 1) - 1 = 1 .. n BY <2>g, <2>n
      <4>q. QED BY <4>1 DEF Looked
    <3>2. s \in 1 .. h[n].stage - 1 \/ (s = h[n].stage /\ x.stage = s + 1)
      BY <1>s, <1>x, <2>n, <2>l
    <3>3. CASE s \in 1 .. h[n].stage - 1
      <4>1. PICK i \in 1 .. n - 1 : /\ h[i].stage = s /\ h[i + 1].stage = s + 1
                                    /\ ~Terminal(h[i].decision)
        BY <3>3, <2>i DEF Looked
      <4>2. i \in 1 .. n /\ i + 1 \in 1 .. n BY <2>n
      <4>3. g[i] = h[i] /\ g[i + 1] = h[i + 1] BY <4>2, <2>g
      <4>q. QED BY <4>1, <4>2, <4>3
    <3>4. CASE s = h[n].stage /\ x.stage = s + 1
      <4>1. ~Terminal(h[n].decision) BY <3>4, <2>l, <1>s, <2>n
      <4>2. n \in 1 .. n BY <2>n
      <4>q. QED BY <3>4, <4>1, <4>2, <2>g
    <3>q. QED BY <3>2, <3>3, <3>4
  <2>3. x.decision = "PROMOTE_BOUNDED" => NotLate(g, n + 1)
    <3>1. SUFFICES ASSUME x.decision = "PROMOTE_BOUNDED", NEW i \in 1 .. n, h[i].stage = 3
                   PROVE  h[i].decision = "PROMOTE_BOUNDED"
      BY <2>g, <2>n DEF NotLate
    <3>2. h[n].stage = 3
      <4>1. h[n].stage \in 1 .. 3 /\ h[i].stage <= h[n].stage BY <1>s, <2>n, <2>m
      <4>q. QED BY <3>1, <4>1
    <3>3. x.stage = h[n].stage
      <4>1. x.stage = 3 \/ x.stage = 4 BY <3>2, <2>l
      <4>q. QED BY <4>1, <3>2, <1>x
    <3>4. h[n].decision = "PROMOTE_BOUNDED" BY <3>1, <3>2, <3>3, <2>l DEF CannotPromote
    <3>5. NotLate(h, n) BY <3>4, <2>i
    <3>6. i = n \/ i \in 1 .. n - 1 BY <2>n
    <3>q. QED BY <3>1, <3>4, <3>5, <3>6 DEF NotLate
  <2>4. /\ Monotone(g, n + 1) /\ Looked(g, n + 1)
        /\ g[n + 1].decision = "PROMOTE_BOUNDED" => g[n + 1].stage > 1 /\ NotLate(g, n + 1)
    BY <2>1, <2>2, <2>3, <2>g
  <2>5. \A j \in 1 .. n + 1 : j \in DOMAIN h \/ j = n + 1 BY <1>f, <2>k
  <2>6. DOMAIN g = 1 .. n + 1 BY <1>h, <2>k
  <2>q. QED BY <1>1, <1>g, <2>4, <2>5, <2>6
<1>q. QED BY <1>2, <1>3

\* Every step of the evaluation keeps all of it.
LEMMA EvaluationInvKept == ASSUME EvaluationInv, [EvaluationNext]_evaluationVars PROVE EvaluationInv'
<1>1. EvaluationTyped /\ EvidenceExists /\ FirstLook /\ HistoryEarned BY DEF EvaluationInv
<1>t. /\ eProfile \in [Triplets -> Profiles \cup {"missing"}]
      /\ eClosed \subseteq Triplets /\ eDefects \subseteq Triplets \X {"A", "C"}
      /\ eLate \in 0 .. MaxLater /\ eHistory \in Seq(HistoryEntry)
      /\ eNewest \in DecidedOn /\ eHeld \subseteq EvaluationReport
  BY <1>1 DEF EvaluationTyped
<1>c. /\ IsFiniteSet(eClosed) /\ IsFiniteSet(eDefects) /\ QualityCount \in Nat
      /\ Cardinality(eClosed) \in Nat /\ Cardinality(eDefects) \in Nat /\ eLate \in Nat
      /\ DecisionInput \in Nat
  BY <1>1, EvidenceIsFinite
<1>r. \A report \in eHeld : report \in EvaluationReport /\ report.quality \in Nat
  BY <1>t DEF EvaluationReport
<1>2. ASSUME NEW t \in Triplets, NEW p \in Profiles, Observe(t, p) PROVE EvaluationInv'
  <2>1. /\ eProfile' = [eProfile EXCEPT ![t] = p]
        /\ UNCHANGED <<eClosed, eDefects, eLate, eHistory, eNewest, eHeld>> BY <1>2 DEF Observe
  <2>2. eProfile' \in [Triplets -> Profiles \cup {"missing"}] BY <1>t, <2>1
  <2>3. EvaluationTyped' BY <1>t, <2>1, <2>2 DEF EvaluationTyped
  <2>4. QualityCount' = QualityCount BY <2>1 DEF QualityCount
  <2>q. QED BY <1>c, <2>1, <2>3, <2>4, EvidenceGrows
<1>3. ASSUME NEW t \in Triplets, WindowCloses(t) PROVE EvaluationInv'
  <2>1. /\ t \notin eClosed /\ eClosed' = eClosed \cup {t}
        /\ UNCHANGED <<eProfile, eDefects, eLate, eHistory, eNewest, eHeld>> BY <1>3 DEF WindowCloses
  <2>2. EvaluationTyped' BY <1>t, <2>1 DEF EvaluationTyped
  <2>3. Cardinality(eClosed') = Cardinality(eClosed) + 1 BY <1>c, <2>1, FS_AddElement
  <2>4. QualityCount <= QualityCount' BY <1>c, <2>1, <2>3 DEF QualityCount
  <2>q. QED BY <2>1, <2>2, <2>4, EvidenceGrows
<1>4. ASSUME NEW t \in Triplets, NEW arm \in {"A", "C"}, DefectFound(t, arm) PROVE EvaluationInv'
  <2>1. /\ eDefects' = eDefects \cup {<<t, arm>>}
        /\ UNCHANGED <<eProfile, eClosed, eLate, eHistory, eNewest, eHeld>> BY <1>4 DEF DefectFound
  <2>2. EvaluationTyped' BY <1>t, <2>1 DEF EvaluationTyped
  <2>3. \/ Cardinality(eDefects') = Cardinality(eDefects) + 1
        \/ Cardinality(eDefects') = Cardinality(eDefects) BY <1>c, <2>1, FS_AddElement
  <2>4. QualityCount <= QualityCount' BY <1>c, <2>1, <2>3 DEF QualityCount
  <2>q. QED BY <2>1, <2>2, <2>4, EvidenceGrows
<1>5. CASE LateEvidence
  <2>1. /\ Cardinality(eDefects) + eLate < MaxLater /\ eLate' = eLate + 1
        /\ UNCHANGED <<eProfile, eClosed, eDefects, eHistory, eNewest, eHeld>> BY <1>5 DEF LateEvidence
  <2>2. MaxLater \in Nat BY EvaluationAssumption
  <2>3. eLate' \in 0 .. MaxLater BY <1>c, <2>1, <2>2
  <2>4. EvaluationTyped' BY <1>t, <2>1, <2>3 DEF EvaluationTyped
  <2>5. QualityCount <= QualityCount' BY <1>c, <2>1 DEF QualityCount
  <2>q. QED BY <2>1, <2>4, <2>5, EvidenceGrows
<1>6. ASSUME NEW stage \in Stages, EvaluatePilot(stage) PROVE EvaluationInv'
  <2>1. PICK report : /\ report = [version |-> Len(eHistory) + 1, stage |-> stage,
                                   decision |-> Decision(stage), input |-> DecisionInput,
                                   quality |-> QualityCount, late |-> eLate]
                      /\ Len(eHistory) < MaxVersions /\ eHeld' = eHeld \cup {report}
                      /\ eHistory = <<>> => stage = 1
                      /\ UNCHANGED <<eProfile, eClosed, eDefects, eLate, eHistory, eNewest>>
    BY <1>6 DEF EvaluatePilot
  <2>2. Len(eHistory) + 1 \in 1 .. MaxVersions
    <3>1. MaxVersions \in Nat /\ Len(eHistory) \in Nat BY <1>t, EvaluationAssumption
    <3>q. QED BY <2>1, <3>1
  <2>3. Decision(stage) \in Decisions /\ (stage = 1 => Decision(stage) # "PROMOTE_BOUNDED")
    BY DecisionIsOne
  <2>4. report \in EvaluationReport BY <1>c, <2>1, <2>2, <2>3 DEF EvaluationReport
  <2>5. report.stage = stage /\ report.decision = Decision(stage) /\ report.quality = QualityCount
    BY <2>1
  <2>6. EvaluationTyped' BY <1>t, <2>1, <2>4 DEF EvaluationTyped
  <2>7. QualityCount' = QualityCount BY <2>1 DEF QualityCount
  <2>8. EvidenceExists' BY <1>1, <1>c, <2>1, <2>5, <2>7 DEF EvidenceExists
  <2>9. report.decision = "PROMOTE_BOUNDED" => report.stage > 1 BY <2>3, <2>5 DEF Stages
  <2>10. FirstLook' BY <1>1, <2>1, <2>5, <2>9 DEF FirstLook
  <2>11. HistoryEarned' BY <1>1, <2>1 DEF HistoryEarned
  <2>q. QED BY <2>6, <2>8, <2>10, <2>11 DEF EvaluationInv
<1>7. ASSUME NEW report \in eHeld, AppendEvaluation(report) PROVE EvaluationInv'
  <2>1. /\ eHeld' = eHeld \ {report} /\ UNCHANGED <<eProfile, eClosed, eDefects, eLate>>
    BY <1>7 DEF AppendEvaluation
  <2>2. QualityCount' = QualityCount BY <2>1 DEF QualityCount
  <2>r. report \in EvaluationReport /\ report.quality \in Nat BY <1>r
  <2>3. CASE ~Appendable(report)
    <3>1. UNCHANGED <<eHistory, eNewest>> BY <1>7, <2>3 DEF AppendEvaluation
    <3>2. EvaluationTyped' BY <1>t, <2>1, <3>1 DEF EvaluationTyped
    <3>3. EvidenceExists' BY <1>1, <2>1, <2>2, <3>1 DEF EvidenceExists
    <3>4. FirstLook' BY <1>1, <2>1, <3>1 DEF FirstLook
    <3>5. HistoryEarned' BY <1>1, <3>1 DEF HistoryEarned
    <3>q. QED BY <3>2, <3>3, <3>4, <3>5 DEF EvaluationInv
  <2>4. CASE Appendable(report)
    <3>1. PICK x : /\ x = [stage |-> report.stage, decision |-> report.decision]
                   /\ eHistory' = Append(eHistory, x)
                   /\ eNewest' = [input |-> report.input, quality |-> report.quality,
                                  late |-> report.late]
      BY <1>7, <2>4 DEF AppendEvaluation
    <3>2. x \in HistoryEntry /\ x.stage = report.stage /\ x.decision = report.decision
      BY <2>r, <3>1 DEF HistoryEntry, EvaluationReport
    <3>3. eNewest' \in DecidedOn /\ eNewest'.quality = report.quality
      BY <2>r, <3>1 DEF DecidedOn, EvaluationReport
    <3>4. eHistory' \in Seq(HistoryEntry) /\ eHistory' # <<>> BY <1>t, <3>1, <3>2
    <3>5. EvaluationTyped' BY <1>t, <2>1, <3>3, <3>4 DEF EvaluationTyped
    <3>6. EvidenceExists' BY <1>1, <2>1, <2>2, <3>3 DEF EvidenceExists
    <3>7. FirstLook' BY <1>1, <2>1, <3>4 DEF FirstLook
    <3>8. HistoryEarned'
      <4>1. x.decision = "PROMOTE_BOUNDED" => x.stage > 1 BY <1>1, <3>2 DEF FirstLook
      <4>2. eHistory = <<>> => x.stage = 1 BY <1>1, <3>2 DEF FirstLook
      <4>3. ASSUME eHistory # <<>>
            PROVE  LET last == eHistory[Len(eHistory)] IN
                   /\ x.stage \in {last.stage, last.stage + 1}
                   /\ Terminal(last.decision) => x.stage = last.stage
                   /\ x.stage = last.stage =>
                         ~(x.decision = "PROMOTE_BOUNDED" /\ CannotPromote(last))
        <5>1. Supersedes(Newest, report) BY <2>4, <4>3 DEF Appendable
        <5>2. /\ Newest.stage = eHistory[Len(eHistory)].stage
              /\ Newest.decision = eHistory[Len(eHistory)].decision BY DEF Newest
        <5>3. CannotPromote(Newest) <=> CannotPromote(eHistory[Len(eHistory)])
          BY <5>2 DEF CannotPromote
        <5>4. /\ report.stage \in {Newest.stage, Newest.stage + 1}
              /\ Terminal(Newest.decision) => report.stage = Newest.stage
              /\ report.stage = Newest.stage =>
                    ~(report.decision = "PROMOTE_BOUNDED" /\ CannotPromote(Newest))
          BY <5>1 DEF Supersedes
        <5>q. QED BY <3>2, <5>2, <5>3, <5>4
      <4>4. \A j \in DOMAIN eHistory :
               /\ Monotone(eHistory, j) /\ Looked(eHistory, j)
               /\ eHistory[j].decision = "PROMOTE_BOUNDED" =>
                     eHistory[j].stage > 1 /\ NotLate(eHistory, j)
        BY <1>1 DEF HistoryEarned
      <4>5. \A j \in DOMAIN Append(eHistory, x) :
               /\ Monotone(Append(eHistory, x), j) /\ Looked(Append(eHistory, x), j)
               /\ Append(eHistory, x)[j].decision = "PROMOTE_BOUNDED" =>
                     Append(eHistory, x)[j].stage > 1 /\ NotLate(Append(eHistory, x), j)
        BY <1>t, <3>2, <4>1, <4>2, <4>3, <4>4, AppendEarned
      <4>q. QED BY <3>1, <4>5 DEF HistoryEarned
    <3>q. QED BY <3>5, <3>6, <3>7, <3>8 DEF EvaluationInv
  <2>q. QED BY <2>3, <2>4
<1>8. CASE UNCHANGED evaluationVars
  <2>1. UNCHANGED <<eProfile, eClosed, eDefects, eLate, eHistory, eNewest, eHeld>>
    BY <1>8 DEF evaluationVars
  <2>2. EvaluationTyped' BY <1>t, <2>1 DEF EvaluationTyped
  <2>3. QualityCount' = QualityCount BY <2>1 DEF QualityCount
  <2>q. QED BY <1>c, <2>1, <2>2, <2>3, EvidenceGrows
<1>q. QED BY <1>2, <1>3, <1>4, <1>5, <1>6, <1>7, <1>8 DEF EvaluationNext

\* Every variable of the evaluation of the pilot has its type (evaluatePilot of evaluate.ts).
THEOREM EvaluationIsTyped == EvaluationSpec => []EvaluationTypeOK
<1>1. EvaluationInv /\ [EvaluationNext]_evaluationVars => EvaluationInv' BY EvaluationInvKept
<1>2. EvaluationInv => EvaluationTypeOK
  BY DEF EvaluationInv, EvaluationTyped, EvaluationTypeOK, HistoryEntry, DecidedOn
<1>q. QED BY <1>1, <1>2, EvaluationInitHolds, PTL DEF EvaluationSpec

\* For any number of triplets and profiles and however late evidence arrives, the chain of
\* reports looks at every stage before the next, promotes only past the first and not after a
\* stage that cannot promote, and counts no quality evidence that was not recorded
\* (validateHistoryTransition, evaluatePilot).
THEOREM PromotionsEarned == EvaluationSpec => []PromotionsAreEarned
<1>1. EvaluationInv /\ [EvaluationNext]_evaluationVars => EvaluationInv' BY EvaluationInvKept
<1>2. EvaluationInv => PromotionsAreEarned
  BY DEF EvaluationInv, EvidenceExists, HistoryEarned, Monotone, Looked, NotLate, PromotionsAreEarned
<1>q. QED BY <1>1, <1>2, EvaluationInitHolds, PTL DEF EvaluationSpec

-----------------------------------------------------------------------------
(* Recursion and induction over numbers. *)

\* Induction over the numbers up to N, on the set of those for which a claim holds.
LEMMA UpTo ==
    ASSUME NEW N \in Nat, NEW S, 0 \in S, \A n \in 0 .. N - 1 : n \in S => n + 1 \in S
    PROVE  \A n \in 0 .. N : n \in S
<1> DEFINE R == {ss \in Nat \X Nat : ss[1] < ss[2]}
           T == (0 .. N) \ S
<1>1. IsWellFoundedOn(R, Nat) BY NatLessThanWellFounded DEF OpToRel
<1>2. SUFFICES ASSUME T # {} PROVE FALSE OBVIOUS
<1>3. PICK m \in T : \A y \in T : ~ (<<y, m>> \in R)
  <2>1. T \subseteq Nat OBVIOUS
  <2> HIDE DEF R, T
  <2> QED BY <1>1, <1>2, <2>1, WFMin
<1>4. m \in 1 .. N /\ m \notin S OBVIOUS
<1>5. m - 1 \in 0 .. N - 1 /\ m - 1 + 1 = m BY <1>4
<1>6. m - 1 \in S
  <2>1. SUFFICES ASSUME m - 1 \in T PROVE FALSE BY <1>5
  <2>2. <<m - 1, m>> \in R BY <1>4, <1>5
  <2> QED BY <2>1, <2>2, <1>3
<1> QED BY <1>4, <1>5, <1>6

\* Something takes the steps of a recursion over the numbers up to N, through the elements of S.
HasRecursion(N, S, first, step) ==
    \E f \in [0 .. N -> S] : f[0] = first /\ \A n \in 1 .. N : f[n] = step[<<n, f[n - 1]>>]

\* What a recursion over the numbers up to N computes exists, its step being a function.
LEMMA RecursionExists ==
    ASSUME NEW N \in Nat, NEW S, NEW first \in S, NEW step \in [(1 .. N) \X S -> S]
    PROVE  HasRecursion(N, S, first, step)
<1> DEFINE Upto(n, f) == f[0] = first /\ \A k \in 1 .. n : f[k] = step[<<k, f[k - 1]>>]
           Done == {n \in 0 .. N : \E f \in [0 .. N -> S] : Upto(n, f)}
<1>1. 0 \in Done
  <2>1. [n \in 0 .. N |-> first] \in [0 .. N -> S] /\ Upto(0, [n \in 0 .. N |-> first]) OBVIOUS
  <2>2. \E f \in [0 .. N -> S] : Upto(0, f) BY <2>1
  <2> QED BY <2>2
<1>2. ASSUME NEW n \in 0 .. N - 1, n \in Done PROVE n + 1 \in Done
  <2>1. PICK f \in [0 .. N -> S] : Upto(n, f) BY <1>2
  <2>2. n \in 0 .. N /\ n + 1 \in 1 .. N OBVIOUS
  <2>3. f[n] \in S BY <2>2
  <2>4. <<n + 1, f[n]>> \in (1 .. N) \X S BY <2>2, <2>3
  <2>5. PICK next \in S : next = step[<<n + 1, f[n]>>] BY <2>4
  <2>6. PICK g \in [0 .. N -> S] : g = [f EXCEPT ![n + 1] = next] OBVIOUS
  <2>7. \A k \in 0 .. N : g[k] = IF k = n + 1 THEN next ELSE f[k] BY <2>6
  <2>8. g[0] = first BY <2>1, <2>2, <2>7
  <2>9. ASSUME NEW k \in 1 .. n + 1 PROVE g[k] = step[<<k, g[k - 1]>>]
    <3>1. k - 1 \in 0 .. n /\ k \in 0 .. N /\ k - 1 \in 0 .. N BY <2>2
    <3>2. g[k - 1] = f[k - 1] BY <3>1, <2>7
    <3>3. CASE k = n + 1
      <4>1. k - 1 = n BY <3>3
      <4> QED BY <3>1, <3>2, <3>3, <4>1, <2>5, <2>7
    <3>4. CASE k \in 1 .. n BY <3>1, <3>2, <3>4, <2>1, <2>7
    <3> QED BY <3>3, <3>4
  <2>10. Upto(n + 1, g) BY <2>8, <2>9
  <2>11. \E h \in [0 .. N -> S] : Upto(n + 1, h) BY <2>10
  <2> QED BY <2>2, <2>11
<1>3. N \in Done
  <2> HIDE DEF Done
  <2> QED BY <1>1, <1>2, UpTo
<1> QED BY <1>3 DEF HasRecursion

-----------------------------------------------------------------------------
(* The event log and its projection. *)

NumberedAt(log, i) ==
    log[i].sequence = Cardinality({j \in 1 .. i : log[j].block = log[i].block})
LogOK(log) ==
    /\ log \in Seq(LoggedEvent) /\ Len(log) <= MaxLog
    /\ \A i \in DOMAIN log : log[i].supersedes < i /\ log[i].invalidates < i /\ NumberedAt(log, i)

\* The log refers to earlier events only, and numbers the events of a block without a gap.
EventInv ==
    LogOK(eventLog) /\ lastAppend \in {"none", "appended", "repeated", "conflict", "refused"}

\* A log stays one when an event is appended that carries the next number and known references.
LEMMA AppendKeeps ==
    ASSUME NEW log, LogOK(log), NEW e \in LoggedEvent, Len(log) < MaxLog,
           e.supersedes < Len(log) + 1, e.invalidates < Len(log) + 1,
           e.sequence = Cardinality({i \in DOMAIN log : log[i].block = e.block}) + 1
    PROVE  LogOK(Append(log, e))
<1>0. MaxLog \in Nat BY EventStoreAssumption
<1>1. log \in Seq(LoggedEvent) /\ Len(log) \in Nat /\ DOMAIN log = 1 .. Len(log) BY DEF LogOK
<1>2. PICK new : new = Append(log, e) OBVIOUS
<1>3. /\ new \in Seq(LoggedEvent) /\ Len(new) = Len(log) + 1 /\ DOMAIN new = 1 .. Len(log) + 1
      /\ \A i \in 1 .. Len(log) : new[i] = log[i]
      /\ new[Len(log) + 1] = e
  BY <1>1, <1>2
<1>4. ASSUME NEW i \in 1 .. Len(log)
      PROVE  new[i].supersedes < i /\ new[i].invalidates < i /\ NumberedAt(new, i)
  <2>1. log[i].supersedes < i /\ log[i].invalidates < i /\ NumberedAt(log, i) BY <1>1 DEF LogOK
  <2>2. \A j \in 1 .. i : j \in 1 .. Len(log) BY <1>1
  <2>3. {j \in 1 .. i : new[j].block = new[i].block} = {j \in 1 .. i : log[j].block = log[i].block}
    BY <1>3, <2>2
  <2> QED BY <1>3, <2>1, <2>3 DEF NumberedAt
<1>5. NumberedAt(new, Len(log) + 1)
  <2> DEFINE T == {i \in DOMAIN log : log[i].block = e.block}
  <2>1. {j \in 1 .. Len(log) + 1 : new[j].block = e.block} = T \cup {Len(log) + 1}
    <3>1. \A j : j \in 1 .. Len(log) + 1 <=> j \in 1 .. Len(log) \/ j = Len(log) + 1 BY <1>1
    <3> QED BY <3>1, <1>1, <1>3
  <2>2. IsFiniteSet(T)
    <3>1. IsFiniteSet(1 .. Len(log))
      <4>1. 1 \in Int /\ Len(log) \in Int BY <1>1
      <4> QED BY ONLY <4>1, FS_Interval
    <3> QED BY <3>1, <1>1, FS_Subset
  <2>3. Len(log) + 1 \notin T BY <1>1
  <2>4. Cardinality(T \cup {Len(log) + 1}) = Cardinality(T) + 1
    <3> HIDE DEF T
    <3> QED BY <2>2, <2>3, FS_AddElement
  <2> QED BY <1>3, <2>1, <2>4 DEF NumberedAt
<1>6. ASSUME NEW i \in 1 .. Len(log) + 1
      PROVE  new[i].supersedes < i /\ new[i].invalidates < i /\ NumberedAt(new, i)
  <2>1. CASE i = Len(log) + 1 BY <1>3, <1>5, <2>1
  <2>2. CASE i \in 1 .. Len(log) BY <1>4, <2>2
  <2> QED BY <1>1, <2>1, <2>2
<1>7. Len(new) <= MaxLog BY <1>0, <1>1, <1>3
<1> QED BY <1>2, <1>3, <1>6, <1>7 DEF LogOK

\* appendEvent keeps the log in order, whatever identity and event it is given.
LEMMA EventInvHolds == EventSpec => []EventInv
<1>0. MaxLog \in Nat BY EventStoreAssumption
<1>1. ASSUME EventInit PROVE EventInv
  <2>1. eventLog = <<>> /\ lastAppend = "none" BY <1>1 DEF EventInit
  <2>2. LogOK(<<>>) BY <1>0 DEF LogOK
  <2> QED BY <2>1, <2>2 DEF EventInv
<1>2. ASSUME EventInv, [EventNext]_eventVars PROVE EventInv'
  <2>0. LogOK(eventLog) BY <1>2 DEF EventInv
  <2>l. /\ eventLog \in Seq(LoggedEvent) /\ Len(eventLog) \in Nat /\ DOMAIN eventLog = 1 .. Len(eventLog)
    BY <2>0 DEF LogOK
  <2>1. ASSUME NEW id \in DOMAIN eventLog, NEW e, AppendEvent(id, e) PROVE EventInv'
    <3>1. lastAppend' \in {"repeated", "conflict"} /\ eventLog' = eventLog BY <2>1 DEF AppendEvent
    <3> QED BY <2>0, <3>1 DEF EventInv
  <2>2. ASSUME Len(eventLog) < MaxLog, NEW block \in LogBlocks, NEW s \in 0 .. Len(eventLog) + 1,
               NEW v \in 0 .. Len(eventLog) + 1, NEW n \in {1, ExpectedSequence(block)},
               AppendEvent(Len(eventLog) + 1, [block |-> block, sequence |-> n, supersedes |-> s, invalidates |-> v])
        PROVE  EventInv'
    <3>1. PICK e : e = [block |-> block, sequence |-> n, supersedes |-> s, invalidates |-> v] OBVIOUS
    <3>2. Len(eventLog) + 1 \notin DOMAIN eventLog BY <2>l
    <3>3. CASE n # ExpectedSequence(block) \/ ~ReferencesKnown(Len(eventLog) + 1, e)
      <4>1. lastAppend' = "refused" /\ eventLog' = eventLog BY <2>2, <3>1, <3>2, <3>3 DEF AppendEvent
      <4> QED BY <2>0, <4>1 DEF EventInv
    <3>4. CASE n = ExpectedSequence(block) /\ ReferencesKnown(Len(eventLog) + 1, e)
      <4>1. lastAppend' = "appended" /\ eventLog' = Append(eventLog, e)
        BY <2>2, <3>1, <3>2, <3>4 DEF AppendEvent
      <4>2. s < Len(eventLog) + 1 /\ v < Len(eventLog) + 1 BY <3>1, <3>4 DEF ReferencesKnown
      <4>3. n \in 1 .. MaxLog
        <5> DEFINE T == {i \in DOMAIN eventLog : eventLog[i].block = block}
        <5>1. IsFiniteSet(1 .. Len(eventLog)) /\ Cardinality(1 .. Len(eventLog)) = Len(eventLog)
          <6>1. 1 \in Int /\ Len(eventLog) \in Int BY <2>l
          <6>2. \A b \in Int : IsFiniteSet(1 .. b) /\ Cardinality(1 .. b) = IF 1 > b THEN 0 ELSE b - 1 + 1
            BY <6>1, FS_Interval
          <6> QED BY <6>1, <6>2, <2>l
        <5>2. T \subseteq 1 .. Len(eventLog) BY <2>l
        <5>3. IsFiniteSet(T) /\ Cardinality(T) <= Len(eventLog) BY <5>1, <5>2, FS_Subset
        <5>4. Cardinality(T) \in Nat BY <5>3, FS_CardinalityType
        <5>5. n = Cardinality(T) + 1 BY <3>4 DEF ExpectedSequence
        <5> QED BY <2>2, <2>l, <1>0, <5>3, <5>4, <5>5
      <4>4. s \in 0 .. MaxLog /\ v \in 0 .. MaxLog BY <1>0, <2>l, <2>2, <4>2
      <4>5. e \in LoggedEvent BY <3>1, <4>3, <4>4 DEF LoggedEvent
      <4>6. /\ e.supersedes < Len(eventLog) + 1 /\ e.invalidates < Len(eventLog) + 1
            /\ e.sequence = Cardinality({i \in DOMAIN eventLog : eventLog[i].block = e.block}) + 1
        BY <3>1, <3>4, <4>2 DEF ExpectedSequence
      <4>7. LogOK(Append(eventLog, e)) BY <2>0, <2>2, <4>5, <4>6, AppendKeeps
      <4> QED BY <4>1, <4>7 DEF EventInv
    <3> QED BY <3>3, <3>4
  <2>3. CASE UNCHANGED eventVars BY <1>2, <2>3 DEF eventVars, EventInv
  <2> QED BY <1>2, <2>1, <2>2, <2>3 DEF EventNext
<1> QED BY <1>1, <1>2, PTL DEF EventSpec

\* The two passes of activeEvents take one step after the other.
LEMMA PassesRun ==
    ASSUME LogOK(eventLog)
    PROVE  /\ InvalidatedFrom[Len(eventLog) + 1] = {}
           /\ \A i \in 1 .. Len(eventLog) : InvalidatedFrom[i] = TakenOut(InvalidatedFrom[i + 1], i)
           /\ InactiveUpTo[0] = Invalidated
           /\ \A i \in 1 .. Len(eventLog) : InactiveUpTo[i] = Superseding(InactiveUpTo[i - 1], i)
<1>0. PICK N \in Nat : N = Len(eventLog) BY DEF LogOK
<1>e. /\ DOMAIN eventLog = 1 .. N
      /\ \A i \in 1 .. N : eventLog[i].supersedes \in Nat /\ eventLog[i].invalidates \in Nat
  <2>1. eventLog \in Seq(LoggedEvent) BY DEF LogOK
  <2>2. DOMAIN eventLog = 1 .. N /\ \A i \in 1 .. N : eventLog[i] \in LoggedEvent BY <1>0, <2>1
  <2>3. \A e \in LoggedEvent : e.supersedes \in Nat /\ e.invalidates \in Nat
    BY EventStoreAssumption DEF LoggedEvent
  <2> QED BY <2>2, <2>3
<1>1. \A s \in SUBSET Nat : \A i \in 1 .. N : TakenOut(s, i) \in SUBSET Nat /\ Superseding(s, i) \in SUBSET Nat
  BY <1>e DEF TakenOut, Superseding
<1>2. /\ InvalidatedFrom[N + 1] = {}
      /\ InvalidatedFrom \in [1 .. N + 1 -> SUBSET Nat]
      /\ \A i \in 1 .. N : InvalidatedFrom[i] = TakenOut(InvalidatedFrom[i + 1], i)
  <2> DEFINE Step == [p \in (1 .. N) \X SUBSET Nat |-> TakenOut(p[2], N + 1 - p[1])]
             IsPass(f) == f = [i \in 1 .. N + 1 |-> IF i > N THEN {} ELSE TakenOut(f[i + 1], i)]
  <2>1. Step \in [(1 .. N) \X SUBSET Nat -> SUBSET Nat]
    <3>1. \A n \in 1 .. N : N + 1 - n \in 1 .. N OBVIOUS
    <3> QED BY <3>1, <1>1
  <2>2. PICK g \in [0 .. N -> SUBSET Nat] : g[0] = {} /\ \A n \in 1 .. N : g[n] = Step[<<n, g[n - 1]>>]
    <3> HIDE DEF Step
    <3>0. {} \in SUBSET Nat OBVIOUS
    <3>1. HasRecursion(N, SUBSET Nat, {}, Step) BY <2>1, <3>0, RecursionExists
    <3> QED BY <3>1 DEF HasRecursion
  <2>3. PICK f \in [1 .. N + 1 -> SUBSET Nat] : f = [i \in 1 .. N + 1 |-> g[N + 1 - i]]
    <3>1. \A i \in 1 .. N + 1 : N + 1 - i \in 0 .. N OBVIOUS
    <3> QED BY <3>1
  <2>4. f[N + 1] = {} BY <2>2, <2>3
  <2>5. ASSUME NEW i \in 1 .. N PROVE f[i] = TakenOut(f[i + 1], i)
    <3>1. PICK n \in 1 .. N : n = N + 1 - i OBVIOUS
    <3>2. i \in 1 .. N + 1 /\ i + 1 \in 1 .. N + 1 /\ N + 1 - (i + 1) = n - 1 /\ N + 1 - n = i /\ n - 1 \in 0 .. N
      BY <3>1
    <3>3. f[i] = g[n] /\ f[i + 1] = g[n - 1] BY <2>3, <3>1, <3>2
    <3>4. <<n, g[n - 1]>> \in (1 .. N) \X SUBSET Nat BY <3>2
    <3>5. Step[<<n, g[n - 1]>>] = TakenOut(g[n - 1], i) BY <3>2, <3>4
    <3>6. g[n] = Step[<<n, g[n - 1]>>] BY <2>2
    <3> QED BY <3>3, <3>5, <3>6
  <2>6. IsPass(f)
    <3>1. \A i \in 1 .. N + 1 : f[i] = IF i > N THEN {} ELSE TakenOut(f[i + 1], i) BY <2>4, <2>5
    <3> QED BY <3>1
  <2>7. InvalidatedFrom = CHOOSE h : IsPass(h) BY <1>0 DEF InvalidatedFrom
  <2>8. IsPass(InvalidatedFrom)
    <3> HIDE DEF IsPass
    <3> QED BY <2>6, <2>7
  <2>9. \A i \in 1 .. N + 1 : InvalidatedFrom[i] = IF i > N THEN {} ELSE TakenOut(InvalidatedFrom[i + 1], i)
    BY <2>8
  <2>10. InvalidatedFrom[N + 1] = {} /\ \A i \in 1 .. N : InvalidatedFrom[i] = TakenOut(InvalidatedFrom[i + 1], i)
    BY <2>9
  <2>11. \A n \in 0 .. N : InvalidatedFrom[N + 1 - n] \in SUBSET Nat
    <3> DEFINE S == {n \in 0 .. N : InvalidatedFrom[N + 1 - n] \in SUBSET Nat}
    <3>1. 0 \in S BY <2>10
    <3>2. ASSUME NEW n \in 0 .. N - 1, n \in S PROVE n + 1 \in S
      <4>1. PICK i \in 1 .. N : i = N + 1 - (n + 1) /\ i + 1 = N + 1 - n OBVIOUS
      <4>2. InvalidatedFrom[i + 1] \in SUBSET Nat BY <3>2, <4>1
      <4>3. InvalidatedFrom[i] = TakenOut(InvalidatedFrom[i + 1], i) BY <2>10
      <4>4. InvalidatedFrom[i] \in SUBSET Nat BY <1>1, <4>2, <4>3
      <4> QED BY <4>1, <4>4
    <3>3. \A n \in 0 .. N : n \in S
      <4> HIDE DEF S
      <4> QED BY <3>1, <3>2, UpTo
    <3> QED BY <3>3
  <2>12. ASSUME NEW i \in 1 .. N + 1 PROVE InvalidatedFrom[i] \in SUBSET Nat
    <3>1. N + 1 - i \in 0 .. N /\ N + 1 - (N + 1 - i) = i OBVIOUS
    <3> QED BY <2>11, <3>1
  <2>13. InvalidatedFrom \in [1 .. N + 1 -> SUBSET Nat]
    <3>1. InvalidatedFrom = [i \in 1 .. N + 1 |-> InvalidatedFrom[i]] BY <2>8
    <3> QED BY <2>12, <3>1
  <2> QED BY <2>10, <2>13
<1>3. InactiveUpTo[0] = Invalidated /\ \A i \in 1 .. N : InactiveUpTo[i] = Superseding(InactiveUpTo[i - 1], i)
  <2> DEFINE Step == [p \in (1 .. N) \X SUBSET Nat |-> Superseding(p[2], p[1])]
             IsPass(f) == f = [i \in 0 .. N |-> IF i = 0 THEN Invalidated ELSE Superseding(f[i - 1], i)]
  <2>1. Step \in [(1 .. N) \X SUBSET Nat -> SUBSET Nat] BY <1>1
  <2>2. Invalidated \in SUBSET Nat
    <3>1. 1 \in 1 .. N + 1 OBVIOUS
    <3> QED BY <3>1, <1>2 DEF Invalidated
  <2>3. PICK f \in [0 .. N -> SUBSET Nat] : f[0] = Invalidated /\ \A n \in 1 .. N : f[n] = Step[<<n, f[n - 1]>>]
    <3> HIDE DEF Step
    <3>1. HasRecursion(N, SUBSET Nat, Invalidated, Step) BY <2>1, <2>2, RecursionExists
    <3> QED BY <3>1 DEF HasRecursion
  <2>4. \A n \in 1 .. N : <<n, f[n - 1]>> \in (1 .. N) \X SUBSET Nat
    <3>1. \A n \in 1 .. N : n - 1 \in 0 .. N OBVIOUS
    <3> QED BY <3>1
  <2>5. \A n \in 1 .. N : f[n] = Superseding(f[n - 1], n) BY <2>3, <2>4
  <2>6. IsPass(f)
    <3>1. \A i \in 0 .. N : f[i] = IF i = 0 THEN Invalidated ELSE Superseding(f[i - 1], i) BY <2>3, <2>5
    <3> QED BY <3>1
  <2>7. InactiveUpTo = CHOOSE h : IsPass(h) BY <1>0 DEF InactiveUpTo
  <2>8. IsPass(InactiveUpTo)
    <3> HIDE DEF IsPass
    <3> QED BY <2>6, <2>7
  <2>9. \A i \in 0 .. N : InactiveUpTo[i] = IF i = 0 THEN Invalidated ELSE Superseding(InactiveUpTo[i - 1], i)
    BY <2>8
  <2> QED BY <2>9
<1> QED BY <1>0, <1>2, <1>3

\* Event j is an invalidation in force, as the backward pass decides when it comes to it.
InForce(j) == eventLog[j].invalidates # 0 /\ j \notin InvalidatedFrom[j + 1]
NamedFrom(i, k) == \E j \in i .. Len(eventLog) : InForce(j) /\ eventLog[j].invalidates = k
PassedFrom(i, k) == k \in InvalidatedFrom[i] <=> (k \in i .. Len(eventLog) /\ IsInvalidation(k)) \/ NamedFrom(i, k)
IsVoid(V) ==
    \A i \in DOMAIN eventLog : i \in V <=> \E j \in DOMAIN eventLog \ V : eventLog[j].invalidates = i
VoidEvents == {k \in DOMAIN eventLog : k \in InvalidatedFrom[k + 1]}

\* From event i on, the backward pass has taken out the invalidations and what those in force name.
LEMMA BackwardPass ==
    ASSUME LogOK(eventLog) PROVE \A i \in 1 .. Len(eventLog) + 1 : \A k \in Nat : PassedFrom(i, k)
<1>0. PICK N \in Nat : N = Len(eventLog) BY DEF LogOK
<1>1. /\ InvalidatedFrom[N + 1] = {}
      /\ \A i \in 1 .. N : InvalidatedFrom[i] = TakenOut(InvalidatedFrom[i + 1], i)
  BY <1>0, PassesRun
<1> DEFINE S == {n \in 0 .. N : \A k \in Nat : PassedFrom(N + 1 - n, k)}
<1>2. 0 \in S
  <2>1. N + 1 - 0 = N + 1 /\ N + 1 .. N = {} OBVIOUS
  <2>2. \A k \in Nat : PassedFrom(N + 1, k) BY <1>0, <1>1, <2>1 DEF PassedFrom, NamedFrom
  <2> QED BY <2>1, <2>2
<1>3. ASSUME NEW n \in 0 .. N - 1, n \in S PROVE n + 1 \in S
  <2>1. PICK i \in 1 .. N : i = N + 1 - (n + 1) /\ i + 1 = N + 1 - n OBVIOUS
  <2>2. \A k \in Nat : PassedFrom(i + 1, k) BY <1>3, <2>1
  <2>3. \A j : j \in i .. N <=> j = i \/ j \in i + 1 .. N OBVIOUS
  <2>4. ASSUME NEW k \in Nat PROVE PassedFrom(i, k)
    <3>1. k \in InvalidatedFrom[i + 1] <=> (k \in i + 1 .. N /\ IsInvalidation(k)) \/ NamedFrom(i + 1, k)
      BY <1>0, <2>2 DEF PassedFrom
    <3>2. NamedFrom(i, k) <=> (InForce(i) /\ eventLog[i].invalidates = k) \/ NamedFrom(i + 1, k)
      BY <1>0, <2>3 DEF NamedFrom
    <3>3. k \in InvalidatedFrom[i] <=>
             \/ k \in InvalidatedFrom[i + 1]
             \/ k = i /\ IsInvalidation(i)
             \/ InForce(i) /\ eventLog[i].invalidates = k
      <4>1. InvalidatedFrom[i] = TakenOut(InvalidatedFrom[i + 1], i) BY <1>1
      <4> QED BY <4>1 DEF TakenOut, InForce, IsInvalidation
    <3>4. (k \in i .. N /\ IsInvalidation(k)) <=> (k \in i + 1 .. N /\ IsInvalidation(k)) \/ (k = i /\ IsInvalidation(i))
      BY <2>3
    <3> QED BY <1>0, <3>1, <3>2, <3>3, <3>4 DEF PassedFrom
  <2>5. n + 1 \in 0 .. N OBVIOUS
  <2> QED BY <2>1, <2>4, <2>5
<1>4. \A n \in 0 .. N : n \in S
  <2> HIDE DEF S
  <2> QED BY <1>2, <1>3, UpTo
<1>5. ASSUME NEW i \in 1 .. N + 1 PROVE \A k \in Nat : PassedFrom(i, k)
  <2>1. N + 1 - i \in 0 .. N /\ N + 1 - (N + 1 - i) = i OBVIOUS
  <2> QED BY <1>4, <2>1
<1> QED BY <1>0, <1>5

\* The events the backward pass meets as taken out are the void ones, and no other set is void.
LEMMA VoidIsOne == ASSUME LogOK(eventLog) PROVE Void = VoidEvents
<1>0. PICK N \in Nat : N = Len(eventLog) BY DEF LogOK
<1>1. DOMAIN eventLog = 1 .. N /\ \A j \in 1 .. N : eventLog[j].invalidates < j
  BY <1>0 DEF LogOK
<1>2. ASSUME NEW k \in 1 .. N
      PROVE  k \in VoidEvents <=> \E j \in 1 .. N : InForce(j) /\ eventLog[j].invalidates = k
  <2>1. k + 1 \in 1 .. N + 1 /\ k \in Nat /\ k \notin k + 1 .. N OBVIOUS
  <2>2. k \in InvalidatedFrom[k + 1] <=> NamedFrom(k + 1, k)
    BY <1>0, <2>1, BackwardPass DEF PassedFrom
  <2>3. \A j \in 1 .. N : eventLog[j].invalidates = k => j \in k + 1 .. N BY <1>1
  <2>4. \A j \in k + 1 .. N : j \in 1 .. N OBVIOUS
  <2>5. NamedFrom(k + 1, k) <=> \E j \in 1 .. N : InForce(j) /\ eventLog[j].invalidates = k
    BY <1>0, <2>3, <2>4 DEF NamedFrom
  <2> QED BY <1>1, <2>2, <2>5 DEF VoidEvents
<1>3. IsVoid(VoidEvents)
  <2>1. \A j \in 1 .. N : InForce(j) <=> eventLog[j].invalidates # 0 /\ j \notin VoidEvents
    BY <1>1 DEF InForce, VoidEvents
  <2>2. \A k \in 1 .. N : k # 0 OBVIOUS
  <2> QED BY <1>1, <1>2, <2>1, <2>2 DEF IsVoid
<1>4. ASSUME NEW V, IsVoid(V) PROVE \A k \in 1 .. N : k \in V <=> k \in VoidEvents
  <2> DEFINE S == {n \in 0 .. N : \A k \in N - n + 1 .. N : k \in V <=> k \in VoidEvents}
  <2>1. 0 \in S OBVIOUS
  <2>2. ASSUME NEW n \in 0 .. N - 1, n \in S PROVE n + 1 \in S
    <3>1. PICK i \in 1 .. N : i = N - (n + 1) + 1 /\ i + 1 = N - n + 1 OBVIOUS
    <3>2. \A k \in i + 1 .. N : k \in V <=> k \in VoidEvents BY <2>2, <3>1
    <3>3. \A j \in 1 .. N : eventLog[j].invalidates = i => j \in i + 1 .. N BY <1>1
    <3>4. (\E j \in 1 .. N : j \notin V /\ eventLog[j].invalidates = i)
             <=> \E j \in 1 .. N : j \notin VoidEvents /\ eventLog[j].invalidates = i
      BY <3>2, <3>3
    <3>5. i \in V <=> i \in VoidEvents BY <1>1, <1>3, <1>4, <3>4 DEF IsVoid
    <3>6. \A k \in i .. N : k = i \/ k \in i + 1 .. N OBVIOUS
    <3>7. \A k \in i .. N : k \in V <=> k \in VoidEvents BY <3>2, <3>5, <3>6
    <3>8. n + 1 \in 0 .. N OBVIOUS
    <3> QED BY <3>1, <3>7, <3>8
  <2>3. \A n \in 0 .. N : n \in S
    <3> HIDE DEF S
    <3> QED BY <2>1, <2>2, UpTo
  <2>4. N \in 0 .. N /\ N - N + 1 = 1 OBVIOUS
  <2> QED BY <2>3, <2>4
<1>5. VoidEvents \in SUBSET DOMAIN eventLog BY DEF VoidEvents
<1>6. Void = CHOOSE V \in SUBSET DOMAIN eventLog : IsVoid(V) BY DEF Void, IsVoid
<1>7. Void \in SUBSET DOMAIN eventLog /\ IsVoid(Void) BY <1>3, <1>5, <1>6
<1> QED BY <1>1, <1>4, <1>5, <1>7

SupersededTo(i, k) == \E j \in 1 .. i : j \notin Invalidated /\ eventLog[j].supersedes = k
InactiveAt(i, k) == k \in InactiveUpTo[i] <=> k \in Invalidated \/ SupersededTo(i, k)

\* Up to event i, the forward pass has added what the events it did not find taken out supersede.
LEMMA ForwardPass ==
    ASSUME LogOK(eventLog)
    PROVE  \A i \in 0 .. Len(eventLog) : \A k \in 1 .. Len(eventLog) : InactiveAt(i, k)
<1>0. PICK N \in Nat : N = Len(eventLog) BY DEF LogOK
<1>1. \A j \in 1 .. N : eventLog[j].supersedes < j BY <1>0 DEF LogOK
<1>2. InactiveUpTo[0] = Invalidated /\ \A i \in 1 .. N : InactiveUpTo[i] = Superseding(InactiveUpTo[i - 1], i)
  BY <1>0, PassesRun
<1> DEFINE S == {i \in 0 .. N : \A k \in 1 .. N : InactiveAt(i, k)}
<1>3. 0 \in S
  <2>1. \A k \in 1 .. N : InactiveAt(0, k) BY <1>2 DEF InactiveAt, SupersededTo
  <2> QED BY <2>1
<1>4. ASSUME NEW n \in 0 .. N - 1, n \in S PROVE n + 1 \in S
  <2>1. PICK i \in 1 .. N : i = n + 1 /\ i - 1 = n OBVIOUS
  <2>2. \A k \in 1 .. N : k \in InactiveUpTo[n] <=> k \in Invalidated \/ SupersededTo(n, k)
    BY <1>4 DEF InactiveAt
  <2>3. ~SupersededTo(n, i)
    <3>1. \A j \in 1 .. n : j \in 1 .. N /\ j < i BY <2>1
    <3>2. \A j \in 1 .. n : eventLog[j].supersedes # i BY <1>0, <1>1, <2>1, <3>1
    <3> QED BY <3>2 DEF SupersededTo
  <2>4. i \in InactiveUpTo[n] <=> i \in Invalidated BY <2>2, <2>3
  <2>5. InactiveUpTo[i] = Superseding(InactiveUpTo[n], i) BY <1>2, <2>1
  <2>6. ASSUME NEW k \in 1 .. N PROVE InactiveAt(i, k)
    <3>1. k \in InactiveUpTo[i] <=>
             k \in InactiveUpTo[n] \/ (i \notin Invalidated /\ eventLog[i].supersedes = k)
      <4>1. k # 0 OBVIOUS
      <4> QED BY <4>1, <2>4, <2>5 DEF Superseding
    <3>2. \A j : j \in 1 .. i <=> j \in 1 .. n \/ j = i BY <2>1
    <3>3. SupersededTo(i, k) <=> SupersededTo(n, k) \/ (i \notin Invalidated /\ eventLog[i].supersedes = k)
      BY <3>2 DEF SupersededTo
    <3> QED BY <2>2, <3>1, <3>3 DEF InactiveAt
  <2>7. n + 1 \in 0 .. N OBVIOUS
  <2> QED BY <2>1, <2>6, <2>7
<1>5. \A i \in 0 .. N : i \in S
  <2> HIDE DEF S
  <2> QED BY <1>3, <1>4, UpTo
<1> QED BY <1>0, <1>5

\* Every variable of the audit log has its type.
THEOREM EventsAreTyped == EventSpec => []EventTypeOK
<1>1. EventInv => EventTypeOK BY DEF EventInv, LogOK, EventTypeOK
<1> QED BY <1>1, EventInvHolds, PTL

\* For a log of any length, with corrections of corrections nested to any depth, the two passes
\* of activeEvents keep exactly the events that no invalidation in force and no event in force
\* takes out, and appendEvent numbers each block without a gap (event-store.ts).
THEOREM ProjectionAlwaysExact == EventSpec => []ProjectionIsExact
<1>1. ASSUME EventInv PROVE ProjectionIsExact
  <2>1. LogOK(eventLog) BY <1>1 DEF EventInv
  <2>2. PICK N \in Nat : N = Len(eventLog) /\ DOMAIN eventLog = 1 .. N BY <2>1 DEF LogOK
  <2>3. \A i \in DOMAIN eventLog :
           eventLog[i].sequence = Cardinality({j \in 1 .. i : eventLog[j].block = eventLog[i].block})
    BY <2>1 DEF LogOK, NumberedAt
  <2>4. ASSUME NEW k \in 1 .. N PROVE k \in Invalidated <=> k \in Void \/ IsInvalidation(k)
    <3>1. 1 \in 1 .. N + 1 /\ k + 1 \in 1 .. N + 1 /\ k \in Nat OBVIOUS
    <3>2. k \in Invalidated <=> IsInvalidation(k) \/ NamedFrom(1, k)
      BY <2>1, <2>2, <3>1, BackwardPass DEF PassedFrom, Invalidated
    <3>3. k \in InvalidatedFrom[k + 1] <=> NamedFrom(k + 1, k)
      <4>1. k \notin k + 1 .. N OBVIOUS
      <4> QED BY <2>1, <2>2, <3>1, <4>1, BackwardPass DEF PassedFrom
    <3>4. NamedFrom(1, k) <=> NamedFrom(k + 1, k)
      <4>1. \A j \in 1 .. N : eventLog[j].invalidates < j BY <2>1, <2>2 DEF LogOK
      <4>2. \A j \in 1 .. N : eventLog[j].invalidates = k => j \in k + 1 .. N BY <4>1
      <4>3. \A j \in k + 1 .. N : j \in 1 .. N OBVIOUS
      <4> QED BY <2>2, <4>2, <4>3 DEF NamedFrom
    <3>5. k \in Void <=> k \in InvalidatedFrom[k + 1] BY <2>1, <2>2, VoidIsOne DEF VoidEvents
    <3> QED BY <3>2, <3>3, <3>4, <3>5
  <2>5. \A k \in 1 .. N : k \in InactiveUpTo[N] <=> k \in Invalidated \/ SupersededTo(N, k)
    <3>1. N \in 0 .. N OBVIOUS
    <3> QED BY <2>1, <2>2, <3>1, ForwardPass DEF InactiveAt
  <2>6. ASSUME NEW k \in 1 .. N
        PROVE  k \in ActiveEvents <=>
                  /\ k \notin Void /\ ~IsInvalidation(k)
                  /\ \A j \in 1 .. N : eventLog[j].supersedes = k => j \in Void \/ IsInvalidation(j)
    <3>1. k \in ActiveEvents <=> k \notin Invalidated /\ ~SupersededTo(N, k) BY <2>2, <2>5 DEF ActiveEvents
    <3> QED BY <2>4, <3>1 DEF SupersededTo
  <2>7. ActiveEvents \subseteq 1 .. N BY <2>2 DEF ActiveEvents
  <2>8. ActiveEvents = {i \in DOMAIN eventLog :
                         /\ i \notin Void /\ ~IsInvalidation(i)
                         /\ \A j \in DOMAIN eventLog :
                               eventLog[j].supersedes = i => j \in Void \/ IsInvalidation(j)}
    BY <2>2, <2>6, <2>7
  <2> QED BY <2>3, <2>8 DEF ProjectionIsExact
<1> QED BY <1>1, EventInvHolds, PTL

-----------------------------------------------------------------------------
(* The health of a binding. *)

Window == Seq(BOOLEAN)
HealthRecord == [status : {"HEALTHY", "QUARANTINED", "PROBATION"}, since : Nat, canaries : Nat,
                 recent : Window, consecutive : Nat]

HealthTyped ==
    /\ hNow \in 0 .. MaxTime /\ hRole \in Roles
    /\ hOutcomes \in [1 .. MaxTime -> Outcomes \cup {"none"}]
    /\ hEvidence \in [1 .. MaxTime -> Outcomes \cup {"none"}] /\ hSupplied \in BOOLEAN
    /\ hOthers \subseteq Roles /\ hQualified \subseteq Roles

\* The window slides over the outcomes.
LEMMA SlideTyped ==
    ASSUME NEW S, NEW recent \in Seq(S), NEW failed \in S PROVE Slide(recent, failed) \in Seq(S)
<1>0. Append(recent, failed) \in Seq(S) OBVIOUS
<1>1. PICK all \in Seq(S) : all = Append(recent, failed) BY <1>0
<1>2. WindowSize \in Nat /\ WindowSize > 0 BY HealthAssumption
<1>3. Len(all) \in Nat /\ all \in [1 .. Len(all) -> S] OBVIOUS
<1>4. ASSUME Len(all) > WindowSize PROVE SubSeq(all, Len(all) - WindowSize + 1, Len(all)) \in Seq(S)
  BY <1>2, <1>3, <1>4
<1> QED BY <1>1, <1>4 DEF Slide

\* One turn of the loop makes a record of a record.
LEMMA TurnTyped ==
    ASSUME HealthTyped, NEW h \in HealthRecord, NEW t \in 1 .. MaxTime PROVE Turn(h, t) \in HealthRecord
<1>0. MaxTime \in Nat BY HealthAssumption
<1>1. PICK o \in Outcomes \cup {"none"} : o = hEvidence[t] BY DEF HealthTyped
<1>h. /\ h.status \in {"HEALTHY", "QUARANTINED", "PROBATION"} /\ h.since \in Nat /\ h.canaries \in Nat
      /\ h.recent \in Window /\ h.consecutive \in Nat /\ t \in Nat BY <1>0 DEF HealthRecord
<1>w. <<>> \in Window BY DEF Window
<1>2. CASE o = "none" BY <1>1, <1>2 DEF Turn
<1>3. CASE o # "none" /\ h.status = "HEALTHY"
  <2>1. Turn(h, t) = ObserveHealthy(h, t, o) BY <1>1, <1>3 DEF Turn
  <2>2. IsFailure(o) \in BOOLEAN BY DEF IsFailure
  <2>3. PICK recent \in Window :
           recent = IF o = "CANARY_ACCEPTED" THEN h.recent ELSE Slide(h.recent, IsFailure(o))
    BY <1>h, <2>2, SlideTyped DEF Window
  <2>4. PICK consecutive \in Nat : consecutive = IF IsFailure(o) THEN h.consecutive + 1 ELSE 0
    BY <1>h
  <2>5. PICK next \in HealthRecord : next = [h EXCEPT !.recent = recent, !.consecutive = consecutive]
    BY <2>3, <2>4 DEF HealthRecord
  <2>6. [next EXCEPT !.status = "QUARANTINED", !.since = t, !.canaries = 0] \in HealthRecord
    BY <1>h, <2>5 DEF HealthRecord
  <2>7. ObserveHealthy(h, t, o) \in
           {next, [next EXCEPT !.status = "QUARANTINED", !.since = t, !.canaries = 0]}
    BY <2>3, <2>4, <2>5 DEF ObserveHealthy
  <2> QED BY <2>1, <2>5, <2>6, <2>7
<1>4. CASE o # "none" /\ h.status # "HEALTHY"
  <2>1. Turn(h, t) = ObserveQuarantined(h, t, o) BY <1>1, <1>4 DEF Turn
  <2>2. [h EXCEPT !.status = "QUARANTINED", !.since = t, !.canaries = 0,
                  !.consecutive = @ + 1] \in HealthRecord
    <3>1. PICK more \in Nat : more = h.consecutive + 1 BY <1>h
    <3>2. [h EXCEPT !.status = "QUARANTINED", !.since = t, !.canaries = 0,
                    !.consecutive = more] \in HealthRecord BY <1>h DEF HealthRecord
    <3> QED BY <3>1, <3>2
  <2>3. [Healthy EXCEPT !.canaries = h.canaries + 1] \in HealthRecord BY <1>h, <1>w DEF HealthRecord, Healthy
  <2>4. [h EXCEPT !.status = "PROBATION", !.canaries = @ + 1] \in HealthRecord
    <3>1. PICK more \in Nat : more = h.canaries + 1 BY <1>h
    <3>2. [h EXCEPT !.status = "PROBATION", !.canaries = more] \in HealthRecord BY <1>h DEF HealthRecord
    <3> QED BY <3>1, <3>2
  <2> QED BY <2>1, <2>2, <2>3, <2>4 DEF ObserveQuarantined
<1> QED BY <1>2, <1>3, <1>4

\* What the replay computes: it starts healthy and takes one turn after the other.
LEMMA ReplayTurns ==
    ASSUME HealthTyped
    PROVE  /\ Replay \in [0 .. MaxTime -> HealthRecord] /\ Replay[0] = Healthy
           /\ \A t \in 1 .. MaxTime : Replay[t] = Turn(Replay[t - 1], t)
<1> DEFINE Step == [p \in (1 .. MaxTime) \X HealthRecord |-> Turn(p[2], p[1])]
           IsReplay(f) == f = [time \in 0 .. MaxTime |-> IF time = 0 THEN Healthy ELSE Turn(f[time - 1], time)]
<1>0. MaxTime \in Nat BY HealthAssumption
<1>1. Healthy \in HealthRecord BY DEF Healthy, HealthRecord, Window
<1>2. Step \in [(1 .. MaxTime) \X HealthRecord -> HealthRecord] BY TurnTyped
<1>3. PICK f \in [0 .. MaxTime -> HealthRecord] :
         f[0] = Healthy /\ \A n \in 1 .. MaxTime : f[n] = Step[<<n, f[n - 1]>>]
  <2> HIDE DEF Step
  <2>1. HasRecursion(MaxTime, HealthRecord, Healthy, Step) BY <1>0, <1>1, <1>2, RecursionExists
  <2> QED BY <2>1 DEF HasRecursion
<1>4. \A n \in 1 .. MaxTime : n - 1 \in 0 .. MaxTime /\ <<n, f[n - 1]>> \in (1 .. MaxTime) \X HealthRecord
  BY <1>0
<1>5. \A n \in 1 .. MaxTime : f[n] = Turn(f[n - 1], n) BY <1>3, <1>4
<1>6. IsReplay(f)
  <2>1. \A n \in 0 .. MaxTime : f[n] = IF n = 0 THEN Healthy ELSE Turn(f[n - 1], n) BY <1>0, <1>3, <1>5
  <2> QED BY <2>1
<1>7. Replay = CHOOSE g : IsReplay(g) BY DEF Replay
<1>8. IsReplay(Replay)
  <2> HIDE DEF IsReplay
  <2> QED BY <1>6, <1>7
<1>9. /\ DOMAIN Replay = 0 .. MaxTime
      /\ \A n \in 0 .. MaxTime : Replay[n] = IF n = 0 THEN Healthy ELSE Turn(Replay[n - 1], n)
  BY <1>8
<1>10. Replay[0] = Healthy /\ \A t \in 1 .. MaxTime : Replay[t] = Turn(Replay[t - 1], t) BY <1>0, <1>9
<1>11. \A n \in 0 .. MaxTime : n \in {m \in 0 .. MaxTime : Replay[m] \in HealthRecord}
  <2> DEFINE S == {m \in 0 .. MaxTime : Replay[m] \in HealthRecord}
  <2>1. 0 \in S BY <1>0, <1>1, <1>10
  <2>2. ASSUME NEW n \in 0 .. MaxTime - 1, n \in S PROVE n + 1 \in S
    <3>1. n + 1 \in 1 .. MaxTime /\ n + 1 \in 0 .. MaxTime /\ (n + 1) - 1 = n BY <1>0
    <3>2. Replay[n + 1] = Turn(Replay[n], n + 1) BY <3>1, <1>10
    <3>3. Replay[n] \in HealthRecord BY <2>2
    <3> QED BY <3>1, <3>2, <3>3, TurnTyped
  <2>3. \A n \in 0 .. MaxTime : n \in S
    <3> HIDE DEF S
    <3> QED BY <1>0, <2>1, <2>2, UpTo
  <2> QED BY <2>3
<1>12. Replay \in [0 .. MaxTime -> HealthRecord]
  <2>1. Replay = [n \in 0 .. MaxTime |-> Replay[n]] BY <1>8
  <2> QED BY <2>1, <1>11
<1> QED BY <1>10, <1>12

\* The failures that quarantine a binding, and those it recovered from.
Bad(c) == hEvidence[c] = "CRITICAL" \/ RunEndsAt(c)
Excused(c) == \E f \in Failures : c <= f /\ RecoveredFrom(f)

RunFrom(first, t) == {u \in Seen : first <= u /\ u <= t}
CanariesSince(s, t) == {k \in Canaries : s + Cooldown <= k /\ k <= t}

\* What the replay knows at time t of the outcomes up to then.
RunsCounted(h, t) ==
    \A first \in Seen :
        first <= t /\ RunFrom(first, t) \subseteq Failures => Cardinality(RunFrom(first, t)) <= h.consecutive
HealthyEarned(t) == \A c \in Failures : c <= t /\ Bad(c) => Excused(c)
QuarantineCounted(h, t) ==
    /\ h.since <= t /\ \A g \in Failures : g <= t => g <= h.since
    /\ h.canaries <= Cardinality(CanariesSince(h.since, t))

HealthAt(h, t) ==
    /\ h.status = "HEALTHY" => HealthyEarned(t) /\ RunsCounted(h, t)
    /\ h.status # "HEALTHY" => QuarantineCounted(h, t)

NoFailureTo(t) == \A g \in Failures : ~(g <= t)
LastFailure(f, t) == f <= t /\ \A g \in Failures : g <= t => g <= f

\* The outcomes a snapshot has seen and the sets they are counted in.
LEMMA SeenFacts ==
    ASSUME HealthTyped
    PROVE  /\ MaxTime \in Nat /\ Failures \subseteq Seen /\ Canaries \subseteq Seen
           /\ Seen \subseteq 1 .. MaxTime /\ Seen \subseteq Nat
           /\ \A t \in Canaries : t \notin Failures
           /\ \A s, t : IsFiniteSet(RunFrom(s, t)) /\ Cardinality(RunFrom(s, t)) \in Nat
           /\ \A s, t : IsFiniteSet(CanariesSince(s, t)) /\ Cardinality(CanariesSince(s, t)) \in Nat
<1>0. MaxTime \in Nat BY HealthAssumption
<1>1. IsFiniteSet(1 .. MaxTime) BY <1>0, FS_Interval
<1>2. /\ Failures \subseteq Seen /\ Canaries \subseteq Seen /\ Seen \subseteq 1 .. MaxTime
      /\ Seen \subseteq Nat
  BY <1>0 DEF Failures, Canaries, Seen
<1>3. IsFiniteSet(Seen) BY <1>1, <1>2, FS_Subset
<1>4. ASSUME NEW s, NEW t PROVE IsFiniteSet(RunFrom(s, t)) /\ IsFiniteSet(CanariesSince(s, t))
  <2>1. RunFrom(s, t) \subseteq Seen /\ CanariesSince(s, t) \subseteq Seen
    BY <1>2 DEF RunFrom, CanariesSince
  <2> QED BY <1>3, <2>1, FS_Subset
<1>5. \A t \in Canaries : t \notin Failures BY DEF Canaries, Failures, IsFailure
<1> QED BY <1>0, <1>2, <1>4, <1>5, FS_CardinalityType

\* The last failure up to a time, if there is one.
LEMMA LastFailureExists ==
    ASSUME HealthTyped, NEW t \in 0 .. MaxTime
    PROVE  NoFailureTo(t) \/ \E f \in Failures : LastFailure(f, t)
<1> DEFINE S == {n \in 0 .. MaxTime : NoFailureTo(n) \/ \E f \in Failures : LastFailure(f, n)}
<1>0. MaxTime \in Nat /\ Failures \subseteq 1 .. MaxTime BY SeenFacts
<1>1. 0 \in S
  <2>1. NoFailureTo(0) BY <1>0 DEF NoFailureTo
  <2> QED BY <2>1, <1>0
<1>2. ASSUME NEW n \in 0 .. MaxTime - 1, n \in S PROVE n + 1 \in S
  <2>1. n + 1 \in 0 .. MaxTime BY <1>0
  <2>2. \A g \in Failures : g <= n + 1 => g <= n \/ g = n + 1 BY <1>0
  <2>3. CASE n + 1 \in Failures
    <3>1. LastFailure(n + 1, n + 1) BY <1>0 DEF LastFailure
    <3> QED BY <2>1, <2>3, <3>1
  <2>4. CASE n + 1 \notin Failures /\ NoFailureTo(n)
    <3>1. NoFailureTo(n + 1) BY <2>2, <2>4 DEF NoFailureTo
    <3> QED BY <2>1, <3>1
  <2>5. CASE n + 1 \notin Failures /\ \E f \in Failures : LastFailure(f, n)
    <3>1. PICK f \in Failures : LastFailure(f, n) BY <2>5
    <3>2. LastFailure(f, n + 1) BY <1>0, <2>2, <2>5, <3>1 DEF LastFailure
    <3> QED BY <2>1, <3>2
  <2> QED BY <1>2, <2>3, <2>4, <2>5
<1>3. \A n \in 0 .. MaxTime : n \in S
  <2> HIDE DEF S
  <2> QED BY <1>0, <1>1, <1>2, UpTo
<1> QED BY <1>3

\* A turn without an outcome, and one whose outcome is not a failure, in quarantine.
LEMMA QuietTurn ==
    ASSUME HealthTyped, NEW t \in 1 .. MaxTime, NEW h \in HealthRecord, HealthAt(h, t - 1),
           t \notin Failures, t \notin Seen \/ h.status # "HEALTHY"
    PROVE  HealthAt(h, t)
<1>0. MaxTime \in Nat /\ t \in Nat /\ Failures \subseteq Seen /\ Seen \subseteq Nat /\ h.since \in Nat
      /\ Canaries \subseteq Seen
  BY SeenFacts DEF HealthRecord
<1>1. \A g \in Failures : g <= t => g <= t - 1 BY <1>0
<1>2. ASSUME t \notin Seen, h.status = "HEALTHY" PROVE HealthAt(h, t)
  <2>1. HealthyEarned(t - 1) /\ RunsCounted(h, t - 1) BY <1>2 DEF HealthAt
  <2>2. HealthyEarned(t) BY <2>1, <1>1 DEF HealthyEarned
  <2>3. \A first \in Seen : (first <= t => first <= t - 1) /\ RunFrom(first, t) = RunFrom(first, t - 1)
    <3>1. \A u \in Seen : u <= t <=> u <= t - 1 BY <1>0, <1>2
    <3> QED BY <3>1 DEF RunFrom
  <2>4. RunsCounted(h, t) BY <2>1, <2>3 DEF RunsCounted
  <2> QED BY <1>2, <2>2, <2>4 DEF HealthAt
<1>3. ASSUME h.status # "HEALTHY" PROVE HealthAt(h, t)
  <2>1. QuarantineCounted(h, t - 1) BY <1>3 DEF HealthAt
  <2>2. h.since <= t BY <1>0, <2>1 DEF QuarantineCounted
  <2>3. \A g \in Failures : g <= t => g <= h.since BY <1>1, <2>1 DEF QuarantineCounted
  <2>4. CanariesSince(h.since, t - 1) \subseteq CanariesSince(h.since, t)
    <3>1. \A k \in Canaries : k <= t - 1 => k <= t BY <1>0
    <3> QED BY <3>1 DEF CanariesSince
  <2>5. Cardinality(CanariesSince(h.since, t - 1)) <= Cardinality(CanariesSince(h.since, t))
    BY <2>4, SeenFacts, FS_Subset
  <2>6. h.canaries <= Cardinality(CanariesSince(h.since, t - 1)) BY <2>1 DEF QuarantineCounted
  <2>7. h.canaries \in Nat BY DEF HealthRecord
  <2>8. h.canaries <= Cardinality(CanariesSince(h.since, t)) BY <2>5, <2>6, <2>7, SeenFacts
  <2> QED BY <1>3, <2>2, <2>3, <2>8 DEF HealthAt, QuarantineCounted
<1> QED BY <1>2, <1>3

\* A turn that quarantines counts from its own time.
LEMMA QuarantiningTurn ==
    ASSUME HealthTyped, NEW t \in 1 .. MaxTime, NEW h, h.status = "QUARANTINED", h.since = t, h.canaries = 0
    PROVE  HealthAt(h, t)
<1>1. t \in Nat /\ Cardinality(CanariesSince(t, t)) \in Nat BY SeenFacts
<1>2. QuarantineCounted(h, t) BY <1>1 DEF QuarantineCounted
<1> QED BY <1>2 DEF HealthAt

\* An outcome of a healthy binding: a failure that completes a run quarantines it.
LEMMA HealthyTurn ==
    ASSUME HealthTyped, NEW t \in Seen, NEW h \in HealthRecord, HealthAt(h, t - 1), h.status = "HEALTHY"
    PROVE  HealthAt(ObserveHealthy(h, t, hEvidence[t]), t)
<1> DEFINE o == hEvidence[t]
<1>0. /\ MaxTime \in Nat /\ t \in Nat /\ t \in 1 .. MaxTime /\ Failures \subseteq Seen /\ Seen \subseteq Nat
      /\ h.consecutive \in Nat /\ MaximumConsecutive \in Nat /\ MaximumConsecutive > 0
  BY SeenFacts, HealthAssumption DEF HealthRecord
<1>1. t \in Failures <=> IsFailure(o) BY DEF Failures
<1>2. PICK consecutive \in Nat : consecutive = IF IsFailure(o) THEN h.consecutive + 1 ELSE 0 BY <1>0
<1>3. PICK recent : recent = IF o = "CANARY_ACCEPTED" THEN h.recent ELSE Slide(h.recent, IsFailure(o)) OBVIOUS
<1>4. PICK next : next = [h EXCEPT !.recent = recent, !.consecutive = consecutive] OBVIOUS
<1>5. next.status = "HEALTHY" /\ next.consecutive = consecutive BY <1>4 DEF HealthRecord
<1>6. PICK n : n = ObserveHealthy(h, t, o) OBVIOUS
<1>7. \/ n = [next EXCEPT !.status = "QUARANTINED", !.since = t, !.canaries = 0]
      \/ n = next /\ o # "CRITICAL" /\ ~(consecutive >= MaximumConsecutive)
  BY <1>2, <1>3, <1>4, <1>6 DEF ObserveHealthy
<1>8. CASE n = [next EXCEPT !.status = "QUARANTINED", !.since = t, !.canaries = 0]
  <2>1. n.status = "QUARANTINED" /\ n.since = t /\ n.canaries = 0 BY <1>4, <1>8 DEF HealthRecord
  <2> QED BY <2>1, <1>0, <1>6, QuarantiningTurn
<1>9. CASE n = next /\ o # "CRITICAL" /\ ~(consecutive >= MaximumConsecutive)
  <2>1. HealthyEarned(t - 1) /\ RunsCounted(h, t - 1) BY DEF HealthAt
  <2>2. ASSUME NEW first \in Seen, first <= t, RunFrom(first, t) \subseteq Failures
        PROVE  Cardinality(RunFrom(first, t)) <= consecutive
    <3>1. t \in RunFrom(first, t) BY <1>0, <2>2 DEF RunFrom
    <3>2. IsFailure(o) BY <1>1, <2>2, <3>1
    <3>3. consecutive = h.consecutive + 1 BY <1>2, <3>2
    <3>4. RunFrom(first, t) = RunFrom(first, t - 1) \cup {t}
      <4>1. \A u \in Seen : u <= t <=> u <= t - 1 \/ u = t BY <1>0
      <4> QED BY <4>1, <2>2 DEF RunFrom
    <3>5. t \notin RunFrom(first, t - 1) BY <1>0 DEF RunFrom
    <3>6. Cardinality(RunFrom(first, t)) = Cardinality(RunFrom(first, t - 1)) + 1
      <4>1. IsFiniteSet(RunFrom(first, t - 1)) BY SeenFacts
      <4> QED BY <4>1, <3>4, <3>5, FS_AddElement
    <3>7. Cardinality(RunFrom(first, t - 1)) <= h.consecutive
      <4>1. CASE first <= t - 1
        <5>1. RunFrom(first, t - 1) \subseteq Failures BY <2>2, <3>4
        <5> QED BY <2>1, <4>1, <5>1 DEF RunsCounted
      <4>2. CASE ~(first <= t - 1)
        <5>1. \A u \in Seen : ~(first <= u /\ u <= t - 1) BY <1>0, <4>2
        <5>2. RunFrom(first, t - 1) = {} BY <5>1 DEF RunFrom
        <5>3. Cardinality(RunFrom(first, t - 1)) = 0 BY <5>2, FS_EmptySet
        <5> QED BY <5>3, <1>0
      <4> QED BY <4>1, <4>2
    <3>8. Cardinality(RunFrom(first, t - 1)) \in Nat BY SeenFacts
    <3> QED BY <1>0, <3>3, <3>6, <3>7, <3>8
  <2>3. RunsCounted(n, t) BY <1>5, <1>9, <2>2 DEF RunsCounted
  <2>4. ~RunEndsAt(t)
    <3>1. SUFFICES ASSUME NEW first \in Seen, RunFrom(first, t) \subseteq Failures,
                          Cardinality(RunFrom(first, t)) >= MaximumConsecutive
                   PROVE  FALSE
      BY DEF RunEndsAt, RunFrom
    <3>2. Cardinality(RunFrom(first, t)) \in Nat BY SeenFacts
    <3>3. CASE first <= t BY <1>0, <1>2, <1>9, <2>2, <3>1, <3>2, <3>3
    <3>4. CASE ~(first <= t)
      <4>1. \A u \in Seen : ~(first <= u /\ u <= t) BY <1>0, <3>4
      <4>2. RunFrom(first, t) = {} BY <4>1 DEF RunFrom
      <4>3. Cardinality(RunFrom(first, t)) = 0 BY <4>2, FS_EmptySet
      <4> QED BY <4>3, <1>0, <3>1
    <3> QED BY <3>3, <3>4
  <2>5. ~Bad(t) BY <1>9, <2>4 DEF Bad
  <2>6. \A c \in Failures : c <= t => c <= t - 1 \/ c = t BY <1>0
  <2>7. HealthyEarned(t) BY <2>1, <2>5, <2>6 DEF HealthyEarned
  <2> QED BY <1>5, <1>6, <1>9, <2>3, <2>7 DEF HealthAt
<1> QED BY <1>7, <1>8, <1>9

\* An outcome of a quarantined binding: it recovers by enough canaries after the last failure.
LEMMA QuarantinedTurn ==
    ASSUME HealthTyped, NEW t \in Seen, NEW h \in HealthRecord, HealthAt(h, t - 1), h.status # "HEALTHY"
    PROVE  HealthAt(ObserveQuarantined(h, t, hEvidence[t]), t)
<1> DEFINE o == hEvidence[t]
<1>0. /\ MaxTime \in Nat /\ t \in Nat /\ t \in 1 .. MaxTime /\ Failures \subseteq Seen /\ Seen \subseteq Nat
      /\ h.since \in Nat /\ h.canaries \in Nat /\ Cooldown \in Nat /\ RecoveryCanaries \in Nat
      /\ Canaries \subseteq Seen
  BY SeenFacts, HealthAssumption DEF HealthRecord
<1>1. t \in Failures <=> IsFailure(o) BY DEF Failures
<1>2. CASE IsFailure(o)
  <2>1. PICK n : n = ObserveQuarantined(h, t, o) OBVIOUS
  <2>2. n.status = "QUARANTINED" /\ n.since = t /\ n.canaries = 0
    BY <1>2, <2>1 DEF ObserveQuarantined, HealthRecord
  <2> QED BY <1>0, <2>1, <2>2, QuarantiningTurn
<1>3. CASE ~IsFailure(o) /\ ~CountsAsCanary(h, t, o)
  <2>1. ObserveQuarantined(h, t, o) = h BY <1>3 DEF ObserveQuarantined
  <2> QED BY <1>0, <1>1, <1>3, <2>1, QuietTurn
<1>4. CASE ~IsFailure(o) /\ CountsAsCanary(h, t, o)
  <2>1. t \in Canaries /\ t >= h.since + Cooldown BY <1>4 DEF CountsAsCanary, Canaries
  <2>2. /\ \A g \in Failures : g <= t - 1 => g <= h.since
        /\ h.canaries <= Cardinality(CanariesSince(h.since, t - 1))
    BY DEF HealthAt, QuarantineCounted
  <2>3. \A g \in Failures : g <= t => g <= h.since
    <3>1. \A g \in Failures : g <= t => g <= t - 1 BY <1>0, <1>1, <1>4
    <3> QED BY <2>2, <3>1
  <2>4. CanariesSince(h.since, t) = CanariesSince(h.since, t - 1) \cup {t}
    <3>1. \A k \in Canaries : k <= t <=> k <= t - 1 \/ k = t BY <1>0
    <3>2. h.since + Cooldown <= t BY <1>0, <2>1
    <3> QED BY <3>1, <3>2, <2>1 DEF CanariesSince
  <2>5. t \notin CanariesSince(h.since, t - 1) BY <1>0 DEF CanariesSince
  <2>6. Cardinality(CanariesSince(h.since, t)) = Cardinality(CanariesSince(h.since, t - 1)) + 1
    <3>1. IsFiniteSet(CanariesSince(h.since, t - 1)) BY SeenFacts
    <3> QED BY <3>1, <2>4, <2>5, FS_AddElement
  <2>7. h.canaries + 1 <= Cardinality(CanariesSince(h.since, t))
    <3>1. Cardinality(CanariesSince(h.since, t - 1)) \in Nat BY SeenFacts
    <3> QED BY <1>0, <2>2, <2>6, <3>1
  <2>8. CASE h.canaries + 1 >= RecoveryCanaries
    <3>1. PICK n : n = [Healthy EXCEPT !.canaries = h.canaries + 1] OBVIOUS
    <3>2. ObserveQuarantined(h, t, o) = n BY <1>4, <2>8, <3>1 DEF ObserveQuarantined
    <3>3. n.status = "HEALTHY" BY <3>1 DEF Healthy
    <3>4. \A first \in Seen : first <= t => t \in RunFrom(first, t) BY <1>0 DEF RunFrom
    <3>5. RunsCounted(n, t) BY <1>1, <1>4, <3>4 DEF RunsCounted
    <3>6. ASSUME NEW c \in Failures, c <= t PROVE Excused(c)
      <4>1. ~NoFailureTo(t) BY <3>6 DEF NoFailureTo
      <4>2. PICK f \in Failures : LastFailure(f, t)
        <5>1. t \in 0 .. MaxTime BY <1>0
        <5> QED BY <4>1, <5>1, LastFailureExists
      <4>3. f \in Nat /\ f <= h.since /\ c <= f BY <1>0, <2>3, <3>6, <4>2 DEF LastFailure
      <4>4. \A g \in Failures : ~(f < g /\ g <= t) BY <1>0, <4>2 DEF LastFailure
      <4>5. CanariesSince(h.since, t) \subseteq CanariesSince(f, t)
        <5>1. \A k \in Canaries : h.since + Cooldown <= k => f + Cooldown <= k BY <1>0, <4>3
        <5> QED BY <5>1 DEF CanariesSince
      <4>6. Cardinality(CanariesSince(h.since, t)) <= Cardinality(CanariesSince(f, t))
        BY <4>5, SeenFacts, FS_Subset
      <4>7. Cardinality(CanariesSince(h.since, t)) \in Nat /\ Cardinality(CanariesSince(f, t)) \in Nat
        BY SeenFacts
      <4>8. Cardinality(CanariesSince(f, t)) >= RecoveryCanaries BY <1>0, <2>7, <2>8, <4>6, <4>7
      <4>9. RecoveredFrom(f) BY <2>1, <4>4, <4>8 DEF RecoveredFrom, CanariesSince
      <4> QED BY <4>3, <4>9 DEF Excused
    <3>7. HealthyEarned(t) BY <3>6 DEF HealthyEarned
    <3> QED BY <3>2, <3>3, <3>5, <3>7 DEF HealthAt
  <2>9. CASE ~(h.canaries + 1 >= RecoveryCanaries)
    <3>1. PICK more \in Nat : more = h.canaries + 1 BY <1>0
    <3>2. PICK n : n = [h EXCEPT !.status = "PROBATION", !.canaries = more] OBVIOUS
    <3>3. ObserveQuarantined(h, t, o) = n BY <1>4, <2>9, <3>1, <3>2 DEF ObserveQuarantined
    <3>4. n.status = "PROBATION" /\ n.canaries = more /\ n.since = h.since BY <3>2 DEF HealthRecord
    <3>5. h.since <= t BY <1>0, <2>1
    <3>6. QuarantineCounted(n, t) BY <2>3, <2>7, <3>1, <3>4, <3>5 DEF QuarantineCounted
    <3> QED BY <3>3, <3>4, <3>6 DEF HealthAt
  <2> QED BY <2>8, <2>9
<1> QED BY <1>2, <1>3, <1>4

\* At every time the replay knows what it must of the outcomes up to then.
LEMMA ReplayKnows ==
    ASSUME HealthTyped PROVE \A t \in 0 .. MaxTime : HealthAt(Replay[t], t)
<1> DEFINE S == {t \in 0 .. MaxTime : HealthAt(Replay[t], t)}
<1>0. /\ MaxTime \in Nat /\ Failures \subseteq Seen /\ Seen \subseteq 1 .. MaxTime
      /\ Replay \in [0 .. MaxTime -> HealthRecord] /\ Replay[0] = Healthy
      /\ \A t \in 1 .. MaxTime : Replay[t] = Turn(Replay[t - 1], t)
  BY SeenFacts, ReplayTurns DEF HealthTyped
<1>1. 0 \in S
  <2>1. \A c \in Seen : ~(c <= 0) BY <1>0
  <2>2. HealthAt(Healthy, 0)
    <3>1. Healthy.status = "HEALTHY" BY DEF Healthy
    <3>2. HealthyEarned(0) BY <1>0, <2>1 DEF HealthyEarned
    <3>3. RunsCounted(Healthy, 0) BY <2>1 DEF RunsCounted
    <3> QED BY <3>1, <3>2, <3>3 DEF HealthAt
  <2> QED BY <1>0, <2>2
<1>2. ASSUME NEW n \in 0 .. MaxTime - 1, n \in S PROVE n + 1 \in S
  <2>1. PICK t \in 1 .. MaxTime : t = n + 1 /\ t \in 0 .. MaxTime /\ t - 1 = n BY <1>0
  <2>2. PICK h \in HealthRecord : h = Replay[n] BY <1>0, <1>2
  <2>3. HealthAt(h, t - 1) BY <1>2, <2>1, <2>2
  <2>4. Replay[t] = Turn(h, t) BY <1>0, <2>1, <2>2
  <2>5. CASE t \notin Seen
    <3>1. hEvidence[t] = "none" BY <2>5 DEF Seen
    <3>2. Turn(h, t) = h BY <3>1 DEF Turn
    <3>3. HealthAt(h, t) BY <2>3, <2>5, <1>0, QuietTurn
    <3> QED BY <2>1, <2>4, <3>2, <3>3
  <2>6. CASE t \in Seen
    <3>2. hEvidence[t] # "none" BY <2>6 DEF Seen
    <3>3. CASE h.status = "HEALTHY"
      <4>1. Turn(h, t) = ObserveHealthy(h, t, hEvidence[t]) BY <3>2, <3>3 DEF Turn
      <4>2. HealthAt(ObserveHealthy(h, t, hEvidence[t]), t) BY <2>3, <2>6, <3>3, HealthyTurn
      <4> QED BY <2>1, <2>4, <4>1, <4>2
    <3>4. CASE h.status # "HEALTHY"
      <4>1. Turn(h, t) = ObserveQuarantined(h, t, hEvidence[t]) BY <3>2, <3>4 DEF Turn
      <4>2. HealthAt(ObserveQuarantined(h, t, hEvidence[t]), t) BY <2>3, <2>6, <3>4, QuarantinedTurn
      <4> QED BY <2>1, <2>4, <4>1, <4>2
    <3> QED BY <3>3, <3>4
  <2> QED BY <2>5, <2>6
<1>3. \A t \in 0 .. MaxTime : t \in S
  <2> HIDE DEF S
  <2> QED BY <1>0, <1>1, <1>2, UpTo
<1> QED BY <1>3

\* What a snapshot was evaluated from is what was recorded.
EvidenceRecorded == \A t \in Seen : hEvidence[t] = hOutcomes[t]
HealthInv == HealthTyped /\ EvidenceRecorded

\* Every step keeps both: an outcome is recorded where there was none.
LEMMA HealthInvHolds == HealthSpec => []HealthInv
<1> USE DEF healthScope
<1>0. MaxTime \in Nat BY HealthAssumption
<1>1. ASSUME HealthInit PROVE HealthInv
  <2>1. hRole \in Roles /\ hOthers \subseteq Roles /\ hQualified \subseteq Roles /\ hSupplied \in BOOLEAN
    BY <1>1 DEF HealthInit, Roles
  <2>0. HealthTyped BY <1>0, <1>1, <2>1 DEF HealthInit, HealthTyped
  <2>2. EvidenceRecorded BY <1>1 DEF HealthInit, EvidenceRecorded
  <2> QED BY <2>0, <2>2 DEF HealthInv
<1>2. ASSUME HealthInv, [HealthNext]_healthVars PROVE HealthInv'
  <2>t. HealthTyped /\ EvidenceRecorded BY <1>2 DEF HealthInv
  <2>1. CASE HealthTick
    <3>1. hNow' = hNow + 1 /\ hNow' \in 0 .. MaxTime /\ UNCHANGED <<hOutcomes, hSupplied, hEvidence, healthScope>>
      BY <1>0, <2>1, <2>t DEF HealthTick, HealthTyped
    <3>2. HealthTyped' BY <2>t, <3>1 DEF HealthTyped
    <3>3. EvidenceRecorded' BY <2>t, <3>1 DEF EvidenceRecorded, Seen
    <3> QED BY <3>2, <3>3 DEF HealthInv
  <2>2. CASE SupplySnapshot
    <3>1. HealthTyped' BY <2>2, <2>t DEF SupplySnapshot, HealthTyped
    <3>2. EvidenceRecorded' BY <2>2 DEF SupplySnapshot, EvidenceRecorded
    <3> QED BY <3>1, <3>2 DEF HealthInv
  <2>3. CASE WithholdSnapshot
    <3>1. HealthTyped' BY <2>3, <2>t DEF WithholdSnapshot, HealthTyped
    <3>2. Seen' = {} BY <2>3 DEF WithholdSnapshot, Seen
    <3>3. EvidenceRecorded' BY <3>2 DEF EvidenceRecorded
    <3> QED BY <3>1, <3>3 DEF HealthInv
  <2>4. ASSUME NEW t \in 1 .. MaxTime, NEW o \in Outcomes, RecordOutcome(t, o) PROVE HealthInv'
    <3>1. /\ hOutcomes[t] = "none" /\ hOutcomes' = [hOutcomes EXCEPT ![t] = o]
          /\ UNCHANGED <<hNow, hSupplied, hEvidence, healthScope>>
      BY <2>4 DEF RecordOutcome
    <3>2. HealthTyped' BY <2>t, <3>1 DEF HealthTyped
    <3>3. Seen' = Seen BY <3>1 DEF Seen
    <3>4. ASSUME NEW s \in Seen PROVE hEvidence'[s] = hOutcomes'[s]
      <4>1. hEvidence[s] = hOutcomes[s] /\ hOutcomes[s] # "none" BY <2>t DEF EvidenceRecorded, Seen
      <4> QED BY <2>t, <3>1, <4>1 DEF HealthTyped
    <3>5. EvidenceRecorded' BY <3>3, <3>4 DEF EvidenceRecorded
    <3> QED BY <3>2, <3>5 DEF HealthInv
  <2>5. CASE UNCHANGED healthVars
    BY <1>2, <2>5 DEF healthVars, HealthInv, HealthTyped, EvidenceRecorded, Seen
  <2> QED BY <1>2, <2>1, <2>2, <2>3, <2>4, <2>5 DEF HealthNext
<1> QED BY <1>1, <1>2, PTL DEF HealthSpec

\* Every variable of the followed binding has its type, and every evaluation of its
\* outcomes ends in one of the three states (evaluateRuntimeBindingHealthV4).
THEOREM HealthIsTyped == HealthSpec => []HealthTypeOK
<1>1. ASSUME HealthInv PROVE HealthTypeOK
  <2>1. HealthTyped BY <1>1 DEF HealthInv
  <2>2. MaxTime \in 0 .. MaxTime BY HealthAssumption
  <2>3. Replay[MaxTime] \in HealthRecord BY <2>1, <2>2, ReplayTurns
  <2>4. EvaluateBindingHealth.status \in {"HEALTHY", "QUARANTINED", "PROBATION"}
    BY <2>3 DEF EvaluateBindingHealth, HealthRecord
  <2> QED BY <2>1, <2>4 DEF HealthTyped, HealthTypeOK
<1> QED BY <1>1, HealthInvHolds, PTL

\* In whatever order the evidence is recorded, and for every policy (window, rate, run, cooldown,
\* canaries), a task is only ever routed to a binding that the profile qualifies; and to one of
\* which a snapshot is supplied only if it recovered, by canaries accepted after the cooldown,
\* from every authority violation, false acceptance and run of failures that was recorded when
\* the snapshot was taken (evaluateRuntimeBindingHealthV4, runtimeBindingHealthAllowsV4,
\* resolveAdaptiveExecutionPolicyV4).  Nothing is claimed of a binding without a snapshot.
THEOREM QuarantineAlwaysHolds == HealthSpec => []QuarantineHolds
<1>1. ASSUME HealthInv PROVE QuarantineHolds
  <2>0. HealthTyped /\ EvidenceRecorded /\ MaxTime \in 0 .. MaxTime /\ MaxTime \in Nat
    BY <1>1, HealthAssumption DEF HealthInv
  <2>1. HealthAt(Replay[MaxTime], MaxTime) BY <2>0, ReplayKnows
  <2>2. ASSUME NormalRoutingAllowed
        PROVE  \A c \in Failures : hEvidence[c] = "CRITICAL" \/ RunEndsAt(c) =>
                  \E f \in Failures : c <= f /\ RecoveredFrom(f)
    <3>1. EvaluateBindingHealth.status = "HEALTHY" BY <2>2 DEF NormalRoutingAllowed
    <3>2. HealthyEarned(MaxTime) BY <2>1, <3>1 DEF HealthAt, EvaluateBindingHealth
    <3>3. \A c \in Failures : c <= MaxTime BY <2>0, SeenFacts
    <3>4. \A c \in Failures : Bad(c) => Excused(c) BY <3>2, <3>3 DEF HealthyEarned
    <3> QED BY <3>4 DEF Bad, Excused
  <2>3. ASSUME NEW lane \in Lanes, NEW role, role = SelectRole(lane), role # "none"
        PROVE  Usable(role) /\ Rank(LaneOf(role)) >= Rank(lane)
    <3>1. lane \in {"MECHANICAL_ECONOMY", "REASONING_ECONOMY", "FRONTIER_EXECUTION"} BY DEF Lanes
    <3>2. /\ Rank("MECHANICAL_ECONOMY") = 1 /\ Rank("REASONING_ECONOMY") = 2 /\ Rank("FRONTIER_EXECUTION") = 3
      BY DEF Rank
    <3>3. /\ LaneOf("executor") = "MECHANICAL_ECONOMY" /\ LaneOf("reasoningExecutor") = "REASONING_ECONOMY"
          /\ LaneOf("frontierExecutor") = "FRONTIER_EXECUTION"
      BY DEF LaneOf
    <3>4. \/ role = "executor" /\ lane = "MECHANICAL_ECONOMY" /\ Usable(role)
          \/ role = "reasoningExecutor" /\ lane # "FRONTIER_EXECUTION" /\ Usable(role)
          \/ role = "frontierExecutor" /\ Usable(role)
      BY <2>3 DEF SelectRole
    <3> QED BY <3>1, <3>2, <3>3, <3>4
  <2>4. \A role : Usable(role) => role \in hQualified /\ (role = hRole /\ hSupplied => NormalRoutingAllowed)
    BY DEF Usable, BindingHealthAllows
  <2> QED BY <2>0, <2>2, <2>3, <2>4 DEF QuarantineHolds, EvidenceRecorded
<1> QED BY <1>1, HealthInvHolds, PTL

-----------------------------------------------------------------------------
(* All the records. *)

\* The records share no state: a behaviour of all of them is one of each.
LEMMA EachRecordOnItsOwn ==
    RecordsSpec => BlockSpec /\ EventSpec /\ EvaluationSpec /\ HealthSpec /\ RvSpec
<1>1. RecordsInit => BlockInit /\ EventInit /\ EvaluationInit /\ HealthInit /\ RvInit BY DEF RecordsInit
<1>2. ASSUME [RecordsNext]_recordVars
      PROVE  /\ [BlockNext]_blockVars /\ [EventNext]_eventVars /\ [EvaluationNext]_evaluationVars
             /\ [HealthNext]_healthVars /\ [RvNext]_rvVars
    BY <1>2 DEF RecordsNext, recordVars, BlockMoves, EventsMove, EvaluationMoves, HealthMoves, ReviewMoves
<1> QED  BY <1>1, <1>2, PTL DEF RecordsSpec, BlockSpec, EventSpec, EvaluationSpec, HealthSpec, RvSpec

\* Every variable of the records has its type.
THEOREM RecordsTyped == RecordsSpec => []RecordsTypeOK
<1>1. BlockTypeOK /\ EventTypeOK /\ EvaluationTypeOK /\ HealthTypeOK /\ RvTypeOK => RecordsTypeOK
    BY DEF RecordsTypeOK
<1> QED  BY <1>1, EachRecordOnItsOwn, BlockIsTyped, EventsAreTyped, EvaluationIsTyped, HealthIsTyped,
            SequenceTyped, PTL

\* What is accepted was validated and independently reviewed, in the pilot's record of a block
\* (state-machine.ts) and in the runtime's review sequence (reviewer.ts and validation.ts),
\* where only a throw leaves a credential lease behind.
THEOREM AcceptancesEarned == RecordsSpec => []AcceptanceIsEarned
<1>1. BlockSound /\ SequenceSound => AcceptanceIsEarned BY DEF AcceptanceIsEarned
<1> QED  BY <1>1, EachRecordOnItsOwn, BlockIsSound, SequenceIsSound, PTL
=============================================================================
