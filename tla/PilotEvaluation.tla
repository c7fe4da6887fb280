-------------------------- MODULE PilotEvaluation ---------------------------
(***************************************************************************)
(* The routing gate of the pilot: evaluatePilot and appendEvaluation       *)
(* (src/pilot/evaluate.ts) over the admission of metrics.ts.  Evidence     *)
(* keeps arriving while evaluators each read the history, evaluate a       *)
(* stage against the report they saw last and append their report.         *)
(*                                                                         *)
(* A comparison triplet is one unit: its profile says what the blocks of   *)
(* its three arms showed.  Gains are whole numbers; a bootstrap interval   *)
(* is either the point itself or the range of the sample (`eWide`), fixed  *)
(* for the pilot because the resampling seed is.                           *)
(***************************************************************************)
EXTENDS Naturals, Integers, Sequences, FiniteSets, FiniteSetsExt

CONSTANTS
    Triplets,      \* 1 .. n, in the order of their identities
    StageLimit,    \* stageLimit: triplets of stage 1, 2 and 3
    Profiles,      \* what the blocks of a triplet can have shown
    Shown,         \* profile -> [valid, gain, measured, stratum]
    EligibleStrata,\* strata whose policy allows promotion
    MinCompleteness, \* branch -> least share of measured triplets, in per cent
    MaxMaterial,   \* max_escaped_material_defects
    MinStratum,    \* min_stratum_triplets_for_promotion
    MaxHeld,       \* bound on the reports evaluators hold at a time
    MaxVersions,   \* bound on the length of the history
    MaxLater       \* bound on defects and late quality evidence recorded

ASSUME EvaluationAssumption ==
    /\ IsFiniteSet(Triplets) /\ Triplets = 1 .. Cardinality(Triplets)
    /\ StageLimit \in [1 .. 3 -> Nat \ {0}]
    /\ MinCompleteness \in [{"cost", "tokens"} -> 1 .. 100]
    /\ {MaxMaterial, MinStratum, MaxHeld, MaxVersions, MaxLater} \subseteq Nat

VARIABLES
    eProfile,  \* triplet -> its profile, or "missing"
    eClosed,   \* triplets whose post-acceptance windows are closed
    eDefects,  \* recorded <<triplet, arm>> material defects
    eLate,     \* late_quality_evidence_count
    eWide,     \* the bootstrap interval is the range of the sample
    eHistory,  \* stage and decision of the reports appended, in order
    eNewest,   \* the evidence the newest of them was decided on
    eHeld      \* the reports that evaluators hold and may append

evaluationVars == <<eProfile, eClosed, eDefects, eLate, eWide, eHistory, eNewest, eHeld>>

Stages == 1 .. 3
Material == 2     \* material_improvement_rate and economic_rejection_rate

(***************************************************************************)
(* Admission: exclusionReasons, stageObservations.                         *)
(***************************************************************************)
StageTriplets(stage) == {t \in Triplets : t <= StageLimit[stage]}
Observed(ts) == {t \in ts : eProfile[t] # "missing"}
Admitted(ts) == {t \in Observed(ts) : Shown[eProfile[t]].valid /\ t \in eClosed}
IntegrityFailure(ts) == \E t \in Observed(ts) : ~Shown[eProfile[t]].valid

(***************************************************************************)
(* Quality: pairedDifference over qualitySuccess, with its interval.       *)
(***************************************************************************)
QualitySuccess(t, arm) == <<t, arm>> \notin eDefects
QualityGain(t) == (IF QualitySuccess(t, "C") THEN 1 ELSE 0)
                    - (IF QualitySuccess(t, "A") THEN 1 ELSE 0)
QualityDifference(ts) == MapThenSumSet(QualityGain, ts)
\* The lower and the upper end of the interval of a sample, given as a
\* function from its triplets to their gains, against a bound.
LowerBelow(gain, bound) ==
    /\ DOMAIN gain # {}
    /\ IF eWide THEN \E t \in DOMAIN gain : gain[t] < bound
       ELSE MapThenSumSet(LAMBDA t : gain[t], DOMAIN gain) < bound * Cardinality(DOMAIN gain)
UpperBelow(gain, bound) ==
    /\ DOMAIN gain # {}
    /\ IF eWide THEN \A t \in DOMAIN gain : gain[t] < bound
       ELSE MapThenSumSet(LAMBDA t : gain[t], DOMAIN gain) < bound * Cardinality(DOMAIN gain)

(***************************************************************************)
(* branchRecord: cost and strong tokens are judged on the triplets that    *)
(* measured them, when those are enough of the population.  A baseline of  *)
(* zero, which makes a branch unusable or rejects, is left out.            *)
(***************************************************************************)
Gain(t) == Shown[eProfile[t]].gain
Measured(ts, branch) == {t \in ts : branch \in Shown[eProfile[t]].measured}
Complete(ts, branch) ==
    ts # {} /\ 100 * Cardinality(Measured(ts, branch)) >= MinCompleteness[branch] * Cardinality(ts)

BranchStatus(ts, branch) ==
    LET population == Measured(ts, branch)
        gains == [t \in population |-> Gain(t)]
    IN
    IF ~Complete(ts, branch) THEN "UNUSABLE"
    ELSE IF /\ MapThenSumSet(Gain, population) >= Material * Cardinality(population)
            /\ ~LowerBelow(gains, Material) THEN "PASS"
    ELSE IF UpperBelow(gains, Material) THEN "FAIL_POINT"
    ELSE "AMBIGUOUS"
BranchStatuses(ts) == {BranchStatus(ts, "cost"), BranchStatus(ts, "tokens")}

(***************************************************************************)
(* hardRejectReasons.  The limits on high and critical defects, on parent  *)
(* rework and on wall time, any of which rejects alone, and the comparison *)
(* of acceptances are left out: each is one more reason like the quality   *)
(* and the defects of the candidate.                                       *)
(***************************************************************************)
HardReject(ts) ==
    LET admitted == Admitted(ts) IN
    \/ IntegrityFailure(ts)
    \/ QualityDifference(admitted) < 0
    \/ Cardinality({t \in admitted : <<t, "C">> \in eDefects}) > MaxMaterial
    \/ LET costed == Measured(admitted, "cost") IN
       /\ Complete(admitted, "cost")
       /\ MapThenSumSet(Gain, costed) <= -Material * Cardinality(costed)

(***************************************************************************)
(* stratumReports                                                          *)
(***************************************************************************)
PromotableStrata(ts) ==
    {s \in EligibleStrata :
       LET members == {t \in Admitted(ts) : Shown[eProfile[t]].stratum = s} IN
       /\ Cardinality(members) >= MinStratum
       /\ members # {} /\ ~LowerBelow([t \in members |-> QualityGain(t)], 0)
       /\ "PASS" \in BranchStatuses(members)}

(***************************************************************************)
(* The decision of evaluatePilot.                                          *)
(***************************************************************************)
Later(stage, second) == IF stage = 2 THEN second ELSE "INCONCLUSIVE"

Decision(stage) ==
    LET ts == StageTriplets(stage)
        admitted == Admitted(ts)
        branches == BranchStatuses(admitted)
    IN
    IF HardReject(ts) THEN "REJECT"
    ELSE IF stage = 1 THEN "CONTINUE"
    ELSE IF Cardinality(admitted) < StageLimit[stage]
         THEN Later(stage, "INSUFFICIENT_EVIDENCE")
    ELSE IF LowerBelow([t \in admitted |-> QualityGain(t)], 0) THEN Later(stage, "CONTINUE")
    ELSE IF "PASS" \in branches
         THEN IF /\ \A t \in admitted : "wall" \in Shown[eProfile[t]].measured
                 /\ PromotableStrata(ts) # {}
              THEN "PROMOTE_BOUNDED"
              ELSE Later(stage, "INSUFFICIENT_EVIDENCE")
    ELSE IF "AMBIGUOUS" \in branches THEN Later(stage, "CONTINUE")
    ELSE IF branches = {"FAIL_POINT"} THEN "REJECT"
    ELSE Later(stage, "INSUFFICIENT_EVIDENCE")

(***************************************************************************)
(* decisionInputHash and qualityEvidence.  Apart from quality evidence an  *)
(* observation never changes, so their number identifies the input.        *)
(***************************************************************************)
DecisionInput == Cardinality(Observed(Triplets))
QualityCount == Cardinality(eClosed) + Cardinality(eDefects) + eLate

Terminal(decision) == decision \in {"REJECT", "PROMOTE_BOUNDED"}

\* Mutant: a pilot that was not promoted at the last stage may be promoted later.
CannotPromoteRejected(prior) == prior.decision = "REJECT"

CannotPromote(prior) ==
    prior.decision = "REJECT" \/ (prior.stage = 3 /\ prior.decision # "PROMOTE_BOUNDED")

(***************************************************************************)
(* What validateContext and validateHistoryTransition both require of a    *)
(* report that supersedes `prior`, the last report its author saw.         *)
(***************************************************************************)
Supersedes(prior, report) ==
    /\ report.version = prior.version + 1
    /\ report.stage \in {prior.stage, prior.stage + 1}
    /\ Terminal(prior.decision) => report.stage = prior.stage
    /\ report.late >= prior.late /\ report.quality >= prior.quality
    /\ report.stage = prior.stage =>
          /\ report.quality > prior.quality
          /\ report.input = prior.input
          /\ ~(report.decision = "PROMOTE_BOUNDED" /\ CannotPromote(prior))

Newest == [version |-> Len(eHistory), stage |-> eHistory[Len(eHistory)].stage,
           decision |-> eHistory[Len(eHistory)].decision,
           input |-> eNewest.input, quality |-> eNewest.quality, late |-> eNewest.late]

-----------------------------------------------------------------------------
(* The evidence the reducer derives from the log grows. *)
Observe(t, profile) ==
    /\ eProfile[t] = "missing"
    /\ eProfile' = [eProfile EXCEPT ![t] = profile]
    /\ UNCHANGED <<eClosed, eDefects, eLate, eWide, eHistory, eNewest, eHeld>>

WindowCloses(t) ==
    /\ eProfile[t] # "missing" /\ t \notin eClosed
    /\ eClosed' = eClosed \cup {t}
    /\ UNCHANGED <<eProfile, eDefects, eLate, eWide, eHistory, eNewest, eHeld>>

DefectFound(t, arm) ==
    /\ eProfile[t] # "missing" /\ Cardinality(eDefects) + eLate < MaxLater
    /\ eDefects' = eDefects \cup {<<t, arm>>}
    /\ UNCHANGED <<eProfile, eClosed, eLate, eWide, eHistory, eNewest, eHeld>>

LateEvidence ==
    /\ Cardinality(eDefects) + eLate < MaxLater /\ \E t \in Triplets : eProfile[t] # "missing"
    /\ eLate' = eLate + 1
    /\ UNCHANGED <<eProfile, eClosed, eDefects, eWide, eHistory, eNewest, eHeld>>

(***************************************************************************)
(* evaluatePilot: a report that validateContext refuses is never built.    *)
(***************************************************************************)
EvaluatePilot(stage) ==
    LET report == [version |-> Len(eHistory) + 1, stage |-> stage,
                   decision |-> Decision(stage), input |-> DecisionInput,
                   quality |-> QualityCount, late |-> eLate]
    IN
    /\ Len(eHistory) < MaxVersions /\ Cardinality(eHeld) < MaxHeld
    /\ IF eHistory = <<>> THEN stage = 1 ELSE Supersedes(Newest, report)
    /\ eHeld' = eHeld \cup {report}
    /\ UNCHANGED <<eProfile, eClosed, eDefects, eLate, eWide, eHistory, eNewest>>

(***************************************************************************)
(* appendEvaluation: a report appended before is answered with the history *)
(* as it is, and another report of the same version is a collision.        *)
(***************************************************************************)
Appendable(report) ==
    /\ report.version \notin DOMAIN eHistory
    /\ eHistory = <<>> \/ Supersedes(Newest, report)

AppendEvaluation(report) ==
    /\ IF Appendable(report)
       THEN /\ eHistory' = Append(eHistory, [stage |-> report.stage,
                                             decision |-> report.decision])
            /\ eNewest' = [input |-> report.input, quality |-> report.quality,
                           late |-> report.late]
       ELSE UNCHANGED <<eHistory, eNewest>>
    /\ eHeld' = eHeld \ {report}
    /\ UNCHANGED <<eProfile, eClosed, eDefects, eLate, eWide>>

EvaluationInit ==
    /\ eProfile = [t \in Triplets |-> "missing"]
    /\ eClosed = {} /\ eDefects = {} /\ eLate = 0
    /\ eWide \in BOOLEAN
    /\ eHistory = <<>> /\ eNewest = [input |-> 0, quality |-> 0, late |-> 0]
    /\ eHeld = {}

EvaluationNext ==
    \/ \E t \in Triplets, p \in Profiles : Observe(t, p)
    \/ \E t \in Triplets : WindowCloses(t)
    \/ \E t \in Triplets, arm \in {"A", "C"} : DefectFound(t, arm)
    \/ LateEvidence
    \/ \E stage \in Stages : EvaluatePilot(stage)
    \/ \E report \in eHeld : AppendEvaluation(report)

EvaluationSpec == EvaluationInit /\ [][EvaluationNext]_evaluationVars
-----------------------------------------------------------------------------
Decisions == {"REJECT", "CONTINUE", "INSUFFICIENT_EVIDENCE", "INCONCLUSIVE",
              "PROMOTE_BOUNDED"}
EvaluationReport ==
    [version : 1 .. MaxVersions, stage : Stages,
     decision : Decisions, input : Nat,
     quality : Nat, late : Nat]

(* Type invariant of the gate. *)
EvaluationTypeOK ==
    /\ eProfile \in [Triplets -> Profiles \cup {"missing"}]
    /\ eClosed \subseteq Triplets /\ eDefects \subseteq Triplets \X {"A", "C"}
    /\ eLate \in 0 .. MaxLater
    /\ eHistory \in Seq([stage : Stages, decision : Decisions])
    /\ eNewest \in [input : Nat, quality : Nat, late : Nat]
    /\ eHeld \subseteq EvaluationReport

(* However the evaluators race, the newest report never claims evidence    *)
(* that is not there, no pilot is promoted without a look at every earlier *)
(* stage that ended open, and a pilot that was not promoted at the last    *)
(* stage never is (evaluate.ts validateHistoryTransition, evaluatePilot).  *)
PromotionsAreEarned ==
    /\ eNewest.quality <= QualityCount
    /\ \A j \in DOMAIN eHistory :
       /\ \A i \in 1 .. j - 1 : eHistory[i].stage <= eHistory[j].stage
       /\ eHistory[j].decision = "PROMOTE_BOUNDED" =>
             /\ eHistory[j].stage > 1
             /\ \A s \in 1 .. eHistory[j].stage - 1 : \E i \in 1 .. j - 1 :
                   /\ eHistory[i].stage = s /\ eHistory[i + 1].stage = s + 1
                   /\ ~Terminal(eHistory[i].decision)
             /\ \A i \in 1 .. j - 1 :
                   eHistory[i].stage = 3 => eHistory[i].decision = "PROMOTE_BOUNDED"

(* "a rejected pilot cannot advance to a new primary look"                 *)
(* (tests/pilot-evaluate.test.ts): once a stage is rejected, no report is  *)
(* about a later stage.                                                    *)
RejectedPilotStops ==
    \A i, j \in DOMAIN eHistory :
       i < j /\ eHistory[i].decision = "REJECT" => eHistory[j].stage = eHistory[i].stage
=============================================================================
