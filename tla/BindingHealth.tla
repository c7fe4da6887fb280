--------------------------- MODULE BindingHealth ----------------------------
(***************************************************************************)
(* Quarantine of a model binding from its recorded outcomes, and the lane  *)
(* a task is routed to: evaluateRuntimeBindingHealthV4 and                 *)
(* runtimeBindingHealthAllowsV4 (src/runtime/binding-health.ts),           *)
(* resolveAdaptiveExecutionPolicyV4 (adaptive-execution.ts) and the route  *)
(* of deriveWorkContract (routing.ts).                                     *)
(*                                                                         *)
(* Observations are evidence files: they may be recorded in any order, and *)
(* an evaluation replays all that the host then has by the time they       *)
(* carry.  Routing evaluates nothing: it takes the snapshots that          *)
(* loadBindingHealth supplies, however old, and allows a binding that has  *)
(* none.  One binding is followed for one task trait; a time carries at    *)
(* most one observation (equal times are ordered by identity in the code). *)
(***************************************************************************)
EXTENDS Integers, Sequences, FiniteSets

CONSTANTS
    MaxTime,            \* bound on the clock
    WindowSize, MinimumObservations, MaximumFailureRate,  \* rate in basis points
    MaximumConsecutive, Cooldown, RecoveryCanaries

ASSUME HealthAssumption ==
    /\ MaxTime \in Nat
    /\ {WindowSize, MinimumObservations, MaximumFailureRate, MaximumConsecutive,
        Cooldown, RecoveryCanaries} \subseteq Nat \ {0}

VARIABLES
    hNow,       \* the time of the next evaluation
    hOutcomes,  \* time -> recorded outcome, or "none"
    hSupplied,  \* the host supplies a snapshot of the followed binding
    hEvidence,  \* the outcomes that snapshot was evaluated from
    hRole,      \* the role of the binding in the profile
    hOthers,    \* roles whose binding is allowed by its snapshots, this one aside
    hQualified  \* roles whose binding supports the task

healthScope == <<hRole, hOthers, hQualified>>
healthVars == <<hNow, hOutcomes, hSupplied, hEvidence, healthScope>>

Roles == {"executor", "reasoningExecutor", "frontierExecutor"}
Lanes == {"MECHANICAL_ECONOMY", "REASONING_ECONOMY", "FRONTIER_EXECUTION"}
Outcomes == {"ACCEPTED", "CANARY_ACCEPTED", "FAILED", "CRITICAL"}
IsFailure(outcome) == outcome \in {"FAILED", "CRITICAL"}

(* Math.round((failures * 10000) / observations) *)
FailureRate(recent) ==
    LET n == Len(recent)
        failed == Cardinality({i \in DOMAIN recent : recent[i]})
    IN IF n = 0 THEN 0 ELSE (20000 * failed + n) \div (2 * n)

Slide(recent, failed) ==
    LET all == Append(recent, failed) IN
    IF Len(all) > WindowSize THEN SubSeq(all, Len(all) - WindowSize + 1, Len(all)) ELSE all

(***************************************************************************)
(* The loop of evaluateRuntimeBindingHealthV4, and its turns.               *)
(***************************************************************************)
Healthy == [status |-> "HEALTHY", since |-> 0, canaries |-> 0,
            recent |-> <<>>, consecutive |-> 0]

ObserveHealthy(health, time, outcome) ==
    LET failed == IsFailure(outcome)
        recent == IF outcome = "CANARY_ACCEPTED" THEN health.recent
                  ELSE Slide(health.recent, failed)
        consecutive == IF failed THEN health.consecutive + 1 ELSE 0
        next == [health EXCEPT !.recent = recent, !.consecutive = consecutive]
    IN IF \/ outcome = "CRITICAL"
          \/ consecutive >= MaximumConsecutive
          \/ Len(recent) >= MinimumObservations /\ FailureRate(recent) > MaximumFailureRate
       THEN [next EXCEPT !.status = "QUARANTINED", !.since = time, !.canaries = 0]
       ELSE next

\* Mutant: a canary counts during the cooldown.
CountsAsCanaryAnytime(health, time, outcome) == outcome = "CANARY_ACCEPTED"
CountsAsCanary(health, time, outcome) ==
    outcome = "CANARY_ACCEPTED" /\ time >= health.since + Cooldown

ObserveQuarantined(health, time, outcome) ==
    IF IsFailure(outcome)
    THEN [health EXCEPT !.status = "QUARANTINED", !.since = time, !.canaries = 0,
                        !.consecutive = @ + 1]
    ELSE IF ~CountsAsCanary(health, time, outcome) THEN health
    ELSE IF health.canaries + 1 >= RecoveryCanaries
    THEN [Healthy EXCEPT !.canaries = health.canaries + 1]
    ELSE [health EXCEPT !.status = "PROBATION", !.canaries = @ + 1]

\* One turn of the loop over the observations, in the order of their times.
Turn(health, time) ==
    IF hEvidence[time] = "none" THEN health
    ELSE IF health.status = "HEALTHY" THEN ObserveHealthy(health, time, hEvidence[time])
    ELSE ObserveQuarantined(health, time, hEvidence[time])

Replay[time \in 0 .. MaxTime] ==
    IF time = 0 THEN Healthy ELSE Turn(Replay[time - 1], time)

EvaluateBindingHealth == Replay[MaxTime]

NormalRoutingAllowed == EvaluateBindingHealth.status = "HEALTHY"

\* runtimeBindingHealthAllowsV4: snapshot?.normalRoutingAllowed ?? true.  No clock is read.
BindingHealthAllows == hSupplied => NormalRoutingAllowed

(***************************************************************************)
(* The lane and role of resolveAdaptiveExecutionPolicyV4, "none" when it   *)
(* throws.  deriveWorkContract forces the frontier lane when the request   *)
(* or the repository's policy requires it.                                 *)
(***************************************************************************)
Usable(role) ==
    role \in hQualified /\ IF role = hRole THEN BindingHealthAllows ELSE role \in hOthers

SelectRole(lane) ==
    IF lane = "MECHANICAL_ECONOMY" /\ Usable("executor") THEN "executor"
    ELSE IF lane # "FRONTIER_EXECUTION" /\ Usable("reasoningExecutor")
         THEN "reasoningExecutor"
    ELSE IF Usable("frontierExecutor") THEN "frontierExecutor" ELSE "none"

LaneOf(role) == CASE role = "executor"          -> "MECHANICAL_ECONOMY"
                  [] role = "reasoningExecutor" -> "REASONING_ECONOMY"
                  [] role = "frontierExecutor"  -> "FRONTIER_EXECUTION"
Rank(lane) == CASE lane = "MECHANICAL_ECONOMY" -> 1
                [] lane = "REASONING_ECONOMY"  -> 2
                [] lane = "FRONTIER_EXECUTION" -> 3

-----------------------------------------------------------------------------
HealthInit ==
    /\ hNow = 0
    /\ hOutcomes = [t \in 1 .. MaxTime |-> "none"] /\ hEvidence = hOutcomes /\ hSupplied = FALSE
    /\ hRole \in Roles
    /\ hOthers \in {{}, Roles \ {hRole}}
    /\ hQualified \in {Roles, {"frontierExecutor"}}

HealthTick ==
    /\ hNow < MaxTime
    /\ hNow' = hNow + 1
    /\ UNCHANGED <<hOutcomes, hSupplied, hEvidence, healthScope>>

(* An outcome is recorded, now or, late, with an earlier time. *)
RecordOutcome(time, outcome) ==
    /\ time <= hNow /\ hOutcomes[time] = "none"
    /\ hOutcomes' = [hOutcomes EXCEPT ![time] = outcome]
    /\ UNCHANGED <<hNow, hSupplied, hEvidence, healthScope>>

(* The host evaluates what is recorded and supplies that snapshot from now *)
(* on: it is as old at an admission as nobody evaluates again.             *)
SupplySnapshot ==
    /\ hSupplied' = TRUE /\ hEvidence' = hOutcomes
    /\ UNCHANGED <<hNow, hOutcomes, healthScope>>

(* Its port supplies none, as when it has no port. *)
WithholdSnapshot ==
    /\ hSupplied /\ hSupplied' = FALSE /\ hEvidence' = [t \in 1 .. MaxTime |-> "none"]
    /\ UNCHANGED <<hNow, hOutcomes, healthScope>>

HealthNext ==
    \/ HealthTick \/ SupplySnapshot \/ WithholdSnapshot
    \/ \E t \in 1 .. MaxTime, o \in Outcomes : RecordOutcome(t, o)

HealthSpec == HealthInit /\ [][HealthNext]_healthVars
-----------------------------------------------------------------------------
(* Type invariant of the followed binding. *)
HealthTypeOK ==
    /\ hNow \in 0 .. MaxTime /\ hRole \in Roles
    /\ hOutcomes \in [1 .. MaxTime -> Outcomes \cup {"none"}]
    /\ hEvidence \in [1 .. MaxTime -> Outcomes \cup {"none"}] /\ hSupplied \in BOOLEAN
    /\ hOthers \subseteq Roles /\ hQualified \subseteq Roles
    /\ EvaluateBindingHealth.status \in {"HEALTHY", "QUARANTINED", "PROBATION"}

\* The observations the snapshot was evaluated from.
Seen     == {t \in 1 .. MaxTime : hEvidence[t] # "none"}
Failures == {t \in Seen : IsFailure(hEvidence[t])}
Canaries == {t \in Seen : hEvidence[t] = "CANARY_ACCEPTED"}

\* The failure at f was followed, after the cooldown and without another
\* failure, by enough accepted canaries.
RecoveredFrom(f) ==
    \E last \in Canaries :
       /\ Cardinality({k \in Canaries : f + Cooldown <= k /\ k <= last}) >= RecoveryCanaries
       /\ \A g \in Failures : ~(f < g /\ g <= last)

\* The failure at g completes a run of consecutive failures.
RunEndsAt(g) ==
    \E first \in Seen :
       /\ {t \in Seen : first <= t /\ t <= g} \subseteq Failures
       /\ Cardinality({t \in Seen : first <= t /\ t <= g}) >= MaximumConsecutive

(* A task is only ever routed to a binding that the profile qualifies, on  *)
(* a lane no cheaper than asked for; and to one of which the host supplied *)
(* a snapshot only if it recovered, by canaries accepted after the         *)
(* cooldown, from every authority violation, false acceptance and run of   *)
(* consecutive failures recorded when the snapshot was taken, in whatever  *)
(* order the evidence came (binding-health.ts evaluate and allows,         *)
(* adaptive-execution.ts resolveAdaptiveExecutionPolicyV4).  A failure     *)
(* recorded after the snapshot, or a missing snapshot, stops nothing.      *)
QuarantineHolds ==
    /\ \A t \in Seen : hEvidence[t] = hOutcomes[t]
    /\ \A lane \in Lanes : LET role == SelectRole(lane) IN
         role # "none" =>
            /\ role \in hQualified /\ Rank(LaneOf(role)) >= Rank(lane)
            /\ role = hRole /\ hSupplied =>
                  \A c \in Failures : hEvidence[c] = "CRITICAL" \/ RunEndsAt(c) =>
                      \E f \in Failures : c <= f /\ RecoveredFrom(f)
=============================================================================
