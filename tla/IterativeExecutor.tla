-------------------------- MODULE IterativeExecutor --------------------------
(***************************************************************************)
(* The story loop of src/runtime/iterative-executor.ts and the supervisor  *)
(* of frontier-supervisor.ts that drives it in FRONTIER_LED mode.          *)
(*                                                                         *)
(* A call of the executor replays the persisted iteration events and       *)
(* frontier decisions, and then appends to both, one awaited effect at a   *)
(* time.  Any awaited call may throw, and the process may die, before or   *)
(* after the effect; the next call starts from what was persisted.         *)
(*                                                                         *)
(* Abstractions.  Stories are numbered in the order of (priority,          *)
(* story_id).  An event is named by its position (its hash), a decision    *)
(* likewise.  Evidence that is checked and then only stored (changes, line *)
(* counts, manifests, session ids) is left out: failing its check is one   *)
(* of the ways a step throws.                                              *)
(***************************************************************************)
EXTENDS Integers, Sequences, FiniteSets

CONSTANTS
    NumStories,     \* stories of the plan
    Depends,        \* depends_on
    MaxAttempts,    \* max_attempts of every story
    MaxIterations,  \* plan.max_iterations
    RepeatLimit,    \* worker.limits.no_progress_repeat_limit
    MaxDecisions,   \* the supervisor's max_frontier_decisions
    NumTrees,       \* distinct candidate trees
    NumSignatures   \* distinct normalized failure signatures per gate

Stories == 1..NumStories

\* loadIterativeStoryPlanV4 with assertDag, and the limits of worker and supervisor.
ASSUME PlanAssumption ==
    /\ NumStories \in Nat \ {0} /\ MaxAttempts \in Nat \ {0} /\ MaxIterations \in Nat \ {0}
    /\ RepeatLimit \in Nat \ {0, 1} /\ MaxDecisions \in Nat \ {0}
    /\ NumTrees \in Nat \ {0} /\ NumSignatures \in Nat \ {0}
    /\ Depends \in [Stories -> SUBSET Stories]
    /\ \A S \in SUBSET Stories : S # {} => \E s \in S : Depends[s] \cap S = {}

None        == 0
InitialTree == 0
Trees       == 0..NumTrees
\* A failure is the validator's or the reviewer's: the hash binds both.
Signatures  == 1..(2 * NumSignatures)

VARIABLES
    \* what the host persists
    events, decisions,
    \* the host's choice of review control
    controlMode,
    \* the call in progress
    pc, supervised, supplied, attempts, accepted, treeHash, activeDecision, candidate, signature,
    \* what the last call returned
    result

durable == <<events, decisions>>
memory  == <<attempts, accepted, treeHash>>
vars    == <<events, decisions, controlMode, pc, supervised, supplied, attempts, accepted,
             treeHash, activeDecision, candidate, signature, result>>

Reasons == {"NULL", "NO_PROGRESS", "ATTEMPT_LIMIT"}
Events ==
    [story : Stories, attempt : Nat, input : Trees, candidate : Trees,
     outcome : {"ACCEPTED", "RETRY", "ESCALATE"}, signature : Signatures \cup {None},
     reason : Reasons, repaired : BOOLEAN, decision : Nat]
Actions   == {"RETRY", "ESCALATE"}
Decisions == [target : Nat, action : Actions]
NoDecision == [target |-> 0, action |-> "RETRY"]
Results == {"NONE", "COMPLETE", "ESCALATE", "ITERATION_LIMIT", "AWAITING_FRONTIER_DECISION", "THROWN"}

-----------------------------------------------------------------------------
(* What the first n events amount to. *)

AcceptedBy(evs, n) == {evs[i].story : i \in {j \in 1..n : evs[j].outcome = "ACCEPTED"}}

AttemptsBy(evs, n, s) == Cardinality({j \in 1..n : evs[j].story = s})

TreeBy(evs, n) ==
    LET A == {j \in 1..n : evs[j].outcome = "ACCEPTED"} IN
    IF A = {} THEN InitialTree ELSE evs[CHOOSE i \in A : \A j \in A : j <= i].candidate

\* Consecutive rejections of story s with signature g that end at event n.
RepeatsBy(evs, n, s, g) ==
    Cardinality({i \in 1..n : \A j \in i..n :
        evs[j].story = s /\ evs[j].outcome # "ACCEPTED" /\ evs[j].signature = g})

\* nextStory: the first open story whose dependencies are accepted.
NextStory(acc) ==
    LET ready == {s \in Stories \ acc : Depends[s] \subseteq acc} IN
    IF ready = {} THEN None ELSE CHOOSE s \in ready : \A t \in ready : s <= t

\* escalation_reason of a rejection.
Reason(repeats, attempt) ==
    IF repeats >= RepeatLimit THEN "NO_PROGRESS"
    ELSE IF attempt >= MaxAttempts THEN "ATTEMPT_LIMIT" ELSE "NULL"

-----------------------------------------------------------------------------
(* Replay: what a call requires of the history it is given. *)

EventReplays(evs, i) ==
    LET e == evs[i]
        repeats == 1 + RepeatsBy(evs, i - 1, e.story, e.signature) IN
    /\ e.input = TreeBy(evs, i - 1) /\ e.candidate # e.input
    /\ e.story = NextStory(AcceptedBy(evs, i - 1))
    /\ e.attempt = AttemptsBy(evs, i - 1, e.story) + 1 /\ e.attempt <= MaxAttempts
    /\ e.repaired <=> e.attempt > 1
    /\ (e.outcome = "ACCEPTED") <=> (e.signature = None)
    /\ e.reason = (IF e.outcome = "ACCEPTED" THEN "NULL" ELSE Reason(repeats, e.attempt))
    /\ e.outcome = "ESCALATE" => i = Len(evs)
    /\ e.outcome # "ACCEPTED" => ((e.outcome = "ESCALATE") <=> (e.reason # "NULL"))

HistoryReplays(evs) == Len(evs) <= MaxIterations /\ \A i \in DOMAIN evs : EventReplays(evs, i)

\* The chain of decisions: each for one rejection, in order; a RETRY is consumed
\* by the next event or is the last decision, an ESCALATE ends both histories.
DecisionReplays(evs, decs, k) ==
    LET d == decs[k] IN
    /\ d.target \in DOMAIN evs /\ evs[d.target].outcome = "RETRY"
    /\ \A j \in 1..(k - 1) : decs[j].target < d.target
    /\ IF d.target < Len(evs)
       THEN d.action = "RETRY" /\ evs[d.target + 1].decision = k
       ELSE k = Len(decs)

RetryIsDecided(evs, decs, i) ==
    /\ evs[i].decision \in DOMAIN decs /\ decs[evs[i].decision] = [target |-> i - 1, action |-> "RETRY"]
    /\ i > 1 /\ evs[i - 1].story = evs[i].story /\ evs[i - 1].outcome = "RETRY"

DecisionsReplay(evs, decs) ==
    /\ Len(decs) <= MaxIterations
    /\ controlMode = "AUTONOMOUS_BROKER" => decs = <<>>
    /\ \A k \in DOMAIN decs : DecisionReplays(evs, decs, k)
    /\ \A i \in DOMAIN evs :
        IF evs[i].attempt = 1 \/ controlMode = "AUTONOMOUS_BROKER"
        THEN evs[i].decision = None
        ELSE RetryIsDecided(evs, decs, i)

Rejected == events # <<>> /\ events[Len(events)].outcome = "RETRY"

\* A decision about the last rejection that nothing has consumed yet.
Decided(action) ==
    Rejected /\ decisions # <<>> /\ decisions[Len(decisions)] = [target |-> Len(events), action |-> action]

Escalated == (events # <<>> /\ events[Len(events)].outcome = "ESCALATE") \/ Decided("ESCALATE")

-----------------------------------------------------------------------------
Init ==
    /\ events = <<>> /\ decisions = <<>>
    /\ controlMode \in {"AUTONOMOUS_BROKER", "FRONTIER_LED"}
    /\ pc = "idle" /\ supervised = FALSE /\ supplied = NoDecision
    /\ attempts = [s \in Stories |-> 0] /\ accepted = {} /\ treeHash = InitialTree
    /\ activeDecision = None /\ candidate = InitialTree /\ signature = None
    /\ result = "NONE"

\* The call returns r, or throws; its memory is gone.
Finish(r) ==
    /\ pc' = "idle" /\ result' = r
    /\ supervised' = FALSE /\ supplied' = NoDecision
    /\ attempts' = [s \in Stories |-> 0] /\ accepted' = {} /\ treeHash' = InitialTree
    /\ activeDecision' = None /\ candidate' = InitialTree /\ signature' = None

\* AWAITING_FRONTIER_DECISION: returned to the host, or the supervisor asks its port.
AwaitDecision(sup) ==
    IF ~sup THEN Finish("AWAITING_FRONTIER_DECISION")
    ELSE IF Len(decisions) >= MaxDecisions THEN Finish("THROWN")
    ELSE /\ pc' = "decide" /\ supervised' = TRUE
         /\ supplied' = NoDecision /\ activeDecision' = None
         /\ candidate' = InitialTree /\ signature' = None
         /\ attempts' = [s \in Stories |-> 0] /\ accepted' = {} /\ treeHash' = InitialTree
         /\ UNCHANGED result

\* A decision that is not for this mode, not pending, or given twice.
Refused(d) ==
    /\ d # NoDecision
    /\ \/ controlMode # "FRONTIER_LED" \/ ~Rejected \/ Decided("RETRY") \/ d.target # Len(events)
       \/ \E k \in DOMAIN decisions : decisions[k].target = d.target

\* The part of runIterativeExecutorV4 before its loop: no await separates its steps.
Enter(sup, d) ==
    IF ~(HistoryReplays(events) /\ DecisionsReplay(events, decisions)) THEN Finish("THROWN")
    ELSE IF Escalated THEN Finish("ESCALATE")
    ELSE IF Refused(d) THEN Finish("THROWN")
    ELSE IF controlMode = "FRONTIER_LED" /\ Rejected /\ d = NoDecision /\ ~Decided("RETRY")
    THEN AwaitDecision(sup)
    ELSE /\ pc' = (IF d = NoDecision THEN "loop" ELSE "authorize")
         /\ supervised' = sup /\ supplied' = d
         /\ attempts' = [s \in Stories |-> AttemptsBy(events, Len(events), s)]
         /\ accepted' = AcceptedBy(events, Len(events)) /\ treeHash' = TreeBy(events, Len(events))
         /\ activeDecision' = (IF Decided("RETRY") THEN Len(decisions) ELSE None)
         /\ UNCHANGED <<candidate, signature, result>>

\* The host calls the executor, with or without a decision, or the supervisor.
Call(d)   == pc = "idle" /\ Enter(FALSE, d) /\ UNCHANGED <<durable, controlMode>>
Supervise == pc = "idle" /\ controlMode = "FRONTIER_LED" /\ Enter(TRUE, NoDecision)
             /\ UNCHANGED <<durable, controlMode>>

\* The supervisor binds the answer of `decide` to the last event and calls again.
Decide(action) ==
    /\ pc = "decide"
    /\ Enter(TRUE, [target |-> Len(events), action |-> action])
    /\ UNCHANGED <<durable, controlMode>>

\* persist_frontier_decision, before the decision can take effect.
Authorize ==
    /\ pc = "authorize"
    /\ decisions' = Append(decisions, supplied)
    /\ IF supplied.action = "ESCALATE" THEN Finish("ESCALATE")
       ELSE /\ activeDecision' = Len(decisions) + 1 /\ pc' = "loop"
            /\ UNCHANGED <<supervised, supplied, memory, candidate, signature, result>>
    /\ UNCHANGED <<events, controlMode>>

\* It is persisted, but the answer is lost.
AuthorizeLost ==
    /\ pc = "authorize"
    /\ decisions' = Append(decisions, supplied)
    /\ Finish("THROWN")
    /\ UNCHANGED <<events, controlMode>>

-----------------------------------------------------------------------------
(* The loop. *)

Story   == NextStory(accepted)
Attempt == attempts[Story] + 1
Quiet   == UNCHANGED <<durable, controlMode>>

AtLimit ==
    /\ pc = "loop" /\ Len(events) >= MaxIterations
    /\ Finish(IF accepted = Stories THEN "COMPLETE" ELSE "ITERATION_LIMIT") /\ Quiet

\* No story is left; a graph without a ready story would be a violation.
NoStory ==
    /\ pc = "loop" /\ Len(events) < MaxIterations /\ Story = None
    /\ Finish(IF accepted = Stories THEN "COMPLETE" ELSE "THROWN") /\ Quiet

\* The checks between the story's selection and the worker: out of attempts, or a
\* retry without its decision or without the failure it repairs.
PriorFailure ==
    \E i \in DOMAIN events :
        /\ events[i].story = Story /\ events[i].outcome # "ACCEPTED" /\ events[i].attempt = Attempt - 1
        /\ \A j \in (i + 1)..Len(events) : events[j].story # Story \/ events[j].outcome = "ACCEPTED"

SelectStory ==
    /\ pc = "loop" /\ Len(events) < MaxIterations /\ Story # None
    /\ IF Attempt > MaxAttempts THEN Finish("ESCALATE")
       ELSE IF Attempt > 1 /\ ((controlMode = "FRONTIER_LED" /\ activeDecision = None) \/ ~PriorFailure)
       THEN Finish("THROWN")
       ELSE /\ pc' = (IF Attempt > 1 THEN "repair" ELSE "execute")
            /\ UNCHANGED <<supervised, supplied, memory, activeDecision, candidate, signature, result>>
    /\ Quiet

\* Mutant: the story is selected again once its packet is loaded.
LoadRepairPacketAgain ==
    /\ pc = "repair" /\ pc' = "loop"
    /\ UNCHANGED <<supervised, supplied, memory, activeDecision, candidate, signature, result>> /\ Quiet

\* load_repair_packet answers with the findings of the failed attempt.
LoadRepairPacket ==
    /\ pc = "repair" /\ pc' = "execute"
    /\ UNCHANGED <<supervised, supplied, memory, activeDecision, candidate, signature, result>> /\ Quiet

\* The candidate must differ from the accepted tree.
Execute(t) ==
    /\ pc = "execute" /\ t # treeHash
    /\ candidate' = t /\ pc' = "validate"
    /\ UNCHANGED <<supervised, supplied, memory, activeDecision, signature, result>> /\ Quiet

\* Deterministic validation comes before the review, and a failure spares it.
Validate(g) ==
    /\ pc = "validate"
    /\ pc' = (IF g = None THEN "review" ELSE "persist") /\ signature' = g
    /\ UNCHANGED <<supervised, supplied, memory, activeDecision, candidate, result>> /\ Quiet

Review(g) ==
    /\ pc = "review"
    /\ pc' = "persist" /\ signature' = (IF g = None THEN None ELSE NumSignatures + g)
    /\ UNCHANGED <<supervised, supplied, memory, activeDecision, candidate, result>> /\ Quiet

\* Mutant: repetitions are counted over all attempts of the story.
EscalationReasonTotal ==
    IF signature = None THEN "NULL"
    ELSE Reason(1 + Cardinality({i \in DOMAIN events : events[i].story = Story
                                      /\ events[i].signature = signature}), Attempt)

EscalationReason ==
    IF signature = None THEN "NULL"
    ELSE Reason(1 + RepeatsBy(events, Len(events), Story, signature), Attempt)

\* Mutant: the reason is stored where the outcome belongs.
OutcomeIsReason ==
    IF signature = None THEN "ACCEPTED" ELSE IF EscalationReason = "NULL" THEN "RETRY" ELSE EscalationReason

Outcome ==
    IF signature = None THEN "ACCEPTED" ELSE IF EscalationReason = "NULL" THEN "RETRY" ELSE "ESCALATE"

Event ==
    [story |-> Story, attempt |-> Attempt, input |-> treeHash, candidate |-> candidate,
     outcome |-> Outcome, signature |-> signature, reason |-> EscalationReason,
     repaired |-> Attempt > 1,
     decision |-> IF Attempt > 1 THEN activeDecision ELSE None]

\* persist_iteration, and what the loop does with its outcome.
PersistIteration ==
    /\ pc = "persist"
    /\ events' = Append(events, Event)
    /\ CASE Outcome = "ESCALATE" -> Finish("ESCALATE")
         [] Outcome = "RETRY" /\ controlMode = "FRONTIER_LED" -> AwaitDecision(supervised)
         [] OTHER ->
              /\ attempts' = [attempts EXCEPT ![Story] = Attempt]
              /\ accepted' = (IF Outcome = "ACCEPTED" THEN accepted \cup {Story} ELSE accepted)
              /\ treeHash' = (IF Outcome = "ACCEPTED" THEN candidate ELSE treeHash)
              /\ pc' = "loop" /\ candidate' = InitialTree /\ signature' = None
              /\ UNCHANGED <<supervised, supplied, activeDecision, result>>
    /\ UNCHANGED <<decisions, controlMode>>

PersistIterationLost ==
    /\ pc = "persist"
    /\ events' = Append(events, Event)
    /\ Finish("THROWN")
    /\ UNCHANGED <<decisions, controlMode>>

\* A crash, or an awaited call that throws before it had an effect.
Fail == pc # "idle" /\ Finish("THROWN") /\ Quiet

Step ==
    \/ \E action \in Actions : Decide(action)
    \/ Authorize
    \/ AtLimit \/ NoStory \/ SelectStory \/ LoadRepairPacket
    \/ \E t \in Trees : Execute(t)
    \/ \E g \in 0..NumSignatures : Validate(g) \/ Review(g)
    \/ PersistIteration

Next ==
    \/ Step \/ Supervise \/ Call(NoDecision)
    \/ \E n \in 1..MaxIterations, action \in Actions : Call([target |-> n, action |-> action])
    \/ AuthorizeLost \/ PersistIterationLost \/ Fail

Spec == Init /\ [][Next]_vars

\* The awaited ports settle.
FairSpec == Spec /\ WF_vars(Step)

-----------------------------------------------------------------------------
(* Properties. *)

\* Every variable has its type.
TypeOK ==
    /\ events \in Seq(Events) /\ decisions \in Seq(Decisions)
    /\ controlMode \in {"AUTONOMOUS_BROKER", "FRONTIER_LED"}
    /\ pc \in {"idle", "decide", "authorize", "loop", "repair", "execute", "validate", "review", "persist"}
    /\ supervised \in BOOLEAN /\ supplied \in Decisions
    /\ attempts \in [Stories -> Nat] /\ accepted \subseteq Stories /\ treeHash \in Trees
    /\ activeDecision \in Nat /\ candidate \in Trees /\ signature \in Signatures \cup {None}
    /\ result \in Results

\* Whatever was persisted when the process died, the next call replays it: events
\* and decisions written one at a time always form a history replay accepts.
PersistedHistoryReplays == HistoryReplays(events) /\ DecisionsReplay(events, decisions)

\* The maps the loop updates step by step are those a replay would compute.
MemoryIsReplay ==
    pc \notin {"idle", "decide"} =>
        /\ \A s \in Stories : attempts[s] = AttemptsBy(events, Len(events), s)
        /\ accepted = AcceptedBy(events, Len(events)) /\ treeHash = TreeBy(events, Len(events))

\* In FRONTIER_LED mode no worker session of a retry starts before the decision
\* about exactly the last rejection is durable.
RetryAuthorized ==
    controlMode = "FRONTIER_LED" /\ pc \in {"repair", "execute", "validate", "review", "persist"} /\ Attempt > 1
        => Decided("RETRY")

EscalationRecorded ==
    \/ \E i \in DOMAIN events : events[i].outcome = "ESCALATE"
    \/ \E k \in DOMAIN decisions : decisions[k].action = "ESCALATE"

\* What a call returned agrees with what an inspection of the history says,
\* until a later call adds to it.
ResultMatchesHistory ==
    pc = "idle" =>
        /\ result = "COMPLETE" => AcceptedBy(events, Len(events)) = Stories
        /\ result = "ESCALATE" => EscalationRecorded
        /\ result = "AWAITING_FRONTIER_DECISION" => Rejected /\ ~Decided("RETRY") /\ ~Decided("ESCALATE")
        /\ result = "ITERATION_LIMIT" =>
              ~EscalationRecorded /\ Len(events) = MaxIterations /\ AcceptedBy(events, Len(events)) # Stories

\* History, memory, authority and result of the executor agree, whatever was cut off.
HistorySound == PersistedHistoryReplays /\ MemoryIsReplay /\ RetryAuthorized /\ ResultMatchesHistory

\* Every call comes to an end.
CallsEnd == (pc # "idle") ~> (pc = "idle")
=============================================================================
