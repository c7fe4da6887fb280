----------------------- MODULE IterativeExecutorProofs -----------------------
(***************************************************************************)
(* What the iterative executor persists, remembers and returns, for every  *)
(* plan of stories, every number of attempts, iterations, decisions, trees *)
(* and failure signatures, and every cut between an effect and its answer. *)
(*                                                                         *)
(* The argument.  A history that replays has at most one open story among  *)
(* those attempted, the last one (OneOpen), so the story the loop selects  *)
(* is retried exactly when the last event is a rejection (RetryIsOfLast).  *)
(* Hence the event the loop writes is one that replay accepts              *)
(* (EventIsFit), and appending it leaves a history that replays            *)
(* (HistoryGrows).  Decisions are about ever later rejections              *)
(* (TargetsGrow), so the one that is persisted fits the chain as well.     *)
(* Control says what the call knows at each of its awaits: nothing is      *)
(* escalated, a retry under frontier control is authorized by the active   *)
(* decision, and the candidate differs from the accepted tree.             *)
(***************************************************************************)
EXTENDS IterativeExecutor, FiniteSetTheorems, TLAPS

-----------------------------------------------------------------------------
(* The inductive invariant. *)

\* A story is being worked on, from its selection to the event about it.
Working == {"repair", "execute", "validate", "review", "persist"}
InLoop  == Working \cup {"loop"}

\* Among the stories attempted, at most the last one is open.
OneOpen(evs) ==
    \A i \in 1 .. Len(evs) :
        \/ evs[i].story \in AcceptedBy(evs, Len(evs))
        \/ evs[i].story = evs[Len(evs)].story /\ evs[Len(evs)].outcome # "ACCEPTED"

\* Each decision is about a later rejection than the one before.
TargetsGrow(decs) == \A k \in DOMAIN decs : decs[k].target >= k

DurableOK ==
    /\ events \in Seq(Events) /\ decisions \in Seq(Decisions)
    /\ controlMode \in {"AUTONOMOUS_BROKER", "FRONTIER_LED"}
    /\ HistoryReplays(events) /\ TreeBy(events, Len(events)) \in Trees /\ OneOpen(events)
    /\ DecisionsReplay(events, decisions) /\ TargetsGrow(decisions)

LocalTyped ==
    /\ pc \in {"idle", "decide", "authorize"} \cup InLoop
    /\ supervised \in BOOLEAN /\ supplied \in Decisions
    /\ attempts \in [Stories -> Nat] /\ accepted \subseteq Stories /\ treeHash \in Trees
    /\ activeDecision \in Nat /\ candidate \in Trees /\ signature \in Signatures \cup {None}
    /\ result \in Results

\* A rejection that is retried under frontier control is decided, by the active decision.
DecisionIsActive ==
    /\ controlMode = "FRONTIER_LED" /\ Rejected => Decided("RETRY")
    /\ Decided("RETRY") => activeDecision = Len(decisions)
    /\ controlMode = "AUTONOMOUS_BROKER" => activeDecision = None

AwaitsAuthority ==
    /\ controlMode = "FRONTIER_LED" /\ Rejected /\ supplied.target = Len(events)
    /\ \A k \in DOMAIN decisions : decisions[k].target # Len(events)

Selected == Len(events) < MaxIterations /\ Story # None /\ Attempt <= MaxAttempts

Control ==
    /\ pc \in InLoop \cup {"authorize"} => ~Escalated
    /\ pc = "authorize" => AwaitsAuthority
    /\ pc \in InLoop => DecisionIsActive
    /\ pc \in Working => Selected
    /\ pc \in {"validate", "review", "persist"} => candidate # treeHash

\* What a call may return in the state it leaves behind.
ResultFits(r) ==
    /\ r = "COMPLETE" => AcceptedBy(events, Len(events)) = Stories
    /\ r = "ESCALATE" => EscalationRecorded
    /\ r = "AWAITING_FRONTIER_DECISION" => Rejected /\ ~Decided("RETRY") /\ ~Decided("ESCALATE")
    /\ r = "ITERATION_LIMIT" =>
          ~EscalationRecorded /\ Len(events) = MaxIterations /\ AcceptedBy(events, Len(events)) # Stories

ExecutorInv ==
    /\ DurableOK /\ LocalTyped /\ MemoryIsReplay /\ Control
    /\ pc = "idle" => ResultFits(result)

-----------------------------------------------------------------------------
(* What the events of a history amount to. *)

\* A non-empty set of numbers up to n has a last one.
LEMMA HasLast ==
    ASSUME NEW n \in Nat, NEW A \in SUBSET (1 .. n), A # {}
    PROVE  (CHOOSE i \in A : \A j \in A : j <= i) \in A
<1> DEFINE R == {ss \in Nat \X Nat : ss[1] < ss[2]}
           B == {n - i : i \in A}
<1>1. IsWellFoundedOn(R, Nat) BY NatLessThanWellFounded DEF OpToRel
<1>2. B \subseteq Nat /\ B # {}
  <2>1. \A i \in A : n - i \in Nat OBVIOUS
  <2>2. PICK i \in A : TRUE OBVIOUS
  <2>3. n - i \in B BY <2>2
  <2> QED BY <2>1, <2>3
<1>3. PICK m \in B : \A y \in B : ~ (<<y, m>> \in R)
  <2> HIDE DEF R, B
  <2> QED BY <1>1, <1>2, WFMin
<1>4. PICK i \in A : m = n - i OBVIOUS
<1>5. \A j \in A : j <= i
  <2>1. ASSUME NEW j \in A, ~(j <= i) PROVE FALSE
    <3>1. n - j \in B /\ n - j \in Nat /\ m \in Nat /\ n - j < m BY <1>2, <1>4, <2>1
    <3>2. <<n - j, m>> \in R BY <3>1
    <3> QED BY <1>3, <3>1, <3>2
  <2> QED BY <2>1
<1> QED BY <1>5

\* The next story is open, ready and one of the plan.
LEMMA NextStoryOpen ==
    ASSUME NEW acc, NextStory(acc) # None PROVE NextStory(acc) \in Stories \ acc
<1> DEFINE R == {ss \in Nat \X Nat : ss[1] < ss[2]}
           ready == {s \in Stories \ acc : Depends[s] \subseteq acc}
<1>1. IsWellFoundedOn(R, Nat) BY NatLessThanWellFounded DEF OpToRel
<1>2. ready # {} /\ NextStory(acc) = CHOOSE s \in ready : \A t \in ready : s <= t BY DEF NextStory
<1>3. ready \subseteq Nat BY PlanAssumption DEF Stories
<1>4. PICK m \in ready : \A y \in ready : ~ (<<y, m>> \in R)
  <2> HIDE DEF R, ready
  <2> QED BY <1>1, <1>2, <1>3, WFMin
<1>5. \A t \in ready : m <= t
  <2>1. ASSUME NEW t \in ready, ~(m <= t) PROVE FALSE
    <3>1. t \in Nat /\ m \in Nat BY <1>3
    <3>2. <<t, m>> \in R BY <2>1, <3>1
    <3> QED BY <1>4, <3>2
  <2> QED BY <2>1
<1>6. NextStory(acc) \in ready
  <2> HIDE DEF ready
  <2> QED BY <1>2, <1>5
<1> QED BY <1>6

\* The events of a history and the numbers they are counted with.
LEMMA HistoryFacts ==
    ASSUME NEW evs \in Seq(Events)
    PROVE  /\ Len(evs) \in Nat /\ DOMAIN evs = 1 .. Len(evs) /\ \A i \in 1 .. Len(evs) : evs[i] \in Events
           /\ \A n \in 0 .. Len(evs) : \A s : AttemptsBy(evs, n, s) \in Nat
           /\ \A n \in 0 .. Len(evs) : AcceptedBy(evs, n) \subseteq Stories
<1>1. Len(evs) \in Nat /\ DOMAIN evs = 1 .. Len(evs) /\ \A i \in 1 .. Len(evs) : evs[i] \in Events OBVIOUS
<1>2. ASSUME NEW n \in 0 .. Len(evs), NEW s PROVE AttemptsBy(evs, n, s) \in Nat
  <2>1. n \in Int /\ 1 \in Int BY <1>1
  <2>2. IsFiniteSet(1 .. n) BY ONLY <2>1, FS_Interval
  <2>3. {j \in 1 .. n : evs[j].story = s} \subseteq 1 .. n OBVIOUS
  <2>4. IsFiniteSet({j \in 1 .. n : evs[j].story = s}) BY <2>2, <2>3, FS_Subset
  <2> QED BY <2>4, FS_CardinalityType DEF AttemptsBy
<1>3. ASSUME NEW n \in 0 .. Len(evs) PROVE AcceptedBy(evs, n) \subseteq Stories
  <2>1. \A i \in 1 .. n : i \in 1 .. Len(evs) BY <1>1
  <2>2. \A i \in 1 .. n : evs[i].story \in Stories BY <1>1, <2>1 DEF Events
  <2> QED BY <2>2 DEF AcceptedBy
<1> QED BY <1>1, <1>2, <1>3

\* What an event that is appended leaves as it was.
LEMMA PrefixKept ==
    ASSUME NEW evs \in Seq(Events), NEW e \in Events
    PROVE  LET new == Append(evs, e) IN
           /\ new \in Seq(Events) /\ Len(new) = Len(evs) + 1 /\ DOMAIN new = 1 .. Len(evs) + 1
           /\ new[Len(evs) + 1] = e /\ \A i \in 1 .. Len(evs) : new[i] = evs[i]
           /\ \A n \in 0 .. Len(evs) :
                 /\ AcceptedBy(new, n) = AcceptedBy(evs, n) /\ TreeBy(new, n) = TreeBy(evs, n)
                 /\ \A s : AttemptsBy(new, n, s) = AttemptsBy(evs, n, s)
                 /\ \A s, g : RepeatsBy(new, n, s, g) = RepeatsBy(evs, n, s, g)
<1>1. PICK new : new = Append(evs, e) OBVIOUS
<1>2. /\ new \in Seq(Events) /\ Len(new) = Len(evs) + 1 /\ DOMAIN new = 1 .. Len(evs) + 1
      /\ new[Len(evs) + 1] = e /\ \A i \in 1 .. Len(evs) : new[i] = evs[i]
  BY <1>1
<1>3. ASSUME NEW n \in 0 .. Len(evs)
      PROVE  /\ AcceptedBy(new, n) = AcceptedBy(evs, n) /\ TreeBy(new, n) = TreeBy(evs, n)
             /\ \A s : AttemptsBy(new, n, s) = AttemptsBy(evs, n, s)
             /\ \A s, g : RepeatsBy(new, n, s, g) = RepeatsBy(evs, n, s, g)
  <2>0. Len(evs) \in Nat OBVIOUS
  <2>1. \A i \in 1 .. n : i \in 1 .. Len(evs) BY <2>0
  <2>2. \A i \in 1 .. n : new[i] = evs[i] BY <1>2, <2>1
  <2>3. {j \in 1 .. n : new[j].outcome = "ACCEPTED"} = {j \in 1 .. n : evs[j].outcome = "ACCEPTED"} BY <2>2
  <2>4. AcceptedBy(new, n) = AcceptedBy(evs, n) BY <2>2, <2>3 DEF AcceptedBy
  <2>5. TreeBy(new, n) = TreeBy(evs, n)
    <3> DEFINE A == {j \in 1 .. n : evs[j].outcome = "ACCEPTED"}
               B == {j \in 1 .. n : new[j].outcome = "ACCEPTED"}
               last == CHOOSE i \in A : \A j \in A : j <= i
               lastB == CHOOSE i \in B : \A j \in B : j <= i
    <3>1. A = B BY <2>3
    <3>2. last = lastB
      <4> HIDE DEF A, B
      <4> QED BY <3>1
    <3>3. TreeBy(new, n) = IF B = {} THEN InitialTree ELSE new[lastB].candidate BY DEF TreeBy
    <3>4. TreeBy(evs, n) = IF A = {} THEN InitialTree ELSE evs[last].candidate BY DEF TreeBy
    <3>5. A \in SUBSET (1 .. n) /\ n \in Nat BY <2>0
    <3>6. A # {} => last \in 1 .. n
      <4> HIDE DEF A
      <4> QED BY <3>5, HasLast
    <3> HIDE DEF A, B, last, lastB
    <3> QED BY <2>2, <3>1, <3>2, <3>3, <3>4, <3>6
  <2>6. ASSUME NEW s PROVE AttemptsBy(new, n, s) = AttemptsBy(evs, n, s)
    <3>1. {j \in 1 .. n : new[j].story = s} = {j \in 1 .. n : evs[j].story = s} BY <2>2
    <3> QED BY <3>1 DEF AttemptsBy
  <2>7. ASSUME NEW s, NEW g PROVE RepeatsBy(new, n, s, g) = RepeatsBy(evs, n, s, g)
    <3>1. \A i \in 1 .. n : \A j \in i .. n : j \in 1 .. n BY <2>0
    <3>2. {i \in 1 .. n : \A j \in i .. n :
              new[j].story = s /\ new[j].outcome # "ACCEPTED" /\ new[j].signature = g}
          = {i \in 1 .. n : \A j \in i .. n :
              evs[j].story = s /\ evs[j].outcome # "ACCEPTED" /\ evs[j].signature = g}
      BY <2>2, <3>1
    <3> QED BY <3>2 DEF RepeatsBy
  <2> QED BY <2>4, <2>5, <2>6, <2>7
<1> QED BY <1>1, <1>2, <1>3

\* What one event adds to what the events before it amount to.
LEMMA EventCounts ==
    ASSUME NEW evs \in Seq(Events), NEW n \in 1 .. Len(evs)
    PROVE  /\ AcceptedBy(evs, n) = AcceptedBy(evs, n - 1)
                 \cup (IF evs[n].outcome = "ACCEPTED" THEN {evs[n].story} ELSE {})
           /\ \A s : AttemptsBy(evs, n, s) = AttemptsBy(evs, n - 1, s) + (IF evs[n].story = s THEN 1 ELSE 0)
           /\ TreeBy(evs, n) = IF evs[n].outcome = "ACCEPTED" THEN evs[n].candidate ELSE TreeBy(evs, n - 1)
<1>0. Len(evs) \in Nat /\ n \in Nat /\ n - 1 \in Nat /\ n - 1 \in 0 .. Len(evs) OBVIOUS
<1>1. \A j : j \in 1 .. n <=> j \in 1 .. n - 1 \/ j = n BY <1>0
<1>2. n \notin 1 .. n - 1 BY <1>0
<1> DEFINE A == {j \in 1 .. n : evs[j].outcome = "ACCEPTED"}
           B == {j \in 1 .. n - 1 : evs[j].outcome = "ACCEPTED"}
<1>3. A = B \cup (IF evs[n].outcome = "ACCEPTED" THEN {n} ELSE {}) BY <1>1
<1>4. AcceptedBy(evs, n) = {evs[i].story : i \in A} /\ AcceptedBy(evs, n - 1) = {evs[i].story : i \in B}
  BY DEF AcceptedBy
<1>5. AcceptedBy(evs, n) = AcceptedBy(evs, n - 1)
         \cup (IF evs[n].outcome = "ACCEPTED" THEN {evs[n].story} ELSE {})
  <2> HIDE DEF A, B
  <2>1. CASE evs[n].outcome = "ACCEPTED" BY <1>3, <1>4, <2>1
  <2>2. CASE evs[n].outcome # "ACCEPTED" BY <1>3, <1>4, <2>2
  <2> QED BY <2>1, <2>2
<1>6. ASSUME NEW s
      PROVE  AttemptsBy(evs, n, s) = AttemptsBy(evs, n - 1, s) + (IF evs[n].story = s THEN 1 ELSE 0)
  <2> DEFINE C == {j \in 1 .. n : evs[j].story = s}
             D == {j \in 1 .. n - 1 : evs[j].story = s}
  <2>1. C = D \cup (IF evs[n].story = s THEN {n} ELSE {}) BY <1>1
  <2>2. n \notin D BY <1>2
  <2>3. AttemptsBy(evs, n, s) = Cardinality(C) /\ AttemptsBy(evs, n - 1, s) = Cardinality(D) BY DEF AttemptsBy
  <2>4. Cardinality(D) \in Nat BY <1>0, <2>3, HistoryFacts
  <2>5. IsFiniteSet(D)
    <3>1. n - 1 \in Int /\ 1 \in Int BY <1>0
    <3>2. IsFiniteSet(1 .. n - 1) BY ONLY <3>1, FS_Interval
    <3>3. D \subseteq 1 .. n - 1 OBVIOUS
    <3> QED BY <3>2, <3>3, FS_Subset
  <2>6. CASE evs[n].story = s
    <3>1. C = D \cup {n} BY <2>1, <2>6
    <3>2. Cardinality(C) = Cardinality(D) + 1
      <4> HIDE DEF C, D
      <4> QED BY <2>2, <2>5, <3>1, FS_AddElement
    <3> QED BY <2>3, <2>6, <3>2
  <2>7. CASE evs[n].story # s
    <3>1. C = D BY <2>1, <2>7
    <3> HIDE DEF C, D
    <3> QED BY <2>3, <2>4, <2>7, <3>1
  <2> QED BY <2>6, <2>7
<1>7. TreeBy(evs, n) = IF evs[n].outcome = "ACCEPTED" THEN evs[n].candidate ELSE TreeBy(evs, n - 1)
  <2> DEFINE last(S) == CHOOSE i \in S : \A j \in S : j <= i
  <2>1. /\ TreeBy(evs, n) = IF A = {} THEN InitialTree ELSE evs[last(A)].candidate
        /\ TreeBy(evs, n - 1) = IF B = {} THEN InitialTree ELSE evs[last(B)].candidate
    BY DEF TreeBy
  <2>2. CASE evs[n].outcome = "ACCEPTED"
    <3>1. n \in A BY <1>3, <2>2
    <3>2. \A j \in A : j \in Nat /\ j <= n BY <1>0
    <3>3. last(A) = n
      <4> HIDE DEF A
      <4>1. \A i \in A : (\A j \in A : j <= i) => i = n
        <5>1. ASSUME NEW i \in A, \A j \in A : j <= i PROVE i = n
          <6>1. n <= i /\ i <= n /\ i \in Nat BY <3>1, <3>2, <5>1
          <6> QED BY <1>0, <6>1
        <5> QED BY <5>1
      <4>2. n \in A /\ \A j \in A : j <= n BY <3>1, <3>2
      <4>3. \E i \in A : \A j \in A : j <= i BY <4>2
      <4>4. last(A) \in A /\ \A j \in A : j <= last(A) BY <4>3
      <4> HIDE DEF last
      <4> QED BY <4>1, <4>4
    <3>4. A # {} BY <3>1
    <3> HIDE DEF A, B, last
    <3> QED BY <2>1, <2>2, <3>3, <3>4
  <2>3. CASE evs[n].outcome # "ACCEPTED"
    <3>1. A = B BY <1>3, <2>3
    <3> HIDE DEF A, B, last
    <3> QED BY <2>1, <2>3, <3>1
  <2> QED BY <2>2, <2>3
<1> QED BY <1>5, <1>6, <1>7

\* A story attempted before is next only if its last attempt is the last event, and was rejected.
LEMMA OpenIsLast ==
    ASSUME NEW evs \in Seq(Events), HistoryReplays(evs), OneOpen(evs), NEW s \in Stories,
           s = NextStory(AcceptedBy(evs, Len(evs))), s # None
    PROVE  /\ AttemptsBy(evs, Len(evs), s) > 0 =>
                 /\ Len(evs) > 0 /\ evs[Len(evs)].outcome # "ACCEPTED" /\ evs[Len(evs)].story = s
                 /\ evs[Len(evs)].attempt = AttemptsBy(evs, Len(evs), s)
           /\ Len(evs) > 0 /\ evs[Len(evs)].outcome # "ACCEPTED" =>
                 evs[Len(evs)].story = s /\ AttemptsBy(evs, Len(evs), s) > 0
<1>0. PICK N \in Nat : N = Len(evs) OBVIOUS
<1>n. s \notin AcceptedBy(evs, N) BY <1>0, NextStoryOpen
<1>1. ASSUME N > 0, evs[N].outcome # "ACCEPTED"
      PROVE  /\ evs[N].story = s /\ AttemptsBy(evs, N, s) > 0 /\ evs[N].attempt = AttemptsBy(evs, N, s)
  <2>1. N \in 1 .. Len(evs) /\ N \in DOMAIN evs /\ N - 1 \in 0 .. Len(evs) BY <1>0, <1>1
  <2>2. AcceptedBy(evs, N) = AcceptedBy(evs, N - 1)
    <3>1. AcceptedBy(evs, N) = AcceptedBy(evs, N - 1)
             \cup (IF evs[N].outcome = "ACCEPTED" THEN {evs[N].story} ELSE {})
      BY <2>1, EventCounts
    <3>2. AcceptedBy(evs, N) = AcceptedBy(evs, N - 1) \cup {} BY <1>1, <3>1
    <3> QED BY <3>2
  <2>3. /\ evs[N].story = NextStory(AcceptedBy(evs, N - 1))
        /\ evs[N].attempt = AttemptsBy(evs, N - 1, evs[N].story) + 1
    BY <2>1 DEF HistoryReplays, EventReplays
  <2>4. evs[N].story = s BY <1>0, <2>2, <2>3
  <2>5. AttemptsBy(evs, N, s) = AttemptsBy(evs, N - 1, s) + 1 BY <2>1, <2>4, EventCounts
  <2>6. AttemptsBy(evs, N - 1, s) \in Nat BY <2>1, HistoryFacts
  <2> QED BY <2>3, <2>4, <2>5, <2>6
<1>2. ASSUME AttemptsBy(evs, N, s) > 0 PROVE N > 0 /\ evs[N].outcome # "ACCEPTED"
  <2>1. PICK i \in 1 .. N : evs[i].story = s
    <3>1. SUFFICES ASSUME {j \in 1 .. N : evs[j].story = s} = {} PROVE FALSE OBVIOUS
    <3>2. Cardinality({j \in 1 .. N : evs[j].story = s}) = 0 BY <3>1, FS_EmptySet
    <3> QED BY <1>2, <3>2 DEF AttemptsBy
  <2>2. evs[N].outcome # "ACCEPTED" BY <1>0, <1>n, <2>1 DEF OneOpen
  <2> QED BY <2>1, <2>2
<1> QED BY <1>0, <1>1, <1>2

\* An event the loop may add to a history.
EventFits(evs, e) ==
    /\ e \in Events /\ Len(evs) < MaxIterations
    /\ e.input = TreeBy(evs, Len(evs)) /\ e.candidate # e.input
    /\ e.story = NextStory(AcceptedBy(evs, Len(evs))) /\ e.story # None
    /\ e.attempt = AttemptsBy(evs, Len(evs), e.story) + 1 /\ e.attempt <= MaxAttempts
    /\ e.repaired <=> e.attempt > 1
    /\ (e.outcome = "ACCEPTED") <=> (e.signature = None)
    /\ e.reason = (IF e.outcome = "ACCEPTED" THEN "NULL"
                   ELSE Reason(1 + RepeatsBy(evs, Len(evs), e.story, e.signature), e.attempt))
    /\ e.outcome # "ACCEPTED" => ((e.outcome = "ESCALATE") <=> (e.reason # "NULL"))

\* Appending it to a history that no escalation ended leaves one that replays.
LEMMA HistoryGrows ==
    ASSUME NEW evs \in Seq(Events), HistoryReplays(evs), TreeBy(evs, Len(evs)) \in Trees, OneOpen(evs),
           Len(evs) > 0 => evs[Len(evs)].outcome # "ESCALATE", NEW e, EventFits(evs, e)
    PROVE  LET new == Append(evs, e) IN
           HistoryReplays(new) /\ TreeBy(new, Len(new)) \in Trees /\ OneOpen(new)
<1>0. PICK N \in Nat : N = Len(evs) OBVIOUS
<1>e. e \in Events /\ e.story \in Stories /\ e.candidate \in Trees BY DEF EventFits, Events
<1>1. PICK new : new = Append(evs, e) OBVIOUS
<1>2. /\ new \in Seq(Events) /\ Len(new) = N + 1 /\ DOMAIN new = 1 .. N + 1
      /\ new[N + 1] = e /\ \A i \in 1 .. N : new[i] = evs[i]
  BY <1>0, <1>1, <1>e, PrefixKept
<1>3. \A n \in 0 .. N :
         /\ AcceptedBy(new, n) = AcceptedBy(evs, n) /\ TreeBy(new, n) = TreeBy(evs, n)
         /\ \A s : AttemptsBy(new, n, s) = AttemptsBy(evs, n, s)
         /\ \A s, g : RepeatsBy(new, n, s, g) = RepeatsBy(evs, n, s, g)
  BY <1>0, <1>1, <1>e, PrefixKept
<1>4. N + 1 \in 1 .. Len(new) /\ N + 1 - 1 = N /\ N \in 0 .. N BY <1>2
<1>5. /\ AcceptedBy(new, N + 1) = AcceptedBy(evs, N) \cup (IF e.outcome = "ACCEPTED" THEN {e.story} ELSE {})
      /\ TreeBy(new, N + 1) = IF e.outcome = "ACCEPTED" THEN e.candidate ELSE TreeBy(evs, N)
  BY <1>2, <1>3, <1>4, EventCounts
<1>6. TreeBy(new, Len(new)) \in Trees BY <1>0, <1>2, <1>5, <1>e
<1>7. OneOpen(new)
  <2>1. SUFFICES ASSUME NEW i \in 1 .. N + 1
                 PROVE  \/ new[i].story \in AcceptedBy(new, N + 1)
                        \/ new[i].story = e.story /\ e.outcome # "ACCEPTED"
    BY <1>2 DEF OneOpen
  <2>2. CASE i = N + 1 BY <1>2, <1>5, <2>2
  <2>3. CASE i \in 1 .. N /\ evs[i].story \in AcceptedBy(evs, N) BY <1>2, <1>5, <2>3
  <2>4. CASE i \in 1 .. N /\ evs[i].story = evs[N].story /\ evs[N].outcome # "ACCEPTED"
    <3>1. N > 0 BY <2>4
    <3>2. e.story = NextStory(AcceptedBy(evs, N)) /\ e.story # None BY <1>0 DEF EventFits
    <3>3. evs[N].story = e.story BY <1>0, <1>e, <2>4, <3>1, <3>2, OpenIsLast
    <3> QED BY <1>2, <1>5, <2>4, <3>3
  <2>5. i \in 1 .. N => \/ evs[i].story \in AcceptedBy(evs, N)
                        \/ evs[i].story = evs[N].story /\ evs[N].outcome # "ACCEPTED"
    BY <1>0 DEF OneOpen
  <2> QED BY <2>2, <2>3, <2>4, <2>5
<1>8. ASSUME NEW i \in 1 .. N PROVE EventReplays(new, i)
  <2>1. i \in DOMAIN evs /\ i - 1 \in 0 .. N BY <1>0
  <2>2. EventReplays(evs, i) BY <2>1 DEF HistoryReplays
  <2>3. evs[i].outcome # "ESCALATE"
    <3>1. evs[i].outcome = "ESCALATE" => i = N BY <1>0, <2>2 DEF EventReplays
    <3> QED BY <1>0, <3>1
  <2>4. new[i] = evs[i] BY <1>2
  <2> QED BY <1>3, <2>1, <2>2, <2>3, <2>4 DEF EventReplays
<1>9. EventReplays(new, N + 1)
  <2>1. /\ new[N + 1] = e /\ AcceptedBy(new, N + 1 - 1) = AcceptedBy(evs, N)
        /\ TreeBy(new, N + 1 - 1) = TreeBy(evs, N)
        /\ AttemptsBy(new, N + 1 - 1, e.story) = AttemptsBy(evs, N, e.story)
        /\ RepeatsBy(new, N + 1 - 1, e.story, e.signature) = RepeatsBy(evs, N, e.story, e.signature)
    BY <1>2, <1>3, <1>4
  <2> QED BY <1>0, <1>2, <2>1 DEF EventReplays, EventFits
<1>10. HistoryReplays(new)
  <2>1. \A i \in 1 .. N + 1 : i \in 1 .. N \/ i = N + 1 OBVIOUS
  <2>2. N + 1 <= MaxIterations BY <1>0, PlanAssumption DEF EventFits
  <2> QED BY <1>2, <1>8, <1>9, <2>1, <2>2 DEF HistoryReplays
<1> QED BY <1>1, <1>6, <1>7, <1>10

-----------------------------------------------------------------------------
(* What a call appends. *)

\* The variables of a state with a history that replays.
LEMMA DurableFacts ==
    ASSUME DurableOK
    PROVE  /\ Len(events) \in Nat /\ DOMAIN events = 1 .. Len(events)
           /\ \A i \in 1 .. Len(events) : events[i] \in Events
           /\ Len(decisions) \in Nat /\ DOMAIN decisions = 1 .. Len(decisions)
           /\ \A k \in 1 .. Len(decisions) : decisions[k] \in Decisions
           /\ Len(events) <= MaxIterations
           /\ \A k \in 1 .. Len(decisions) :
                 decisions[k].target \in 1 .. Len(events) /\ decisions[k].target >= k
<1>1. events \in Seq(Events) /\ decisions \in Seq(Decisions) BY DEF DurableOK
<1>2. /\ Len(events) \in Nat /\ DOMAIN events = 1 .. Len(events)
      /\ \A i \in 1 .. Len(events) : events[i] \in Events
  BY <1>1
<1>3. /\ Len(decisions) \in Nat /\ DOMAIN decisions = 1 .. Len(decisions)
      /\ \A k \in 1 .. Len(decisions) : decisions[k] \in Decisions
  BY <1>1
<1>4. \A k \in 1 .. Len(decisions) : decisions[k].target \in DOMAIN events
  BY <1>3 DEF DurableOK, DecisionsReplay, DecisionReplays
<1>5. \A k \in 1 .. Len(decisions) : decisions[k].target >= k BY <1>3 DEF DurableOK, TargetsGrow
<1>6. Len(events) <= MaxIterations BY DEF DurableOK, HistoryReplays
<1> QED BY <1>2, <1>3, <1>4, <1>5, <1>6

\* In the loop, the next story has been attempted exactly if the last event rejected it.
LEMMA RetryIsOfLast ==
    ASSUME DurableOK, LocalTyped, MemoryIsReplay, pc \in InLoop, ~Escalated, Story # None
    PROVE  /\ Story \in Stories /\ Story = NextStory(AcceptedBy(events, Len(events)))
           /\ attempts[Story] = AttemptsBy(events, Len(events), Story) /\ attempts[Story] \in Nat
           /\ Attempt > 1 <=> Rejected
           /\ Rejected => events[Len(events)].story = Story /\ events[Len(events)].attempt = attempts[Story]
<1>1. accepted = AcceptedBy(events, Len(events)) /\ \A s \in Stories : attempts[s] = AttemptsBy(events, Len(events), s)
  BY DEF MemoryIsReplay, InLoop, Working
<1>2. Story = NextStory(AcceptedBy(events, Len(events))) BY <1>1 DEF Story
<1>3. Story \in Stories BY <1>2, NextStoryOpen
<1>4. attempts[Story] = AttemptsBy(events, Len(events), Story) /\ attempts[Story] \in Nat
  BY <1>1, <1>3 DEF LocalTyped
<1>5. Attempt > 1 <=> AttemptsBy(events, Len(events), Story) > 0 BY <1>4 DEF Attempt
<1>6. /\ AttemptsBy(events, Len(events), Story) > 0 =>
            /\ Len(events) > 0 /\ events[Len(events)].outcome # "ACCEPTED" /\ events[Len(events)].story = Story
            /\ events[Len(events)].attempt = AttemptsBy(events, Len(events), Story)
      /\ Len(events) > 0 /\ events[Len(events)].outcome # "ACCEPTED" =>
            events[Len(events)].story = Story /\ AttemptsBy(events, Len(events), Story) > 0
  <2>1. events \in Seq(Events) /\ HistoryReplays(events) /\ OneOpen(events) BY DEF DurableOK
  <2> QED BY <1>2, <1>3, <2>1, OpenIsLast
<1>7. Len(events) > 0 => events[Len(events)].outcome \in {"ACCEPTED", "RETRY", "ESCALATE"}
  BY DurableFacts DEF Events
<1>8. Len(events) > 0 <=> events # <<>> BY DurableFacts DEF DurableOK
<1>9. Rejected <=> Len(events) > 0 /\ events[Len(events)].outcome # "ACCEPTED"
  BY <1>7, <1>8 DEF Rejected, Escalated
<1> QED BY <1>2, <1>3, <1>4, <1>5, <1>6, <1>9

\* A retry of the last rejection is within the attempts of its story.
LEMMA AttemptsLeft ==
    ASSUME DurableOK, LocalTyped, MemoryIsReplay, pc \in InLoop, ~Escalated, Story # None
    PROVE  Attempt <= MaxAttempts
<1>0. MaxAttempts \in Nat /\ MaxAttempts > 0 BY PlanAssumption
<1>1. attempts[Story] \in Nat /\ (Attempt > 1 <=> Rejected) BY RetryIsOfLast
<1>2. CASE ~Rejected BY <1>0, <1>1, <1>2 DEF Attempt
<1>3. CASE Rejected
  <2>1. events[Len(events)].attempt = attempts[Story] BY <1>3, RetryIsOfLast
  <2>2. Len(events) \in DOMAIN events /\ events[Len(events)].outcome = "RETRY"
    BY <1>3, DurableFacts DEF Rejected, DurableOK
  <2>3. EventReplays(events, Len(events)) BY <2>2 DEF DurableOK, HistoryReplays
  <2>4. events[Len(events)].reason = "NULL" BY <2>2, <2>3 DEF EventReplays
  <2>5. PICK r : r = 1 + RepeatsBy(events, Len(events) - 1, events[Len(events)].story, events[Len(events)].signature)
    OBVIOUS
  <2>6. Reason(r, events[Len(events)].attempt) = "NULL" BY <2>2, <2>3, <2>4, <2>5 DEF EventReplays
  <2>7. ~(attempts[Story] >= MaxAttempts) BY <2>1, <2>6 DEF Reason
  <2> QED BY <1>0, <1>1, <2>7 DEF Attempt
<1> QED BY <1>2, <1>3

\* The event the loop has made of an attempt fits the history.
LEMMA EventIsFit ==
    ASSUME DurableOK, LocalTyped, MemoryIsReplay, Control, pc = "persist"
    PROVE  /\ EventFits(events, Event)
           /\ Event.outcome = Outcome /\ Event.story = Story /\ Event.attempt = Attempt
           /\ Event.candidate = candidate /\ Event.signature = signature
           /\ Event.decision = IF Attempt > 1 THEN activeDecision ELSE None
<1>1. pc \in InLoop /\ pc \in Working /\ ~Escalated /\ Selected /\ candidate # treeHash
  BY DEF Control, InLoop, Working
<1>2. Story # None /\ Len(events) < MaxIterations /\ Attempt <= MaxAttempts BY <1>1 DEF Selected
<1>3. /\ Story \in Stories /\ Story = NextStory(AcceptedBy(events, Len(events)))
      /\ attempts[Story] = AttemptsBy(events, Len(events), Story) /\ attempts[Story] \in Nat
  BY <1>1, <1>2, RetryIsOfLast
<1>4. treeHash = TreeBy(events, Len(events)) BY <1>1 DEF MemoryIsReplay, InLoop, Working
<1>5. Attempt = AttemptsBy(events, Len(events), Story) + 1 /\ Attempt \in Nat BY <1>3 DEF Attempt
<1>6. EscalationReason \in Reasons BY DEF EscalationReason, Reason, Reasons
<1>7. Outcome \in {"ACCEPTED", "RETRY", "ESCALATE"} BY DEF Outcome
<1>8. PICK e : e = Event OBVIOUS
<1>9. /\ e.story = Story /\ e.attempt = Attempt /\ e.input = treeHash /\ e.candidate = candidate
      /\ e.outcome = Outcome /\ e.signature = signature /\ e.reason = EscalationReason
      /\ e.repaired = (Attempt > 1) /\ e.decision = IF Attempt > 1 THEN activeDecision ELSE None
  BY <1>8 DEF Event
<1>10. e \in Events
  <2>1. (IF Attempt > 1 THEN activeDecision ELSE None) \in Nat BY DEF LocalTyped, None
  <2>2. (Attempt > 1) \in BOOLEAN BY <1>5
  <2>3. treeHash \in Trees /\ candidate \in Trees /\ signature \in Signatures \cup {None} BY DEF LocalTyped
  <2>4. PICK d \in Nat : d = IF Attempt > 1 THEN activeDecision ELSE None BY <2>1
  <2>5. PICK b \in BOOLEAN : b = (Attempt > 1) BY <2>2
  <2>6. e = [story |-> Story, attempt |-> Attempt, input |-> treeHash, candidate |-> candidate,
             outcome |-> Outcome, signature |-> signature, reason |-> EscalationReason,
             repaired |-> b, decision |-> d]
    BY <1>8, <2>4, <2>5 DEF Event
  <2> QED BY <1>3, <1>5, <1>6, <1>7, <2>3, <2>6 DEF Events
<1>11. (Outcome = "ACCEPTED") <=> (signature = None) BY DEF Outcome
<1>12. EscalationReason = IF Outcome = "ACCEPTED" THEN "NULL"
                          ELSE Reason(1 + RepeatsBy(events, Len(events), Story, signature), Attempt)
  BY <1>11 DEF EscalationReason
<1>13. Outcome # "ACCEPTED" => ((Outcome = "ESCALATE") <=> (EscalationReason # "NULL"))
  BY <1>11 DEF Outcome
<1>14. EventFits(events, e)
  BY <1>1, <1>2, <1>3, <1>4, <1>5, <1>9, <1>10, <1>11, <1>12, <1>13 DEF EventFits
<1> QED BY <1>8, <1>9, <1>14

\* It is persisted: history and decisions still replay.
LEMMA PersistedReplays ==
    ASSUME DurableOK, LocalTyped, MemoryIsReplay, Control, pc = "persist",
           events' = Append(events, Event), UNCHANGED <<decisions, controlMode>>
    PROVE  DurableOK'
<1>0. PICK N \in Nat : N = Len(events) BY DurableFacts
<1>1. PICK e : e = Event OBVIOUS
<1>2. EventFits(events, e) /\ e \in Events /\ e.decision = (IF Attempt > 1 THEN activeDecision ELSE None)
      /\ e.story = Story /\ e.attempt = Attempt
  BY <1>1, EventIsFit DEF EventFits
<1>3. pc \in InLoop /\ pc \in Working /\ ~Escalated /\ Selected /\ DecisionIsActive
  BY DEF Control, InLoop, Working
<1>4. /\ Story # None /\ Story \in Stories /\ attempts[Story] \in Nat /\ (Attempt > 1 <=> Rejected)
      /\ (Rejected => events[N].story = Story)
  BY <1>0, <1>3, RetryIsOfLast DEF Selected
<1>5. N > 0 => events[N].outcome # "ESCALATE"
  BY <1>0, <1>3 DEF Escalated
<1>6. /\ HistoryReplays(Append(events, e))
      /\ TreeBy(Append(events, e), Len(Append(events, e))) \in Trees /\ OneOpen(Append(events, e))
  BY <1>0, <1>2, <1>5, HistoryGrows DEF DurableOK
<1>7. PICK new : new = Append(events, e) /\ events' = new BY <1>1
<1>8. /\ new \in Seq(Events) /\ Len(new) = N + 1 /\ DOMAIN new = 1 .. N + 1
      /\ new[N + 1] = e /\ \A i \in 1 .. N : new[i] = events[i]
  BY <1>0, <1>2, <1>7, PrefixKept DEF DurableOK
<1>9. ASSUME NEW k \in DOMAIN decisions PROVE DecisionReplays(new, decisions, k)
  <2>1. DecisionReplays(events, decisions, k) BY DEF DurableOK, DecisionsReplay
  <2>2. decisions[k].target \in 1 .. N BY <1>0, DurableFacts
  <2>3. decisions[k].target < N + 1 /\ decisions[k].target \in DOMAIN new /\ new[decisions[k].target] = events[decisions[k].target]
    BY <1>8, <2>2
  <2>4. CASE decisions[k].target < N
    <3>1. decisions[k].target + 1 \in 1 .. N BY <2>2, <2>4
    <3>2. new[decisions[k].target + 1] = events[decisions[k].target + 1] BY <1>8, <3>1
    <3> QED BY <1>0, <1>8, <2>1, <2>3, <2>4, <3>2 DEF DecisionReplays
  <2>5. CASE decisions[k].target = N
    <3>1. k = Len(decisions) /\ events[N].outcome = "RETRY" BY <1>0, <2>1, <2>5 DEF DecisionReplays
    <3>2. Rejected BY <1>0, <2>2, <3>1 DEF Rejected
    <3>3. decisions # <<>> OBVIOUS
    <3>4. decisions[k] \in Decisions BY DurableFacts
    <3>5. decisions[k].action = "RETRY"
      <4>1. SUFFICES ASSUME decisions[k].action # "RETRY" PROVE FALSE OBVIOUS
      <4>2. decisions[k] = [target |-> Len(events), action |-> "ESCALATE"]
        BY <1>0, <2>5, <3>4, <4>1 DEF Decisions, Actions
      <4> QED BY <1>3, <3>1, <3>2, <3>3, <4>2 DEF Escalated, Decided
    <3>6. decisions[k] = [target |-> Len(events), action |-> "RETRY"] BY <1>0, <2>5, <3>4, <3>5 DEF Decisions
    <3>7. activeDecision = k BY <1>3, <3>1, <3>2, <3>3, <3>6 DEF Decided, DecisionIsActive
    <3>8. e.decision = k BY <1>2, <1>4, <3>2, <3>7
    <3> QED BY <1>8, <2>1, <2>3, <2>5, <3>5, <3>8 DEF DecisionReplays
  <2> QED BY <2>2, <2>4, <2>5
<1>10. ASSUME NEW i \in 1 .. N + 1
       PROVE  IF new[i].attempt = 1 \/ controlMode = "AUTONOMOUS_BROKER"
              THEN new[i].decision = None ELSE RetryIsDecided(new, decisions, i)
  <2>1. CASE i \in 1 .. N
    <3>1. IF events[i].attempt = 1 \/ controlMode = "AUTONOMOUS_BROKER"
          THEN events[i].decision = None ELSE RetryIsDecided(events, decisions, i)
      BY <1>0, <2>1, DurableFacts DEF DurableOK, DecisionsReplay
    <3>2. new[i] = events[i] /\ (i > 1 => new[i - 1] = events[i - 1]) BY <1>8, <2>1
    <3> QED BY <3>1, <3>2 DEF RetryIsDecided
  <2>2. CASE i = N + 1 /\ ~Rejected
    <3>1. Attempt = 1 BY <1>4, <2>2 DEF Attempt
    <3>2. new[i].attempt = 1 /\ new[i].decision = None BY <1>2, <1>8, <2>2, <3>1
    <3> QED BY <3>2
  <2>3. CASE i = N + 1 /\ controlMode = "AUTONOMOUS_BROKER"
    <3>1. activeDecision = None BY <1>3, <2>3 DEF DecisionIsActive
    <3> QED BY <1>2, <1>8, <2>3, <3>1
  <2>4. CASE i = N + 1 /\ controlMode # "AUTONOMOUS_BROKER" /\ Rejected
    <3>1. controlMode = "FRONTIER_LED" BY <2>4 DEF DurableOK
    <3>2. Decided("RETRY") /\ activeDecision = Len(decisions) BY <1>3, <2>4, <3>1 DEF DecisionIsActive
    <3>3. Len(decisions) \in DOMAIN decisions /\ decisions[Len(decisions)] = [target |-> N, action |-> "RETRY"]
      BY <1>0, <3>2, DurableFacts DEF Decided, DurableOK
    <3>4. e.decision = Len(decisions) BY <1>2, <1>4, <2>4, <3>2
    <3>5. N \in 1 .. N /\ events[N].outcome = "RETRY" BY <1>0, <2>4, DurableFacts DEF Rejected, DurableOK
    <3>6. new[N] = events[N] /\ new[N].story = e.story /\ new[N].outcome = "RETRY"
      BY <1>2, <1>4, <1>8, <2>4, <3>5
    <3>7. RetryIsDecided(new, decisions, N + 1)
      <4>1. N + 1 - 1 = N /\ N + 1 > 1 BY <3>5
      <4> QED BY <1>8, <3>3, <3>4, <3>6, <4>1 DEF RetryIsDecided
    <3>8. new[i].attempt # 1 BY <1>2, <1>4, <1>8, <2>4
    <3> QED BY <2>4, <3>7, <3>8
  <2> QED BY <2>1, <2>2, <2>3, <2>4
<1>11. DecisionsReplay(events, decisions)'
  <2>1. /\ Len(decisions) <= MaxIterations /\ (controlMode = "AUTONOMOUS_BROKER" => decisions = <<>>)
    BY DEF DurableOK, DecisionsReplay
  <2> QED BY <1>7, <1>8, <1>9, <1>10, <2>1 DEF DecisionsReplay
<1>12. TargetsGrow(decisions)' BY DEF DurableOK, TargetsGrow
<1>13. HistoryReplays(events)' /\ (TreeBy(events, Len(events)) \in Trees)' /\ OneOpen(events)'
  BY <1>6, <1>7
<1> QED BY <1>7, <1>8, <1>11, <1>12, <1>13 DEF DurableOK

-----------------------------------------------------------------------------
(* The steps of a call. *)

\* A step that persists nothing.
LEMMA QuietKeepsDurable ==
    ASSUME DurableOK, UNCHANGED <<durable, controlMode>>
    PROVE  /\ DurableOK' /\ (Rejected' <=> Rejected) /\ (Escalated' <=> Escalated)
           /\ (Decided("RETRY")' <=> Decided("RETRY")) /\ (Decided("ESCALATE")' <=> Decided("ESCALATE"))
           /\ \A r : ResultFits(r)' <=> ResultFits(r)
<1>1. events' = events /\ decisions' = decisions /\ controlMode' = controlMode BY DEF durable
<1>2. DecisionsReplay(events, decisions)' <=> DecisionsReplay(events, decisions) BY <1>1 DEF DecisionsReplay
<1>3. Rejected' <=> Rejected BY <1>1 DEF Rejected
<1>4. (Decided("RETRY")' <=> Decided("RETRY")) /\ (Decided("ESCALATE")' <=> Decided("ESCALATE"))
  BY <1>1, <1>3 DEF Decided
<1>5. Escalated' <=> Escalated BY <1>1, <1>4 DEF Escalated
<1>6. EscalationRecorded' <=> EscalationRecorded BY <1>1 DEF EscalationRecorded
<1>7. \A r : ResultFits(r)' <=> ResultFits(r) BY <1>1, <1>3, <1>4, <1>6 DEF ResultFits
<1>8. DurableOK' BY <1>1, <1>2 DEF DurableOK
<1> QED BY <1>3, <1>4, <1>5, <1>7, <1>8

\* A call that ends, whatever it persisted last.
LEMMA FinishKeeps ==
    ASSUME DurableOK', NEW r \in Results, Finish(r), ResultFits(r)'
    PROVE  ExecutorInv'
<1>1. /\ pc' = "idle" /\ result' = r /\ supervised' = FALSE /\ supplied' = NoDecision
      /\ attempts' = [s \in Stories |-> 0] /\ accepted' = {} /\ treeHash' = InitialTree
      /\ activeDecision' = None /\ candidate' = InitialTree /\ signature' = None
  BY DEF Finish
<1>2. InitialTree \in Trees /\ None \in Nat /\ NoDecision \in Decisions /\ [s \in Stories |-> 0] \in [Stories -> Nat]
  BY PlanAssumption DEF InitialTree, Trees, None, NoDecision, Decisions, Actions
<1>3. LocalTyped' BY <1>1, <1>2 DEF LocalTyped
<1>4. MemoryIsReplay' BY <1>1 DEF MemoryIsReplay
<1>5. Control' BY <1>1 DEF Control, InLoop, Working
<1>6. (pc = "idle" => ResultFits(result))' BY <1>1
<1> QED BY <1>3, <1>4, <1>5, <1>6 DEF ExecutorInv

\* A call that throws may have persisted anything that replays.
LEMMA ThrowKeeps == ASSUME DurableOK', Finish("THROWN") PROVE ExecutorInv'
<1>1. "THROWN" \in Results BY DEF Results
<1>2. ResultFits("THROWN")' BY DEF ResultFits
<1> QED BY <1>1, <1>2, FinishKeeps

\* A rejection that is left to the host, or to the supervisor.
LEMMA AwaitKeeps ==
    ASSUME LocalTyped, DurableOK', NEW sup \in BOOLEAN, AwaitDecision(sup),
           ResultFits("AWAITING_FRONTIER_DECISION")'
    PROVE  ExecutorInv'
<1>1. CASE Finish("AWAITING_FRONTIER_DECISION")
  <2>1. "AWAITING_FRONTIER_DECISION" \in Results BY DEF Results
  <2> QED BY <1>1, <2>1, FinishKeeps
<1>2. CASE Finish("THROWN") BY <1>2, ThrowKeeps
<1>3. CASE ~Finish("AWAITING_FRONTIER_DECISION") /\ ~Finish("THROWN")
  <2>1. /\ pc' = "decide" /\ supervised' = TRUE /\ supplied' = NoDecision /\ activeDecision' = None
        /\ candidate' = InitialTree /\ signature' = None /\ result' = result
        /\ attempts' = [s \in Stories |-> 0] /\ accepted' = {} /\ treeHash' = InitialTree
    BY <1>3 DEF AwaitDecision
  <2>2. InitialTree \in Trees /\ None \in Nat /\ NoDecision \in Decisions /\ [s \in Stories |-> 0] \in [Stories -> Nat]
    BY PlanAssumption DEF InitialTree, Trees, None, NoDecision, Decisions, Actions
  <2>3. LocalTyped' BY <2>1, <2>2 DEF LocalTyped
  <2>4. MemoryIsReplay' BY <2>1 DEF MemoryIsReplay
  <2>5. Control' BY <2>1 DEF Control, InLoop, Working
  <2> QED BY <2>1, <2>3, <2>4, <2>5 DEF ExecutorInv
<1> QED BY <1>1, <1>2, <1>3

\* The beginning of a call: it replays what was persisted.
LEMMA EnterKeeps ==
    ASSUME ExecutorInv, NEW sup \in BOOLEAN, NEW d \in Decisions, Enter(sup, d), UNCHANGED <<durable, controlMode>>
    PROVE  ExecutorInv'
<1>0. DurableOK /\ LocalTyped BY DEF ExecutorInv
<1>1. /\ DurableOK' /\ (Rejected' <=> Rejected) /\ (Escalated' <=> Escalated)
      /\ (Decided("RETRY")' <=> Decided("RETRY")) /\ (Decided("ESCALATE")' <=> Decided("ESCALATE"))
      /\ \A r : ResultFits(r)' <=> ResultFits(r)
  BY <1>0, QuietKeepsDurable
<1>u. events' = events /\ decisions' = decisions /\ controlMode' = controlMode BY DEF durable
<1>2. CASE Finish("THROWN") BY <1>1, <1>2, ThrowKeeps
<1>3. HistoryReplays(events) /\ DecisionsReplay(events, decisions) BY <1>0 DEF DurableOK
<1>4. CASE Escalated /\ Finish("ESCALATE")
  <2>1. ResultFits("ESCALATE")
    <3>1. EscalationRecorded
      <4>1. CASE events # <<>> /\ events[Len(events)].outcome = "ESCALATE"
        <5>1. Len(events) \in DOMAIN events BY <1>0, <4>1, DurableFacts DEF DurableOK
        <5> QED BY <4>1, <5>1 DEF EscalationRecorded
      <4>2. CASE Decided("ESCALATE")
        <5>1. decisions # <<>> /\ decisions[Len(decisions)].action = "ESCALATE" BY <4>2 DEF Decided
        <5>2. Len(decisions) \in DOMAIN decisions BY <1>0, <5>1, DurableFacts DEF DurableOK
        <5> QED BY <5>1, <5>2 DEF EscalationRecorded
      <4> QED BY <1>4, <4>1, <4>2 DEF Escalated
    <3> QED BY <3>1 DEF ResultFits
  <2>2. "ESCALATE" \in Results BY DEF Results
  <2> QED BY <1>1, <1>4, <2>1, <2>2, FinishKeeps
<1>5. CASE ~Escalated /\ Rejected /\ ~Decided("RETRY") /\ AwaitDecision(sup)
  <2>1. ResultFits("AWAITING_FRONTIER_DECISION") BY <1>5 DEF ResultFits, Escalated
  <2> QED BY <1>0, <1>1, <1>5, <2>1, AwaitKeeps
<1>6. CASE /\ ~Escalated /\ ~Refused(d)
           /\ ~(controlMode = "FRONTIER_LED" /\ Rejected /\ d = NoDecision /\ ~Decided("RETRY"))
           /\ pc' = (IF d = NoDecision THEN "loop" ELSE "authorize")
           /\ supervised' = sup /\ supplied' = d
           /\ attempts' = [s \in Stories |-> AttemptsBy(events, Len(events), s)]
           /\ accepted' = AcceptedBy(events, Len(events)) /\ treeHash' = TreeBy(events, Len(events))
           /\ activeDecision' = (IF Decided("RETRY") THEN Len(decisions) ELSE None)
           /\ UNCHANGED <<candidate, signature, result>>
  <2>0. /\ pc' \in {"loop", "authorize"} /\ pc' \notin {"idle", "decide"} /\ pc' \notin Working
        /\ pc' \notin {"validate", "review", "persist"} BY <1>6 DEF Working
  <2>1. LocalTyped'
    <3>1. Len(events) \in 0 .. Len(events) /\ Len(decisions) \in Nat BY <1>0, DurableFacts
    <3>2. \A s : AttemptsBy(events, Len(events), s) \in Nat BY <1>0, <3>1, HistoryFacts DEF DurableOK
    <3>3. AcceptedBy(events, Len(events)) \subseteq Stories BY <1>0, <3>1, HistoryFacts DEF DurableOK
    <3>4. TreeBy(events, Len(events)) \in Trees BY <1>0 DEF DurableOK
    <3>5. attempts' \in [Stories -> Nat] BY <1>6, <3>2
    <3>6. activeDecision' \in Nat BY <1>6, <3>1 DEF None
    <3>7. pc' \in {"idle", "decide", "authorize"} \cup InLoop BY <2>0 DEF InLoop
    <3> QED BY <1>0, <1>6, <3>3, <3>4, <3>5, <3>6, <3>7 DEF LocalTyped
  <2>2. MemoryIsReplay' BY <1>6, <1>u DEF MemoryIsReplay
  <2>3. (pc = "authorize" => AwaitsAuthority)'
    <3>1. SUFFICES ASSUME d # NoDecision PROVE AwaitsAuthority' BY <1>6
    <3>2. /\ controlMode = "FRONTIER_LED" /\ Rejected /\ d.target = Len(events)
          /\ \A k \in DOMAIN decisions : decisions[k].target # d.target
      BY <1>6, <3>1 DEF Refused
    <3> QED BY <1>1, <1>6, <1>u, <3>2 DEF AwaitsAuthority
  <2>4. (pc \in InLoop => DecisionIsActive)'
    <3>1. SUFFICES ASSUME d = NoDecision PROVE DecisionIsActive' BY <1>6 DEF InLoop, Working
    <3>2. controlMode = "FRONTIER_LED" /\ Rejected => Decided("RETRY") BY <1>6, <3>1
    <3>3. Decided("RETRY") => activeDecision' = Len(decisions) BY <1>6
    <3>4. controlMode = "AUTONOMOUS_BROKER" => ~Decided("RETRY")
      BY <1>3 DEF DecisionsReplay, Decided
    <3>5. controlMode = "AUTONOMOUS_BROKER" => activeDecision' = None BY <1>6, <3>4
    <3> QED BY <1>1, <1>u, <3>2, <3>3, <3>5 DEF DecisionIsActive
  <2>5. ~Escalated' BY <1>1, <1>6
  <2>6. Control' BY <2>0, <2>3, <2>4, <2>5 DEF Control
  <2> QED BY <1>1, <2>0, <2>1, <2>2, <2>6 DEF ExecutorInv
<1>7. \/ Finish("THROWN")
      \/ Escalated /\ Finish("ESCALATE")
      \/ ~Escalated /\ Rejected /\ ~Decided("RETRY") /\ AwaitDecision(sup)
      \/ /\ ~Escalated /\ ~Refused(d)
         /\ ~(controlMode = "FRONTIER_LED" /\ Rejected /\ d = NoDecision /\ ~Decided("RETRY"))
         /\ pc' = (IF d = NoDecision THEN "loop" ELSE "authorize")
         /\ supervised' = sup /\ supplied' = d
         /\ attempts' = [s \in Stories |-> AttemptsBy(events, Len(events), s)]
         /\ accepted' = AcceptedBy(events, Len(events)) /\ treeHash' = TreeBy(events, Len(events))
         /\ activeDecision' = (IF Decided("RETRY") THEN Len(decisions) ELSE None)
         /\ UNCHANGED <<candidate, signature, result>>
  BY <1>3 DEF Enter
<1> QED BY <1>2, <1>4, <1>5, <1>6, <1>7

\* A decision is persisted: the chain of decisions still replays.
LEMMA AuthorizedReplays ==
    ASSUME DurableOK, LocalTyped, Control, pc = "authorize",
           decisions' = Append(decisions, supplied), UNCHANGED <<events, controlMode>>
    PROVE  /\ DurableOK' /\ Len(decisions') = Len(decisions) + 1 /\ decisions' # <<>>
           /\ decisions'[Len(decisions')] = supplied /\ Rejected'
<1>0. PICK M \in Nat : M = Len(decisions) BY DurableFacts
<1>1. PICK N \in Nat : N = Len(events) BY DurableFacts
<1>2. /\ controlMode = "FRONTIER_LED" /\ Rejected /\ supplied.target = N
      /\ \A k \in DOMAIN decisions : decisions[k].target # N
  BY <1>1 DEF Control, AwaitsAuthority
<1>3. PICK new : new = Append(decisions, supplied) /\ decisions' = new OBVIOUS
<1>4. supplied \in Decisions /\ decisions \in Seq(Decisions) BY DEF LocalTyped, DurableOK
<1>5. /\ new \in Seq(Decisions) /\ Len(new) = M + 1 /\ DOMAIN new = 1 .. M + 1 /\ new[M + 1] = supplied
      /\ \A k \in 1 .. M : new[k] = decisions[k]
  BY <1>0, <1>3, <1>4
<1>6. N \in 1 .. N /\ N \in DOMAIN events /\ events[N].outcome = "RETRY"
  BY <1>1, <1>2, DurableFacts DEF Rejected, DurableOK
<1>7. \A k \in 1 .. M : decisions[k].target \in 1 .. N /\ decisions[k].target >= k /\ decisions[k].target < N
  <2>1. \A k \in 1 .. M : decisions[k].target \in 1 .. N /\ decisions[k].target >= k
    BY <1>0, <1>1, DurableFacts
  <2>2. \A k \in 1 .. M : decisions[k].target # N BY <1>0, <1>2, DurableFacts
  <2> QED BY <2>1, <2>2
<1>8. N >= M + 1
  <2>1. CASE M = 0 BY <1>6, <2>1
  <2>2. CASE M > 0
    <3>1. M \in 1 .. M BY <2>2
    <3>2. PICK x \in 1 .. N : x = decisions[M].target /\ x >= M /\ x < N BY <1>7, <3>1
    <3> QED BY <3>2
  <2> QED BY <2>1, <2>2
<1>9. ASSUME NEW k \in 1 .. M PROVE DecisionReplays(events, new, k)
  <2>1. k \in DOMAIN decisions BY <1>0, DurableFacts
  <2>2. DecisionReplays(events, decisions, k) BY <2>1 DEF DurableOK, DecisionsReplay
  <2>3. \A j \in 1 .. k - 1 : j \in 1 .. M OBVIOUS
  <2>4. new[k] = decisions[k] /\ \A j \in 1 .. k - 1 : new[j] = decisions[j] BY <1>5, <2>3
  <2>5. decisions[k].target < Len(events) BY <1>1, <1>7
  <2> QED BY <2>2, <2>4, <2>5 DEF DecisionReplays
<1>10. DecisionReplays(events, new, M + 1)
  <2>1. \A j \in 1 .. M + 1 - 1 : new[j].target < N
    <3>1. \A j \in 1 .. M + 1 - 1 : j \in 1 .. M OBVIOUS
    <3> QED BY <1>5, <1>7, <3>1
  <2> QED BY <1>1, <1>2, <1>5, <1>6, <2>1 DEF DecisionReplays
<1>11. ASSUME NEW i \in DOMAIN events
       PROVE  IF events[i].attempt = 1 \/ controlMode = "AUTONOMOUS_BROKER"
              THEN events[i].decision = None ELSE RetryIsDecided(events, new, i)
  <2>1. IF events[i].attempt = 1 \/ controlMode = "AUTONOMOUS_BROKER"
        THEN events[i].decision = None ELSE RetryIsDecided(events, decisions, i)
    BY DEF DurableOK, DecisionsReplay
  <2>2. \A k \in DOMAIN decisions : k \in DOMAIN new /\ new[k] = decisions[k] BY <1>0, <1>5, DurableFacts
  <2> QED BY <2>1, <2>2 DEF RetryIsDecided
<1>12. DecisionsReplay(events, decisions)'
  <2>1. \A k \in DOMAIN new : DecisionReplays(events, new, k)
    <3>1. \A k \in 1 .. M + 1 : k \in 1 .. M \/ k = M + 1 OBVIOUS
    <3> QED BY <1>5, <1>9, <1>10, <3>1
  <2>2. Len(new) <= MaxIterations
    <3>1. N <= MaxIterations BY <1>1, DurableFacts
    <3> QED BY <1>5, <1>8, <3>1, PlanAssumption
  <2> QED BY <1>2, <1>3, <1>11, <2>1, <2>2 DEF DecisionsReplay
<1>13. TargetsGrow(new)
  <2>1. \A k \in 1 .. M : new[k].target >= k BY <1>5, <1>7
  <2>2. new[M + 1].target >= M + 1 BY <1>2, <1>5, <1>8
  <2>3. \A k \in 1 .. M + 1 : k \in 1 .. M \/ k = M + 1 OBVIOUS
  <2> QED BY <1>5, <2>1, <2>2, <2>3 DEF TargetsGrow
<1>14. DurableOK' BY <1>3, <1>5, <1>12, <1>13 DEF DurableOK
<1>15. Rejected' BY <1>2 DEF Rejected
<1>16. new # <<>> BY <1>5
<1> QED BY <1>0, <1>3, <1>5, <1>14, <1>15, <1>16

\* Nothing is persisted yet.
LEMMA InitExecutor == Init => ExecutorInv
<1> SUFFICES ASSUME Init PROVE ExecutorInv OBVIOUS
<1>1. /\ events = <<>> /\ decisions = <<>> /\ controlMode \in {"AUTONOMOUS_BROKER", "FRONTIER_LED"}
      /\ pc = "idle" /\ supervised = FALSE /\ supplied = NoDecision
      /\ attempts = [s \in Stories |-> 0] /\ accepted = {} /\ treeHash = InitialTree
      /\ activeDecision = None /\ candidate = InitialTree /\ signature = None /\ result = "NONE"
  BY DEF Init
<1>2. InitialTree \in Trees /\ None \in Nat /\ NoDecision \in Decisions /\ [s \in Stories |-> 0] \in [Stories -> Nat]
  BY PlanAssumption DEF InitialTree, Trees, None, NoDecision, Decisions, Actions
<1>3. events \in Seq(Events) /\ decisions \in Seq(Decisions) /\ Len(events) = 0 /\ Len(decisions) = 0
      /\ DOMAIN events = {} /\ DOMAIN decisions = {} /\ 1 .. 0 = {}
  BY <1>1
<1>4. HistoryReplays(events) BY <1>3, PlanAssumption DEF HistoryReplays
<1>5. DecisionsReplay(events, decisions) BY <1>1, <1>3, PlanAssumption DEF DecisionsReplay
<1>6. TreeBy(events, Len(events)) \in Trees BY <1>2, <1>3 DEF TreeBy
<1>7. OneOpen(events) /\ TargetsGrow(decisions) BY <1>3 DEF OneOpen, TargetsGrow
<1>8. DurableOK BY <1>1, <1>3, <1>4, <1>5, <1>6, <1>7 DEF DurableOK
<1>9. LocalTyped BY <1>1, <1>2 DEF LocalTyped, Results
<1>10. MemoryIsReplay /\ Control BY <1>1 DEF MemoryIsReplay, Control, InLoop, Working
<1>11. ResultFits(result) BY <1>1 DEF ResultFits
<1> QED BY <1>8, <1>9, <1>10, <1>11 DEF ExecutorInv

\* A step of the loop that persists nothing and keeps the memory of the call: only
\* what it moves to has to be established.
LEMMA QuietStepKeeps ==
    ASSUME ExecutorInv, pc \in InLoop, Quiet, UNCHANGED <<supervised, supplied, memory, activeDecision, result>>,
           pc' \in InLoop, candidate' \in Trees, signature' \in Signatures \cup {None},
           pc' \in Working => Selected,
           pc' \in {"validate", "review", "persist"} => candidate' # treeHash
    PROVE  ExecutorInv'
<1>1. DurableOK /\ LocalTyped /\ MemoryIsReplay /\ Control BY DEF ExecutorInv
<1>2. /\ events' = events /\ decisions' = decisions /\ controlMode' = controlMode
      /\ attempts' = attempts /\ accepted' = accepted /\ treeHash' = treeHash
      /\ supervised' = supervised /\ supplied' = supplied /\ activeDecision' = activeDecision /\ result' = result
  BY DEF Quiet, durable, memory
<1>3. /\ DurableOK' /\ (Rejected' <=> Rejected) /\ (Escalated' <=> Escalated)
      /\ (Decided("RETRY")' <=> Decided("RETRY"))
  BY <1>1, QuietKeepsDurable DEF Quiet
<1>4. pc \notin {"idle", "decide"} /\ pc' \notin {"idle", "decide", "authorize"} BY DEF InLoop, Working
<1>5. LocalTyped' BY <1>1, <1>2 DEF LocalTyped
<1>6. MemoryIsReplay' BY <1>1, <1>2, <1>4 DEF MemoryIsReplay
<1>7. DecisionIsActive' BY <1>1, <1>2, <1>3 DEF Control, DecisionIsActive
<1>8. ~Escalated' BY <1>1, <1>3 DEF Control
<1>9. Selected' <=> Selected BY <1>2 DEF Selected, Story, Attempt
<1>10. Control' BY <1>2, <1>4, <1>7, <1>8, <1>9 DEF Control
<1> QED BY <1>3, <1>4, <1>5, <1>6, <1>10 DEF ExecutorInv

\* A call that is not escalated has no escalation on record.
LEMMA NoEscalation == ASSUME DurableOK, ~Escalated PROVE ~EscalationRecorded
<1>0. PICK N \in Nat : N = Len(events) BY DurableFacts
<1>1. ASSUME NEW i \in DOMAIN events, events[i].outcome = "ESCALATE" PROVE FALSE
  <2>1. EventReplays(events, i) BY DEF DurableOK, HistoryReplays
  <2>2. i = Len(events) BY <1>1, <2>1 DEF EventReplays
  <2>3. events # <<>> BY <1>1, <2>2, DurableFacts
  <2> QED BY <1>1, <2>2, <2>3 DEF Escalated
<1>2. ASSUME NEW k \in DOMAIN decisions, decisions[k].action = "ESCALATE" PROVE FALSE
  <2>1. DecisionReplays(events, decisions, k) BY DEF DurableOK, DecisionsReplay
  <2>2. /\ decisions[k].target \in DOMAIN events /\ events[decisions[k].target].outcome = "RETRY"
        /\ ~(decisions[k].target < Len(events)) /\ k = Len(decisions)
    BY <1>2, <2>1 DEF DecisionReplays
  <2>3. decisions[k].target = N BY <1>0, <2>2, DurableFacts
  <2>4. decisions[k] = [target |-> N, action |-> "ESCALATE"]
    BY <1>2, <2>3, DurableFacts DEF Decisions
  <2>5. events # <<>> BY <2>2, DurableFacts
  <2>6. decisions # <<>> BY <2>2, DurableFacts
  <2>7. Decided("ESCALATE") BY <1>0, <2>2, <2>3, <2>4, <2>5, <2>6 DEF Decided, Rejected
  <2> QED BY <2>7 DEF Escalated
<1> QED BY <1>1, <1>2 DEF EscalationRecorded

\* The loop ends at the iteration limit, or with no story left.
LEMMA LoopEndKeeps == ASSUME ExecutorInv, AtLimit \/ NoStory PROVE ExecutorInv'
<1>1. DurableOK /\ MemoryIsReplay /\ Control /\ pc = "loop" /\ Quiet BY DEF ExecutorInv, AtLimit, NoStory
<1>2. accepted = AcceptedBy(events, Len(events)) /\ ~Escalated
  BY <1>1 DEF MemoryIsReplay, Control, InLoop
<1>3. DurableOK' /\ \A r : ResultFits(r)' <=> ResultFits(r) BY <1>1, QuietKeepsDurable DEF Quiet
<1>4. CASE accepted = Stories /\ Finish("COMPLETE")
  <2>1. ResultFits("COMPLETE") /\ "COMPLETE" \in Results BY <1>2, <1>4 DEF ResultFits, Results
  <2> QED BY <1>3, <1>4, <2>1, FinishKeeps
<1>5. CASE accepted # Stories /\ Len(events) >= MaxIterations /\ Finish("ITERATION_LIMIT")
  <2>1. Len(events) = MaxIterations
    <3>1. Len(events) \in Nat /\ Len(events) <= MaxIterations BY <1>1, DurableFacts
    <3>2. MaxIterations \in Nat BY PlanAssumption
    <3> QED BY <1>5, <3>1, <3>2
  <2>2. ~EscalationRecorded BY <1>1, <1>2, NoEscalation
  <2>3. ResultFits("ITERATION_LIMIT") /\ "ITERATION_LIMIT" \in Results
    BY <1>2, <1>5, <2>1, <2>2 DEF ResultFits, Results
  <2> QED BY <1>3, <1>5, <2>3, FinishKeeps
<1>6. CASE Finish("THROWN") BY <1>3, <1>6, ThrowKeeps
<1> QED BY <1>4, <1>5, <1>6 DEF AtLimit, NoStory

\* A story that replay leaves open has attempts left: the loop never escalates here.
LEMMA SelectKeeps == ASSUME ExecutorInv, SelectStory PROVE ExecutorInv'
<1>1. DurableOK /\ LocalTyped /\ MemoryIsReplay /\ Control /\ pc = "loop" /\ Quiet
      /\ Len(events) < MaxIterations /\ Story # None
  BY DEF ExecutorInv, SelectStory
<1>2. pc \in InLoop /\ ~Escalated BY <1>1 DEF InLoop, Control
<1>3. Attempt <= MaxAttempts BY <1>1, <1>2, AttemptsLeft
<1>4. ~(Attempt > MaxAttempts)
  <2>1. attempts[Story] \in Nat BY <1>1, <1>2, RetryIsOfLast
  <2> QED BY <1>3, <2>1, PlanAssumption DEF Attempt
<1>5. DurableOK' BY <1>1, QuietKeepsDurable DEF Quiet
<1>6. CASE Finish("THROWN") BY <1>5, <1>6, ThrowKeeps
<1>7. CASE /\ pc' = (IF Attempt > 1 THEN "repair" ELSE "execute")
           /\ UNCHANGED <<supervised, supplied, memory, activeDecision, candidate, signature, result>>
  <2>1. pc' \in InLoop /\ pc' \notin {"validate", "review", "persist"} BY <1>7 DEF InLoop, Working
  <2>2. Selected BY <1>1, <1>3 DEF Selected
  <2>3. candidate' \in Trees /\ signature' \in Signatures \cup {None} BY <1>1, <1>7 DEF LocalTyped
  <2> QED BY <1>1, <1>2, <1>7, <2>1, <2>2, <2>3, QuietStepKeeps
<1> QED BY <1>4, <1>6, <1>7 DEF SelectStory

\* The worker, the validator and the reviewer answer.
LEMMA WorkKeeps ==
    ASSUME ExecutorInv, \/ LoadRepairPacket \/ \E t \in Trees : Execute(t)
                        \/ \E g \in 0 .. NumSignatures : Validate(g) \/ Review(g)
    PROVE  ExecutorInv'
<1>1. LocalTyped /\ Control /\ pc \in Working /\ Quiet
  BY DEF ExecutorInv, LoadRepairPacket, Execute, Validate, Review, Working
<1>2. pc \in InLoop /\ Selected BY <1>1 DEF InLoop, Control
<1>3. candidate \in Trees /\ signature \in Signatures \cup {None} BY <1>1 DEF LocalTyped
<1>4. CASE LoadRepairPacket
  <2>1. /\ pc' = "execute" /\ candidate' = candidate /\ signature' = signature
        /\ UNCHANGED <<supervised, supplied, memory, activeDecision, result>>
    BY <1>4 DEF LoadRepairPacket
  <2>2. pc' \in InLoop /\ pc' \notin {"validate", "review", "persist"} BY <2>1 DEF InLoop, Working
  <2> QED BY <1>1, <1>2, <1>3, <2>1, <2>2, QuietStepKeeps
<1>5. ASSUME NEW t \in Trees, Execute(t) PROVE ExecutorInv'
  <2>1. /\ pc' = "validate" /\ candidate' = t /\ t # treeHash /\ signature' = signature
        /\ UNCHANGED <<supervised, supplied, memory, activeDecision, result>>
    BY <1>5 DEF Execute
  <2>2. pc' \in InLoop BY <2>1 DEF InLoop, Working
  <2> QED BY <1>1, <1>2, <1>3, <2>1, <2>2, QuietStepKeeps
<1>6. ASSUME NEW g \in 0 .. NumSignatures, Validate(g) \/ Review(g) PROVE ExecutorInv'
  <2>1. /\ pc \in {"validate", "review"} /\ pc' \in {"review", "persist"} /\ candidate' = candidate
        /\ signature' = g \/ signature' = (IF g = None THEN None ELSE NumSignatures + g)
        /\ UNCHANGED <<supervised, supplied, memory, activeDecision, result>>
    BY <1>6 DEF Validate, Review
  <2>2. signature' \in Signatures \cup {None} BY <2>1, PlanAssumption DEF Signatures, None
  <2>3. pc' \in InLoop BY <2>1 DEF InLoop, Working
  <2>4. candidate # treeHash BY <1>1, <2>1 DEF Control
  <2> QED BY <1>1, <1>2, <1>3, <2>1, <2>2, <2>3, <2>4, QuietStepKeeps
<1> QED BY <1>4, <1>5, <1>6

\* The decision is durable: the call escalates, or enters its loop with it.
LEMMA AuthorizeKeeps == ASSUME ExecutorInv, Authorize PROVE ExecutorInv'
<1>1. /\ DurableOK /\ LocalTyped /\ MemoryIsReplay /\ Control /\ pc = "authorize"
      /\ decisions' = Append(decisions, supplied) /\ events' = events /\ controlMode' = controlMode
  BY DEF ExecutorInv, Authorize
<1>2. /\ DurableOK' /\ Len(decisions') = Len(decisions) + 1 /\ decisions' # <<>>
      /\ decisions'[Len(decisions')] = supplied /\ Rejected'
  BY <1>1, AuthorizedReplays
<1>3. supplied \in Decisions /\ supplied.target = Len(events) /\ controlMode = "FRONTIER_LED"
  BY <1>1 DEF LocalTyped, Control, AwaitsAuthority
<1>4. Len(decisions) \in Nat BY <1>1, DurableFacts
<1>5. Len(decisions') \in DOMAIN decisions'
  <2>1. decisions' \in Seq(Decisions) BY <1>2 DEF DurableOK
  <2> QED BY <1>2, <1>4, <2>1
<1>6. CASE supplied.action = "ESCALATE"
  <2>1. Finish("ESCALATE") BY <1>6 DEF Authorize
  <2>2. EscalationRecorded' BY <1>2, <1>5, <1>6 DEF EscalationRecorded
  <2>3. ResultFits("ESCALATE")' /\ "ESCALATE" \in Results BY <2>2 DEF ResultFits, Results
  <2> QED BY <1>2, <2>1, <2>3, FinishKeeps
<1>7. CASE supplied.action = "RETRY"
  <2>1. /\ activeDecision' = Len(decisions) + 1 /\ pc' = "loop" /\ supervised' = supervised /\ supplied' = supplied
        /\ attempts' = attempts /\ accepted' = accepted /\ treeHash' = treeHash
        /\ candidate' = candidate /\ signature' = signature /\ result' = result
    BY <1>7 DEF Authorize, memory
  <2>2. supplied = [target |-> Len(events), action |-> "RETRY"] BY <1>3, <1>7 DEF Decisions
  <2>3. Decided("RETRY")' BY <1>1, <1>2, <2>2 DEF Decided
  <2>4. ~Decided("ESCALATE")' BY <1>2, <1>7 DEF Decided
  <2>5. ~Escalated' BY <1>2, <2>4 DEF Escalated, Rejected
  <2>6. DecisionIsActive' BY <1>1, <1>2, <1>3, <2>1, <2>3 DEF DecisionIsActive
  <2>7. Control' BY <2>1, <2>5, <2>6 DEF Control, InLoop, Working
  <2>8. MemoryIsReplay' BY <1>1, <2>1 DEF MemoryIsReplay
  <2>9. LocalTyped'
    <3>1. pc' \in InLoop /\ activeDecision' \in Nat BY <1>4, <2>1 DEF InLoop
    <3> QED BY <1>1, <2>1, <3>1 DEF LocalTyped
  <2> QED BY <1>2, <2>1, <2>7, <2>8, <2>9 DEF ExecutorInv
<1> QED BY <1>3, <1>6, <1>7 DEF Decisions, Actions

\* What the event just persisted adds to the history.
LEMMA PersistedHistory ==
    ASSUME ExecutorInv, pc = "persist", events' = Append(events, Event), UNCHANGED <<decisions, controlMode>>
    PROVE  /\ DurableOK' /\ Len(events') \in DOMAIN events' /\ events' # <<>>
           /\ events'[Len(events')].outcome = Outcome
           /\ AcceptedBy(events, Len(events))' = (IF Outcome = "ACCEPTED" THEN accepted \cup {Story} ELSE accepted)
           /\ TreeBy(events, Len(events))' = (IF Outcome = "ACCEPTED" THEN candidate ELSE treeHash)
           /\ \A s \in Stories :
                 AttemptsBy(events, Len(events), s)' = (IF s = Story THEN Attempt ELSE attempts[s])
           /\ ~Decided("RETRY")' /\ ~Decided("ESCALATE")'
<1>1. DurableOK /\ LocalTyped /\ MemoryIsReplay /\ Control BY DEF ExecutorInv
<1>2. DurableOK' BY <1>1, PersistedReplays
<1>3. PICK N \in Nat : N = Len(events) BY <1>1, DurableFacts
<1>4. PICK e : e = Event OBVIOUS
<1>5. e \in Events /\ e.outcome = Outcome /\ e.story = Story /\ e.candidate = candidate
  BY <1>1, <1>4, EventIsFit DEF EventFits
<1>6. events \in Seq(Events) BY <1>1 DEF DurableOK
<1>7. PICK new : new = Append(events, e) /\ events' = new BY <1>4
<1>8. /\ new \in Seq(Events) /\ Len(new) = N + 1 /\ DOMAIN new = 1 .. N + 1 /\ new[N + 1] = e
      /\ AcceptedBy(new, N) = AcceptedBy(events, N) /\ TreeBy(new, N) = TreeBy(events, N)
      /\ \A s : AttemptsBy(new, N, s) = AttemptsBy(events, N, s)
  BY <1>3, <1>5, <1>6, <1>7, PrefixKept
<1>9. N + 1 \in 1 .. Len(new) /\ N + 1 - 1 = N BY <1>8
<1>10. /\ AcceptedBy(new, N + 1) = AcceptedBy(new, N) \cup (IF new[N + 1].outcome = "ACCEPTED" THEN {new[N + 1].story} ELSE {})
       /\ \A s : AttemptsBy(new, N + 1, s) = AttemptsBy(new, N, s) + (IF new[N + 1].story = s THEN 1 ELSE 0)
       /\ TreeBy(new, N + 1) = IF new[N + 1].outcome = "ACCEPTED" THEN new[N + 1].candidate ELSE TreeBy(new, N)
  BY <1>8, <1>9, EventCounts
<1>11. /\ accepted = AcceptedBy(events, N) /\ treeHash = TreeBy(events, N)
       /\ \A s \in Stories : attempts[s] = AttemptsBy(events, N, s) /\ attempts[s] \in Nat
  BY <1>1, <1>3 DEF MemoryIsReplay, LocalTyped
<1>12. Story \in Stories BY <1>5 DEF Events
<1>13. AcceptedBy(new, N + 1) = (IF Outcome = "ACCEPTED" THEN accepted \cup {Story} ELSE accepted)
  BY <1>5, <1>8, <1>10, <1>11
<1>14. TreeBy(new, N + 1) = (IF Outcome = "ACCEPTED" THEN candidate ELSE treeHash) BY <1>5, <1>8, <1>10, <1>11
<1>15. ASSUME NEW s \in Stories PROVE AttemptsBy(new, N + 1, s) = (IF s = Story THEN Attempt ELSE attempts[s])
  <2>1. AttemptsBy(new, N + 1, s) = attempts[s] + (IF s = Story THEN 1 ELSE 0) BY <1>5, <1>8, <1>10, <1>11
  <2>2. attempts[s] \in Nat BY <1>11
  <2> QED BY <2>1, <2>2 DEF Attempt
<1>16. \A k \in 1 .. Len(decisions) : decisions[k].target # N + 1
  <2>1. \A k \in 1 .. Len(decisions) : decisions[k].target \in 1 .. N BY <1>1, <1>3, DurableFacts
  <2>2. N + 1 \notin 1 .. N OBVIOUS
  <2> QED BY <2>1, <2>2
<1>17. ASSUME NEW a, Decided(a)' PROVE FALSE
  <2>1. decisions # <<>> /\ decisions[Len(decisions)] = [target |-> N + 1, action |-> a]
    BY <1>7, <1>8, <1>17 DEF Decided
  <2>2. decisions[Len(decisions)].target = N + 1 BY <2>1
  <2>3. decisions \in Seq(Decisions) BY <1>1 DEF DurableOK
  <2>4. Len(decisions) \in 1 .. Len(decisions) BY <2>1, <2>3
  <2> QED BY <1>16, <2>2, <2>4
<1>18. new # <<>> BY <1>8
<1> QED BY <1>2, <1>5, <1>7, <1>8, <1>13, <1>14, <1>15, <1>17, <1>18

\* The iteration is durable: the call escalates, waits for a decision, or goes on.
LEMMA PersistKeeps == ASSUME ExecutorInv, PersistIteration PROVE ExecutorInv'
<1>1. /\ DurableOK /\ LocalTyped /\ Control /\ pc = "persist"
      /\ events' = Append(events, Event) /\ decisions' = decisions /\ controlMode' = controlMode
  BY DEF ExecutorInv, PersistIteration
<1>2. /\ DurableOK' /\ Len(events') \in DOMAIN events' /\ events' # <<>>
      /\ events'[Len(events')].outcome = Outcome
      /\ AcceptedBy(events, Len(events))' = (IF Outcome = "ACCEPTED" THEN accepted \cup {Story} ELSE accepted)
      /\ TreeBy(events, Len(events))' = (IF Outcome = "ACCEPTED" THEN candidate ELSE treeHash)
      /\ \A s \in Stories : AttemptsBy(events, Len(events), s)' = (IF s = Story THEN Attempt ELSE attempts[s])
      /\ ~Decided("RETRY")' /\ ~Decided("ESCALATE")'
  BY <1>1, PersistedHistory
<1>3. CASE Outcome = "ESCALATE"
  <2>1. Finish("ESCALATE") BY <1>3 DEF PersistIteration
  <2>2. EscalationRecorded' BY <1>2, <1>3 DEF EscalationRecorded
  <2>3. ResultFits("ESCALATE")' /\ "ESCALATE" \in Results BY <2>2 DEF ResultFits, Results
  <2> QED BY <1>2, <2>1, <2>3, FinishKeeps
<1>4. CASE Outcome = "RETRY" /\ controlMode = "FRONTIER_LED"
  <2>1. AwaitDecision(supervised) BY <1>4 DEF PersistIteration
  <2>2. Rejected' BY <1>2, <1>4 DEF Rejected
  <2>3. ResultFits("AWAITING_FRONTIER_DECISION")' BY <1>2, <2>2 DEF ResultFits
  <2>4. supervised \in BOOLEAN BY <1>1 DEF LocalTyped
  <2> QED BY <1>1, <1>2, <2>1, <2>3, <2>4, AwaitKeeps
<1>5. CASE Outcome # "ESCALATE" /\ ~(Outcome = "RETRY" /\ controlMode = "FRONTIER_LED")
  <2>1. /\ attempts' = [attempts EXCEPT ![Story] = Attempt]
        /\ accepted' = (IF Outcome = "ACCEPTED" THEN accepted \cup {Story} ELSE accepted)
        /\ treeHash' = (IF Outcome = "ACCEPTED" THEN candidate ELSE treeHash)
        /\ pc' = "loop" /\ candidate' = InitialTree /\ signature' = None
        /\ supervised' = supervised /\ supplied' = supplied /\ activeDecision' = activeDecision /\ result' = result
    BY <1>5 DEF PersistIteration
  <2>2. /\ supervised \in BOOLEAN /\ supplied \in Decisions /\ attempts \in [Stories -> Nat]
        /\ accepted \subseteq Stories /\ treeHash \in Trees /\ activeDecision \in Nat
        /\ candidate \in Trees /\ result \in Results
    BY <1>1 DEF LocalTyped
  <2>3. Story \in Stories /\ Attempt \in Nat
    <3>1. Event \in Events /\ Event.story = Story /\ Event.attempt = Attempt
      BY <1>1, EventIsFit DEF ExecutorInv, EventFits
    <3>2. \A e \in Events : e.story \in Stories /\ e.attempt \in Nat BY DEF Events
    <3> QED BY <3>1, <3>2
  <2>4. \A s \in Stories : attempts'[s] = (IF s = Story THEN Attempt ELSE attempts[s]) BY <2>1, <2>2
  <2>5. attempts' \in [Stories -> Nat] BY <2>1, <2>2, <2>3
  <2>6. LocalTyped'
    <3>1. InitialTree \in Trees BY PlanAssumption DEF InitialTree, Trees
    <3>2. pc' \in InLoop /\ accepted' \subseteq Stories /\ treeHash' \in Trees BY <2>1, <2>2, <2>3 DEF InLoop
    <3> QED BY <2>1, <2>2, <2>5, <3>1, <3>2 DEF LocalTyped
  <2>7. MemoryIsReplay' BY <1>2, <2>1, <2>4 DEF MemoryIsReplay
  <2>8. ~Escalated' BY <1>2, <1>5 DEF Escalated
  <2>9. DecisionIsActive'
    <3>1. ~(controlMode' = "FRONTIER_LED" /\ Rejected') BY <1>1, <1>2, <1>5 DEF Rejected
    <3>2. controlMode = "AUTONOMOUS_BROKER" => activeDecision = None
      BY <1>1 DEF Control, DecisionIsActive, InLoop, Working
    <3> QED BY <1>1, <1>2, <2>1, <3>1, <3>2 DEF DecisionIsActive
  <2>10. Control' BY <2>1, <2>8, <2>9 DEF Control, InLoop, Working
  <2> QED BY <1>2, <2>1, <2>6, <2>7, <2>10 DEF ExecutorInv
<1> QED BY <1>3, <1>4, <1>5

\* Every step keeps the invariant.
LEMMA ExecutorStep == ExecutorInv /\ [Next]_vars => ExecutorInv'
<1> SUFFICES ASSUME ExecutorInv, [Next]_vars PROVE ExecutorInv' OBVIOUS
<1>1. DurableOK /\ LocalTyped /\ MemoryIsReplay /\ Control BY DEF ExecutorInv
<1>2. NoDecision \in Decisions BY DEF NoDecision, Decisions, Actions
<1>3. ASSUME NEW d \in Decisions, Call(d) PROVE ExecutorInv' BY <1>3, EnterKeeps DEF Call
<1>4. ASSUME Supervise PROVE ExecutorInv' BY <1>2, <1>4, EnterKeeps DEF Supervise
<1>5. ASSUME NEW action \in Actions, Decide(action) PROVE ExecutorInv'
  <2>1. [target |-> Len(events), action |-> action] \in Decisions BY <1>1, DurableFacts DEF Decisions
  <2> QED BY <1>5, <2>1, EnterKeeps DEF Decide
<1>6. CASE Authorize BY <1>6, AuthorizeKeeps
<1>7. CASE AtLimit \/ NoStory BY <1>7, LoopEndKeeps
<1>8. CASE SelectStory BY <1>8, SelectKeeps
<1>9. CASE \/ LoadRepairPacket \/ \E t \in Trees : Execute(t)
           \/ \E g \in 0 .. NumSignatures : Validate(g) \/ Review(g)
  BY <1>9, WorkKeeps
<1>10. CASE PersistIteration BY <1>10, PersistKeeps
<1>11. CASE AuthorizeLost
  <2>1. DurableOK' BY <1>1, <1>11, AuthorizedReplays DEF AuthorizeLost
  <2> QED BY <1>11, <2>1, ThrowKeeps DEF AuthorizeLost
<1>12. CASE PersistIterationLost
  <2>1. DurableOK' BY <1>1, <1>12, PersistedReplays DEF PersistIterationLost
  <2> QED BY <1>12, <2>1, ThrowKeeps DEF PersistIterationLost
<1>13. CASE Fail
  <2>1. DurableOK' BY <1>1, <1>13, QuietKeepsDurable DEF Fail, Quiet
  <2> QED BY <1>13, <2>1, ThrowKeeps DEF Fail
<1>14. ASSUME NEW n \in 1 .. MaxIterations, NEW action \in Actions, Call([target |-> n, action |-> action])
       PROVE  ExecutorInv'
  <2>1. [target |-> n, action |-> action] \in Decisions BY PlanAssumption DEF Decisions
  <2> QED BY <1>3, <1>14, <2>1
<1>15. CASE UNCHANGED vars
  <2>1. /\ UNCHANGED <<durable, controlMode>> /\ pc' = pc /\ supervised' = supervised /\ supplied' = supplied
        /\ attempts' = attempts /\ accepted' = accepted /\ treeHash' = treeHash
        /\ activeDecision' = activeDecision /\ candidate' = candidate /\ signature' = signature /\ result' = result
        /\ events' = events /\ decisions' = decisions /\ controlMode' = controlMode
    BY <1>15 DEF vars, durable
  <2>2. /\ DurableOK' /\ (Rejected' <=> Rejected) /\ (Escalated' <=> Escalated)
        /\ (Decided("RETRY")' <=> Decided("RETRY"))
        /\ \A r : ResultFits(r)' <=> ResultFits(r)
    BY <1>1, <2>1, QuietKeepsDurable
  <2>3. LocalTyped' BY <1>1, <2>1 DEF LocalTyped
  <2>4. MemoryIsReplay' BY <1>1, <2>1 DEF MemoryIsReplay
  <2>5. AwaitsAuthority' <=> AwaitsAuthority BY <2>1, <2>2 DEF AwaitsAuthority
  <2>6. DecisionIsActive' <=> DecisionIsActive BY <2>1, <2>2 DEF DecisionIsActive
  <2>7. Selected' <=> Selected BY <2>1 DEF Selected, Story, Attempt
  <2>8. Control' BY <1>1, <2>1, <2>2, <2>5, <2>6, <2>7 DEF Control
  <2> QED BY <2>1, <2>2, <2>3, <2>4, <2>8 DEF ExecutorInv
<1> QED BY <1>2, <1>3, <1>4, <1>5, <1>6, <1>7, <1>8, <1>9, <1>10, <1>11, <1>12, <1>13, <1>14, <1>15 DEF Next, Step

-----------------------------------------------------------------------------
(* The theorems. *)

\* The invariant holds of every behaviour of runIterativeExecutorV4 and its supervisor.
THEOREM ExecutorInvariant == Spec => []ExecutorInv
<1> QED BY InitExecutor, ExecutorStep, PTL DEF Spec

\* What runIterativeExecutorV4 keeps, in memory and through persist_iteration and
\* persist_frontier_decision, always has its type, whatever call throws or is cut off.
THEOREM ExecutorTyped == Spec => []TypeOK
<1>1. ExecutorInv => TypeOK BY DEF ExecutorInv, DurableOK, LocalTyped, InLoop, Working, TypeOK
<1> QED BY <1>1, ExecutorInvariant, PTL

\* runIterativeExecutorV4 under frontier-supervisor.ts: what was persisted when a call
\* ended or was cut off is accepted by the replay of the next call; the maps its loop
\* updates are those replay computes; under FRONTIER_LED no retry is worked on before the
\* decision about exactly the last rejection is durable; and what a call returned agrees
\* with the history.
THEOREM HistoryAlwaysSound == Spec => []HistorySound
<1>1. ExecutorInv => HistorySound
  <2> SUFFICES ASSUME ExecutorInv PROVE HistorySound OBVIOUS
  <2>1. DurableOK /\ LocalTyped /\ MemoryIsReplay /\ Control BY DEF ExecutorInv
  <2>2. PersistedHistoryReplays BY <2>1 DEF DurableOK, PersistedHistoryReplays
  <2>3. RetryAuthorized
    <3> SUFFICES ASSUME controlMode = "FRONTIER_LED", pc \in Working, Attempt > 1 PROVE Decided("RETRY")
      BY DEF RetryAuthorized, Working
    <3>1. pc \in InLoop /\ ~Escalated /\ Selected /\ DecisionIsActive BY <2>1 DEF InLoop, Control
    <3>2. Rejected BY <2>1, <3>1, RetryIsOfLast DEF Selected
    <3> QED BY <3>1, <3>2 DEF DecisionIsActive
  <2>4. ResultMatchesHistory BY DEF ExecutorInv, ResultFits, ResultMatchesHistory
  <2> QED BY <2>1, <2>2, <2>3, <2>4 DEF HistorySound
<1> QED BY <1>1, ExecutorInvariant, PTL
=============================================================================
