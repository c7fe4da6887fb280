---------------------- MODULE AutonomousDispatcherProofs ----------------------
(***************************************************************************)
(* Safety of the dispatcher for every policy and every listing, proved     *)
(* from one inductive invariant, and the refinement of TaskLedger: each    *)
(* step is one of the ledger's, or leaves it as it is.                     *)
(***************************************************************************)
EXTENDS AutonomousDispatcher, WellFoundedInduction, SequenceTheorems, FiniteSetTheorems, TLAPS

-----------------------------------------------------------------------------
(* The inductive invariant, in layers: each rests on the ones before it. *)

AtClaimed == {"start", "recordStarted"}
AtTask    == {"resume", "fail", "recordFailed", "verify", "recordCompleted", "recordReopened"}
Admission == {"admit", "recordClaim", "startNew", "recordNew"}

\* What the two loops still have to do is what the file says it is, and the
\* loop a location belongs to has a task left.
TodoOK ==
    /\ \A i \in todoClaimed : tasks[i].status = "CLAIMED"
    /\ \A i \in todoRunning : tasks[i].status = "RUNNING"
    /\ pc \in AtClaimed => todoClaimed # {}
    /\ pc \in AtTask => todoClaimed = {} /\ todoRunning # {}
    /\ pc \in Admission \cup {"idle"} => todoClaimed = {} /\ todoRunning = {}

\* A candidate being admitted is the head of the page, and once stored the last task.
PageOK ==
    /\ pc \in Admission \ {"admit"} => page # <<>>
    /\ pc \in {"startNew", "recordNew"} => tasks # <<>> /\ tasks[Len(tasks)].status = "CLAIMED"

Shape == TypeOK /\ TodoOK /\ PageOK

Control == BreakerTrips /\ AdmissionAuthorized

\* Identities are unique because what is about to be stored is not known yet.
Identity == UniqueIdentities /\ (pc = "recordClaim" => ~Known(Head(page)))

\* The task at the head of the second loop.
Current == tasks[First(todoRunning)].cand

\* A renewed lease means that the source has no disposition yet; the one being
\* reported is the current task's first.
SourceOK ==
    /\ \A c \in Candidates : lease[c] = "held" => sourceLog[c] = <<>>
    /\ pc \in {"resume", "fail", "verify"} => sourceLog[Current] = <<>>
    /\ pc \in {"verify", "recordCompleted"} => run[Current] = "merged"
    /\ pc = "recordCompleted" => sourceLog[Current] = <<"complete">>

Source == SourceOK /\ OneDisposition /\ CompletionBacked

\* A task has no run before the runtime was asked to start it.
ClaimedHasNoRun == \A i \in DOMAIN tasks : tasks[i].status = "CLAIMED" => tasks[i].run_id = NoRun

\* A listed page fits into the capacity that is left when it is listed, and
\* every claim of it uses up one place.
CapacityOK ==
    /\ Cardinality(ActiveTasks) <= MaxActive
    /\ pc \in {"admit", "recordClaim"} => Cardinality(ActiveTasks) + Len(page) <= MaxActive
    /\ pc \in {"startNew", "recordNew"} => Cardinality(ActiveTasks) + Len(page) <= MaxActive + 1

IInv == Shape /\ Control /\ Identity /\ Source /\ ClaimedHasNoRun /\ CapacityOK

-----------------------------------------------------------------------------
(* Lemmas on the helpers. *)

\* The first index of a non-empty set of indices is one of its elements.
LEMMA FirstIn ==
    ASSUME NEW S \in SUBSET Nat, S # {}
    PROVE  First(S) \in S
<1> DEFINE R == {ss \in Nat \X Nat : ss[1] < ss[2]}
<1>1. IsWellFoundedOn(R, Nat)
  BY NatLessThanWellFounded DEF OpToRel
<1>2. PICK m \in S : \A y \in S : ~ (<<y, m>> \in R)
  <2> HIDE DEF R
  <2> QED BY <1>1, WFMin
<1>3. ASSUME NEW y \in S PROVE m <= y
  <2> SUFFICES ASSUME ~ (m <= y) PROVE FALSE
    OBVIOUS
  <2>1. y < m /\ y \in Nat /\ m \in Nat
    OBVIOUS
  <2>2. <<y, m>> \in R
    BY <2>1
  <2> QED
    BY <1>2, <2>2
<1> QED
  BY <1>3 DEF First

\* replaceTask changes the status and the run of one entry and nothing else.
LEMMA ReplaceTaskFacts ==
    ASSUME tasks \in Seq(Tasks), NEW i \in DOMAIN tasks,
           NEW s \in Active \cup Terminal, NEW r \in Candidates \cup {NoRun}
    PROVE  LET t == ReplaceTask(i, s, r) IN
           /\ t \in Seq(Tasks)
           /\ Len(t) = Len(tasks) /\ DOMAIN t = DOMAIN tasks
           /\ \A j \in DOMAIN tasks : j # i => t[j] = tasks[j]
           /\ \A j \in DOMAIN tasks : t[j].cand = tasks[j].cand
           /\ t[i].status = s /\ t[i].run_id = r
<1> DEFINE e == [tasks[i] EXCEPT !.status = s, !.run_id = r]
           t == [tasks EXCEPT ![i] = e]
<1>1. DOMAIN tasks = 1..Len(tasks) /\ Len(tasks) \in Nat /\ tasks[i] \in Tasks
  BY LenProperties, ElementOfSeq
<1>2. /\ e \in Tasks /\ e.cand = tasks[i].cand /\ e.status = s /\ e.run_id = r
  BY <1>1 DEF Tasks
<1>3. ReplaceTask(i, s, r) = t
  BY <1>1 DEF ReplaceTask
<1>4. /\ t \in Seq(Tasks) /\ Len(t) = Len(tasks)
      /\ \A j \in 1..Len(tasks) : t[j] = IF j = i THEN e ELSE tasks[j]
  <2> HIDE DEF e
  <2> QED BY <1>1, <1>2, ExceptSeq
<1>5. DOMAIN t = DOMAIN tasks
  OBVIOUS
<1> HIDE DEF e, t
<1> QED
  BY <1>1, <1>2, <1>3, <1>4, <1>5

-----------------------------------------------------------------------------
(* Layer 1: types, loops and pages. *)

\* The elements of the stored sequence and of the loops.
LEMMA ShapeFacts ==
    ASSUME Shape
    PROVE  /\ DOMAIN tasks = 1..Len(tasks) /\ Len(tasks) \in Nat
           /\ \A i \in DOMAIN tasks : tasks[i].cand \in Candidates /\ tasks[i].run_id \in Candidates \cup {NoRun}
           /\ todoClaimed # {} => First(todoClaimed) \in todoClaimed /\ First(todoClaimed) \in DOMAIN tasks
           /\ todoRunning # {} => First(todoRunning) \in todoRunning /\ First(todoRunning) \in DOMAIN tasks
           /\ page # <<>> => Head(page) \in Candidates /\ Tail(page) \in Seq(Candidates)
<1>1. /\ DOMAIN tasks = 1..Len(tasks) /\ Len(tasks) \in Nat
      /\ \A i \in DOMAIN tasks : tasks[i] \in Tasks
  BY LenProperties, ElementOfSeq DEF Shape, TypeOK
<1>2. \A i \in DOMAIN tasks : tasks[i].cand \in Candidates /\ tasks[i].run_id \in Candidates \cup {NoRun}
  BY <1>1 DEF Tasks
<1>3. /\ todoClaimed # {} => First(todoClaimed) \in todoClaimed /\ First(todoClaimed) \in DOMAIN tasks
      /\ todoRunning # {} => First(todoRunning) \in todoRunning /\ First(todoRunning) \in DOMAIN tasks
  <2>1. DOMAIN tasks \subseteq Nat
    BY <1>1
  <2>2. todoClaimed \subseteq DOMAIN tasks /\ todoRunning \subseteq DOMAIN tasks
    BY DEF Shape, TypeOK
  <2> QED
    BY <2>1, <2>2, FirstIn
<1>4. page # <<>> => Head(page) \in Candidates /\ Tail(page) \in Seq(Candidates)
  BY HeadTailProperties DEF Shape, TypeOK
<1> QED
  BY <1>1, <1>2, <1>3, <1>4

\* The initial state has the shape: an empty file and an idle cycle.
LEMMA InitShape == Init => Shape
<1> SUFFICES ASSUME Init PROVE Shape
  OBVIOUS
<1>1. TypeOK
  <2>1. cursor \in 0..(NumCandidates - 1) /\ next_cursor \in 0..(NumCandidates - 1) /\ aborts \in 0..MaxAborts
    BY PolicyAssumption DEF Init
  <2>2. /\ tasks \in Seq(Tasks) /\ page \in Seq(Candidates)
        /\ sourceLog \in [Candidates -> Seq(Mutations)]
    BY DEF Init
  <2> QED
    BY <2>1, <2>2 DEF Init, TypeOK, Modes, Locations
<1>2. TodoOK /\ PageOK
  BY DEF Init, TodoOK, PageOK, AtClaimed, AtTask, Admission
<1> QED
  BY <1>1, <1>2 DEF Shape

\* Every step keeps types, the loop sets and the page well formed.
LEMMA StepShape == Shape /\ [Next]_vars => Shape'
<1> SUFFICES ASSUME Shape, [Next]_vars PROVE Shape'
  OBVIOUS
<1>a. DOMAIN tasks = 1..Len(tasks) /\ Len(tasks) \in Nat
  BY ShapeFacts
<1>b. /\ todoClaimed # {} => First(todoClaimed) \in todoClaimed /\ First(todoClaimed) \in DOMAIN tasks
      /\ todoRunning # {} => First(todoRunning) \in todoRunning /\ First(todoRunning) \in DOMAIN tasks
  BY ShapeFacts
<1>p. page # <<>> => Head(page) \in Candidates /\ Tail(page) \in Seq(Candidates)
  BY ShapeFacts
<1>t. \A i \in DOMAIN tasks : tasks[i].cand \in Candidates /\ tasks[i].run_id \in Candidates \cup {NoRun}
  BY ShapeFacts
<1> USE DEF Shape, Modes, Locations, AtClaimed, AtTask, Admission
<1>1. ASSUME NEW m \in Modes, SetMode(m) PROVE Shape'
  <2>1. TypeOK'
    BY <1>1, <1>b, <1>p, PolicyAssumption DEF SetMode, TypeOK, durable, volatile, outside
  <2>2. TodoOK' /\ PageOK'
    BY <1>1, <1>b DEF SetMode, TypeOK, TodoOK, PageOK, durable, volatile, outside
  <2> QED
    BY <2>1, <2>2
<1>2. CASE ResetCircuit
  <2>1. TypeOK'
    BY <1>2, <1>b, <1>p, PolicyAssumption DEF ResetCircuit, TypeOK, durable, volatile, outside
  <2>2. TodoOK' /\ PageOK'
    BY <1>2, <1>b DEF ResetCircuit, TypeOK, TodoOK, PageOK, durable, volatile, outside
  <2> QED
    BY <2>1, <2>2
<1>3. CASE BeginCycle
  <2>1. TypeOK'
    BY <1>3, <1>b, <1>p, PolicyAssumption DEF BeginCycle, TypeOK, durable, volatile, outside
  <2>2. TodoOK' /\ PageOK'
    BY <1>3, <1>b DEF BeginCycle, TypeOK, TodoOK, PageOK, durable, volatile, outside
  <2> QED
    BY <2>1, <2>2
<1>4. CASE RejectClaimed
  <2>1. TypeOK'
    BY <1>4, <1>b, <1>p, PolicyAssumption DEF RejectClaimed, TypeOK, durable, volatile, outside
  <2>2. TodoOK' /\ PageOK'
    BY <1>4, <1>b DEF RejectClaimed, TypeOK, TodoOK, PageOK, durable, volatile, outside
  <2> QED
    BY <2>1, <2>2
<1>5. CASE RenewClaimed
  <2>1. TypeOK'
    BY <1>5, <1>b, <1>p, PolicyAssumption DEF RenewClaimed, TypeOK, durable, volatile, outside
  <2>2. TodoOK' /\ PageOK'
    BY <1>5, <1>b DEF RenewClaimed, TypeOK, TodoOK, PageOK, durable, volatile, outside
  <2> QED
    BY <2>1, <2>2
<1>6. CASE LoseClaimed
  <2> DEFINE i == First(todoClaimed)
  <2>1. i \in DOMAIN tasks /\ tasks' = ReplaceTask(i, "FAILED", tasks[i].run_id)
    BY <1>6, <1>b DEF LoseClaimed, TodoOK
  <2>2. /\ tasks' \in Seq(Tasks) /\ DOMAIN tasks' = DOMAIN tasks
        /\ \A j \in DOMAIN tasks : j # i => tasks'[j] = tasks[j]
    BY <2>1, <1>t, ReplaceTaskFacts DEF TypeOK, Active, Terminal
  <2> HIDE DEF i
  <2>3. TypeOK'
    BY <1>6, <2>2 DEF LoseClaimed, TypeOK, outside, CountFailure
  <2>4. TodoOK' /\ PageOK'
    BY <1>6, <1>b, <2>1, <2>2 DEF LoseClaimed, i, TypeOK, TodoOK, PageOK
  <2> QED
    BY <2>3, <2>4
<1>7. CASE SubmitClaimed
  <2>1. TypeOK'
    BY <1>7, <1>b, <1>t DEF SubmitClaimed, TypeOK, TodoOK, durable, StartRun
  <2>2. TodoOK' /\ PageOK'
    BY <1>7 DEF SubmitClaimed, TodoOK, PageOK, durable
  <2> QED
    BY <2>1, <2>2
<1>8. CASE RecordStarted
  <2> DEFINE i == First(todoClaimed)
  <2>1. i \in DOMAIN tasks /\ tasks' = ReplaceTask(i, "RUNNING", tasks[i].cand)
    BY <1>8, <1>b DEF RecordStarted, TodoOK
  <2>2. /\ tasks' \in Seq(Tasks) /\ DOMAIN tasks' = DOMAIN tasks
        /\ \A j \in DOMAIN tasks : j # i => tasks'[j] = tasks[j]
    BY <2>1, <1>t, ReplaceTaskFacts DEF TypeOK, Active, Terminal
  <2> HIDE DEF i
  <2>3. TypeOK'
    BY <1>8, <2>2 DEF RecordStarted, TypeOK, outside
  <2>4. TodoOK' /\ PageOK'
    BY <1>8, <1>b, <2>1, <2>2 DEF RecordStarted, i, TypeOK, TodoOK, PageOK
  <2> QED
    BY <2>3, <2>4
<1>9. CASE RenewRunning
  <2>1. TypeOK'
    BY <1>9, <1>b, <1>p, PolicyAssumption DEF RenewRunning, TypeOK, durable, volatile, outside, AtRunning
  <2>2. TodoOK' /\ PageOK'
    BY <1>9, <1>b DEF RenewRunning, TypeOK, TodoOK, PageOK, durable, volatile, outside, AtRunning
  <2> QED
    BY <2>1, <2>2
<1>10. CASE LoseRunning
  <2> DEFINE i == First(todoRunning)
  <2>1. i \in DOMAIN tasks /\ tasks' = ReplaceTask(i, "FAILED", tasks[i].run_id)
    BY <1>10, <1>b DEF LoseRunning, TodoOK, AtRunning
  <2>2. /\ tasks' \in Seq(Tasks) /\ DOMAIN tasks' = DOMAIN tasks
        /\ \A j \in DOMAIN tasks : j # i => tasks'[j] = tasks[j]
    BY <2>1, <1>t, ReplaceTaskFacts DEF TypeOK, Active, Terminal
  <2> HIDE DEF i
  <2>3. TypeOK'
    BY <1>10, <2>2 DEF LoseRunning, TypeOK, outside, AtRunning, CountFailure
  <2>4. TodoOK' /\ PageOK'
    BY <1>10, <1>b, <2>1, <2>2 DEF LoseRunning, i, TypeOK, TodoOK, PageOK, AtRunning
  <2> QED
    BY <2>3, <2>4
<1>11. CASE ResumeRun
  <2>1. TypeOK'
    BY <1>11, <1>b, <1>p, PolicyAssumption DEF ResumeRun, TypeOK, durable, volatile, outside
  <2>2. TodoOK' /\ PageOK'
    BY <1>11, <1>b DEF ResumeRun, TypeOK, TodoOK, PageOK, durable, volatile, outside
  <2> QED
    BY <2>1, <2>2
<1>12. CASE ReportFailure
  <2>0. tasks[First(todoRunning)].cand \in Candidates
    BY <1>12, <1>b, <1>t DEF ReportFailure, TodoOK
  <2>1. sourceLog' \in [Candidates -> Seq(Mutations)] /\ lease' \in [Candidates -> {"free", "held"}]
    BY <1>12, <2>0, AppendProperties DEF ReportFailure, TypeOK, MutateSource, Mutations
  <2>2. TypeOK'
    BY <1>12, <2>1 DEF ReportFailure, TypeOK, MutateSource, durable
  <2>3. TodoOK' /\ PageOK'
    BY <1>12 DEF ReportFailure, TodoOK, PageOK, durable
  <2> QED
    BY <2>2, <2>3
<1>13. CASE VerifyPasses
  <2>0. tasks[First(todoRunning)].cand \in Candidates
    BY <1>13, <1>b, <1>t DEF VerifyPasses, TodoOK
  <2>1. sourceLog' \in [Candidates -> Seq(Mutations)] /\ lease' \in [Candidates -> {"free", "held"}]
    BY <1>13, <2>0, AppendProperties DEF VerifyPasses, TypeOK, MutateSource, Mutations
  <2>2. TypeOK'
    BY <1>13, <2>1 DEF VerifyPasses, TypeOK, MutateSource, durable
  <2>3. TodoOK' /\ PageOK'
    BY <1>13 DEF VerifyPasses, TodoOK, PageOK, durable
  <2> QED
    BY <2>2, <2>3
<1>14. CASE VerifyFails
  <2>0. tasks[First(todoRunning)].cand \in Candidates
    BY <1>14, <1>b, <1>t DEF VerifyFails, TodoOK
  <2>1. sourceLog' \in [Candidates -> Seq(Mutations)] /\ lease' \in [Candidates -> {"free", "held"}]
    BY <1>14, <2>0, AppendProperties DEF VerifyFails, TypeOK, MutateSource, Mutations
  <2>2. TypeOK'
    BY <1>14, <2>1 DEF VerifyFails, TypeOK, MutateSource, durable
  <2>3. TodoOK' /\ PageOK'
    BY <1>14 DEF VerifyFails, TodoOK, PageOK, durable
  <2> QED
    BY <2>2, <2>3
<1>15. CASE RecordFailed
  <2> DEFINE i == First(todoRunning)
  <2>1. i \in DOMAIN tasks /\ tasks' = ReplaceTask(i, "FAILED", tasks[i].run_id)
    BY <1>15, <1>b DEF RecordFailed, TodoOK, RecordOutcome
  <2>2. /\ tasks' \in Seq(Tasks) /\ DOMAIN tasks' = DOMAIN tasks
        /\ \A j \in DOMAIN tasks : j # i => tasks'[j] = tasks[j]
    BY <2>1, <1>t, ReplaceTaskFacts DEF TypeOK, Active, Terminal
  <2> HIDE DEF i
  <2>3. TypeOK'
    BY <1>15, <2>2 DEF RecordFailed, TypeOK, outside, RecordOutcome, CountFailure
  <2>4. TodoOK' /\ PageOK'
    BY <1>15, <1>b, <2>1, <2>2 DEF RecordFailed, i, TypeOK, TodoOK, PageOK, RecordOutcome
  <2> QED
    BY <2>3, <2>4
<1>16. CASE RecordCompleted
  <2> DEFINE i == First(todoRunning)
  <2>1. i \in DOMAIN tasks /\ tasks' = ReplaceTask(i, "COMPLETED", tasks[i].run_id)
    BY <1>16, <1>b DEF RecordCompleted, TodoOK, RecordOutcome
  <2>2. /\ tasks' \in Seq(Tasks) /\ DOMAIN tasks' = DOMAIN tasks
        /\ \A j \in DOMAIN tasks : j # i => tasks'[j] = tasks[j]
    BY <2>1, <1>t, ReplaceTaskFacts DEF TypeOK, Active, Terminal
  <2> HIDE DEF i
  <2>3. TypeOK'
    BY <1>16, <2>2 DEF RecordCompleted, TypeOK, outside, RecordOutcome
  <2>4. TodoOK' /\ PageOK'
    BY <1>16, <1>b, <2>1, <2>2 DEF RecordCompleted, i, TypeOK, TodoOK, PageOK, RecordOutcome
  <2> QED
    BY <2>3, <2>4
<1>17. CASE RecordReopened
  <2> DEFINE i == First(todoRunning)
  <2>1. i \in DOMAIN tasks /\ tasks' = ReplaceTask(i, "REOPENED", tasks[i].run_id)
    BY <1>17, <1>b DEF RecordReopened, TodoOK, RecordOutcome
  <2>2. /\ tasks' \in Seq(Tasks) /\ DOMAIN tasks' = DOMAIN tasks
        /\ \A j \in DOMAIN tasks : j # i => tasks'[j] = tasks[j]
    BY <2>1, <1>t, ReplaceTaskFacts DEF TypeOK, Active, Terminal
  <2> HIDE DEF i
  <2>3. TypeOK'
    BY <1>17, <2>2 DEF RecordReopened, TypeOK, outside, RecordOutcome, CountFailure
  <2>4. TodoOK' /\ PageOK'
    BY <1>17, <1>b, <2>1, <2>2 DEF RecordReopened, i, TypeOK, TodoOK, PageOK, RecordOutcome
  <2> QED
    BY <2>3, <2>4
<1>18. CASE EndCycleFull
  <2>1. TypeOK'
    BY <1>18, <1>b, <1>p, PolicyAssumption DEF EndCycleFull, TypeOK, durable, volatile, outside, AtListing
  <2>2. TodoOK' /\ PageOK'
    BY <1>18, <1>b DEF EndCycleFull, TypeOK, TodoOK, PageOK, durable, volatile, outside, AtListing
  <2> QED
    BY <2>1, <2>2
<1>19. CASE ListCandidates
  <2> DEFINE last == Min2(cursor + Capacity, NumCandidates)
  <2>1. Capacity \in Int /\ Capacity > 0
    <3>1. Cardinality(ActiveTasks) \in Nat
      <4>1. IsFiniteSet(DOMAIN tasks) /\ ActiveTasks \subseteq DOMAIN tasks
        BY <1>a, FS_Interval DEF ActiveTasks
      <4> QED
        BY <4>1, FS_Subset, FS_CardinalityType
    <3> QED
      BY <1>19, <3>1, PolicyAssumption DEF ListCandidates, Capacity, Min2
  <2>2. last \in cursor..NumCandidates /\ cursor \in 0..(NumCandidates - 1)
    BY <2>1, PolicyAssumption DEF TypeOK, Min2
  <2>3. /\ page' = [k \in 1..(last - cursor) |-> cursor + k]
        /\ next_cursor' = IF last = NumCandidates THEN 0 ELSE last
    BY <1>19 DEF ListCandidates
  <2> HIDE DEF last
  <2>4. page' \in Seq(Candidates)
    BY <2>2, <2>3, PolicyAssumption DEF Candidates
  <2>5. next_cursor' \in 0..(NumCandidates - 1)
    BY <2>2, <2>3, PolicyAssumption
  <2>6. TypeOK'
    BY <1>19, <2>4, <2>5 DEF ListCandidates, AtListing, TypeOK, durable, outside
  <2>7. TodoOK' /\ PageOK'
    BY <1>19 DEF ListCandidates, AtListing, TodoOK, PageOK, durable
  <2> QED
    BY <2>6, <2>7
<1>20. CASE RejectListed
  <2>1. TypeOK'
    BY <1>20, <1>b, <1>p, PolicyAssumption DEF RejectListed, TypeOK, durable, volatile, outside
  <2>2. TodoOK' /\ PageOK'
    BY <1>20, <1>b DEF RejectListed, TypeOK, TodoOK, PageOK, durable, volatile, outside
  <2> QED
    BY <2>1, <2>2
<1>21. CASE SkipListed
  <2>1. TypeOK'
    BY <1>21, <1>b, <1>p, PolicyAssumption DEF SkipListed, TypeOK, durable, volatile, outside
  <2>2. TodoOK' /\ PageOK'
    BY <1>21, <1>b DEF SkipListed, TypeOK, TodoOK, PageOK, durable, volatile, outside
  <2> QED
    BY <2>1, <2>2
<1>22. CASE ClaimListed
  <2>1. TypeOK'
    BY <1>22, <1>b, <1>p, PolicyAssumption DEF ClaimListed, TypeOK, durable, volatile, outside
  <2>2. TodoOK' /\ PageOK'
    BY <1>22, <1>b DEF ClaimListed, TypeOK, TodoOK, PageOK, durable, volatile, outside
  <2> QED
    BY <2>1, <2>2
<1>23. CASE RecordClaim
  <2> DEFINE e == [cand |-> Head(page), status |-> "CLAIMED", run_id |-> NoRun]
  <2>1. e \in Tasks /\ e.status = "CLAIMED"
    BY <1>23, <1>p DEF RecordClaim, PageOK, Tasks, Active
  <2>2. tasks' = Append(tasks, e)
    BY <1>23 DEF RecordClaim
  <2> HIDE DEF e
  <2>a. tasks \in Seq(Tasks)
    BY DEF TypeOK
  <2>b. e \in Tasks
    BY <2>1
  <2>3. /\ tasks' \in Seq(Tasks) /\ tasks' # <<>> /\ Len(tasks') = Len(tasks) + 1
        /\ tasks'[Len(tasks')] = e
    <3> HIDE DEF Tasks
    <3>1. /\ Append(tasks, e) \in Seq(Tasks) /\ Append(tasks, e) # <<>>
          /\ Len(Append(tasks, e)) = Len(tasks) + 1 /\ Append(tasks, e)[Len(tasks) + 1] = e
      BY <2>a, <2>b, AppendProperties
    <3> QED
      BY <2>2, <3>1, Zenon
  <2>4. DOMAIN tasks' = 1..Len(tasks')
    BY <2>3, LenProperties
  <2>5. TypeOK'
    BY <1>23, <1>a, <2>3, <2>4 DEF RecordClaim, TypeOK, outside
  <2>6. TodoOK' /\ PageOK'
    BY <1>23, <2>1, <2>3 DEF RecordClaim, TypeOK, TodoOK, PageOK
  <2> QED
    BY <2>5, <2>6
<1>24. CASE SubmitNew
  <2>1. TypeOK'
    BY <1>24, <1>p DEF SubmitNew, TypeOK, PageOK, durable, StartRun
  <2>2. TodoOK' /\ PageOK'
    BY <1>24 DEF SubmitNew, TodoOK, PageOK, durable
  <2> QED
    BY <2>1, <2>2
<1>25. CASE RecordNew
  <2>1. /\ Len(tasks) \in DOMAIN tasks
        /\ Head(page) \in Candidates \cup {NoRun} /\ Tail(page) \in Seq(Candidates)
    <3>1. tasks # <<>> /\ page # <<>>
      BY <1>25 DEF RecordNew, PageOK
    <3> QED
      BY <3>1, <1>a, <1>p, EmptySeq DEF TypeOK
  <2>2. tasks' \in Seq(Tasks) /\ DOMAIN tasks' = DOMAIN tasks
    BY <1>25, <2>1, ReplaceTaskFacts DEF RecordNew, TypeOK, Active
  <2>3. TypeOK'
    BY <1>25, <2>1, <2>2 DEF RecordNew, TypeOK, outside
  <2>4. TodoOK' /\ PageOK'
    BY <1>25 DEF RecordNew, TodoOK, PageOK
  <2> QED
    BY <2>3, <2>4
<1>26. CASE AdvanceCursor
  <2>1. TypeOK'
    BY <1>26, <1>b, <1>p, PolicyAssumption DEF AdvanceCursor, TypeOK, durable, volatile, outside
  <2>2. TodoOK' /\ PageOK'
    BY <1>26, <1>b DEF AdvanceCursor, TypeOK, TodoOK, PageOK, durable, volatile, outside
  <2> QED
    BY <2>1, <2>2
<1>27. CASE AbortCycle
  <2>1. TypeOK'
    BY <1>27, <1>b, <1>p, PolicyAssumption DEF AbortCycle, TypeOK, durable, volatile, outside
  <2>2. TodoOK' /\ PageOK'
    BY <1>27, <1>b DEF AbortCycle, TypeOK, TodoOK, PageOK, durable, volatile, outside
  <2> QED
    BY <2>1, <2>2
<1>28. ASSUME NEW c \in Candidates, LeaseLapses(c) PROVE Shape'
  <2>1. TypeOK'
    BY <1>28, <1>b, <1>p, PolicyAssumption DEF LeaseLapses, TypeOK, durable, volatile, outside
  <2>2. TodoOK' /\ PageOK'
    BY <1>28, <1>b DEF LeaseLapses, TypeOK, TodoOK, PageOK, durable, volatile, outside
  <2> QED
    BY <2>1, <2>2
<1>29. ASSUME NEW c \in Candidates, CandidateWithdrawn(c) PROVE Shape'
  <2>1. TypeOK'
    BY <1>29, <1>b, <1>p, PolicyAssumption DEF CandidateWithdrawn, TypeOK, durable, volatile, outside
  <2>2. TodoOK' /\ PageOK'
    BY <1>29, <1>b DEF CandidateWithdrawn, TypeOK, TodoOK, PageOK, durable, volatile, outside
  <2> QED
    BY <2>1, <2>2
<1>30. ASSUME NEW c \in Candidates, RunEnds(c) PROVE Shape'
  <2>1. PICK r \in RunOutcomes : run' = [run EXCEPT ![c] = r]
    BY <1>30 DEF RunEnds
  <2>2. TypeOK'
    BY <1>30, <2>1, PolicyAssumption DEF RunEnds, TypeOK, durable, volatile
  <2>3. TodoOK' /\ PageOK'
    BY <1>30 DEF RunEnds, TodoOK, PageOK, durable, volatile
  <2> QED
    BY <2>2, <2>3
<1>31. CASE UNCHANGED vars
  BY <1>31 DEF vars, TypeOK, TodoOK, PageOK
<1> QED
  BY <1>1, <1>2, <1>3, <1>4, <1>5, <1>6, <1>7, <1>8, <1>9, <1>10, <1>11, <1>12, <1>13, <1>14, <1>15, <1>16, <1>17, <1>18, <1>19, <1>20, <1>21, <1>22, <1>23, <1>24, <1>25, <1>26, <1>27, <1>28, <1>29, <1>30, <1>31 DEF Next, CycleStep, Environment

-----------------------------------------------------------------------------
(* Layer 2: the breaker and the admission of a page. *)

\* No step opens admission under an open breaker or leaves RUNNING mode inside a page.
LEMMA StepControl == Shape /\ Control /\ [Next]_vars => Control'
<1> SUFFICES ASSUME Shape, Control, [Next]_vars PROVE Control'
  OBVIOUS
<1>0. consecutive_failures \in Nat /\ circuit_open \in BOOLEAN
  BY DEF Shape, TypeOK
<1> USE DEF Control, BreakerTrips, AdmissionAuthorized
<1>1. ASSUME NEW m \in Modes, SetMode(m) PROVE Control'
  BY <1>1 DEF SetMode, volatile
<1>2. CASE ResetCircuit
  BY <1>2, PolicyAssumption DEF ResetCircuit, volatile
<1>3. CASE LoseClaimed \/ LoseRunning \/ RecordFailed \/ RecordReopened
  <2>1. CountFailure /\ (pc' = "loop")
    BY <1>3 DEF LoseClaimed, LoseRunning, RecordFailed, RecordReopened, RecordOutcome, AtRunning
  <2> QED
    BY <2>1, <1>0, PolicyAssumption DEF CountFailure
<1>4. CASE RecordCompleted
  BY <1>4, PolicyAssumption DEF RecordCompleted, RecordOutcome
<1>5. CASE ListCandidates
  <2>1. mode = "RUNNING" /\ ~circuit_open
    BY <1>5 DEF ListCandidates, Capacity
  <2> QED
    BY <1>5, <2>1 DEF ListCandidates, durable
<1>6. CASE BeginCycle \/ RejectClaimed \/ RenewClaimed \/ SubmitClaimed \/ RecordStarted
           \/ RenewRunning \/ ResumeRun \/ ReportFailure \/ VerifyPasses \/ VerifyFails
           \/ EndCycleFull \/ RejectListed \/ AdvanceCursor \/ AbortCycle
  <2>1. /\ UNCHANGED <<mode, circuit_open, consecutive_failures>>
        /\ pc' \notin {"admit", "recordClaim", "startNew", "recordNew"}
    BY <1>6 DEF BeginCycle, RejectClaimed, RenewClaimed, SubmitClaimed, RecordStarted,
       RenewRunning, ResumeRun, ReportFailure, VerifyPasses, VerifyFails, EndCycleFull,
       RejectListed, AdvanceCursor, AbortCycle, durable
  <2> QED
    BY <2>1
<1>7. CASE SkipListed \/ ClaimListed \/ RecordClaim \/ SubmitNew \/ RecordNew
  BY <1>7 DEF SkipListed, ClaimListed, RecordClaim, SubmitNew, RecordNew, durable
<1>8. CASE Environment \/ UNCHANGED vars
  BY <1>8 DEF Environment, LeaseLapses, CandidateWithdrawn, RunEnds, durable, volatile, vars
<1> QED
  BY <1>1, <1>2, <1>3, <1>4, <1>5, <1>6, <1>7, <1>8 DEF Next, CycleStep

-----------------------------------------------------------------------------
(* Layer 3: the entries of the state file. *)

\* Everything a step can do to the stored tasks.
TasksKept == tasks' = tasks

TaskReplaced ==
    \E i \in DOMAIN tasks, s \in Active \cup Terminal, r \in Candidates \cup {NoRun} :
        /\ tasks' = ReplaceTask(i, s, r)
        /\ tasks[i].status \notin Terminal /\ s # "CLAIMED"
        /\ tasks[i].status = "CLAIMED" \/ r = tasks[i].run_id
        /\ s = "COMPLETED" => pc = "recordCompleted" /\ i = First(todoRunning)

TaskAdded ==
    /\ pc = "recordClaim" /\ page # <<>>
    /\ tasks' = Append(tasks, [cand |-> Head(page), status |-> "CLAIMED", run_id |-> NoRun])

\* The footprint of a step on the stored tasks: nothing, one entry replaced, or one added.
LEMMA StepTasks ==
    ASSUME Shape, [Next]_vars
    PROVE  TasksKept \/ TaskReplaced \/ TaskAdded
<1>a. /\ DOMAIN tasks = 1..Len(tasks) /\ Len(tasks) \in Nat
      /\ \A i \in DOMAIN tasks : tasks[i].cand \in Candidates /\ tasks[i].run_id \in Candidates \cup {NoRun}
  BY ShapeFacts
<1>b. /\ todoClaimed # {} => First(todoClaimed) \in todoClaimed /\ First(todoClaimed) \in DOMAIN tasks
      /\ todoRunning # {} => First(todoRunning) \in todoRunning /\ First(todoRunning) \in DOMAIN tasks
  BY ShapeFacts
<1>1. CASE LoseClaimed \/ RecordStarted
  <2> DEFINE i == First(todoClaimed)
  <2>1. todoClaimed # {}
    BY <1>1 DEF LoseClaimed, RecordStarted, Shape, TodoOK, AtClaimed
  <2>2. i \in DOMAIN tasks /\ tasks[i].status = "CLAIMED"
    BY <2>1, <1>b DEF Shape, TodoOK
  <2>3. \/ tasks' = ReplaceTask(i, "FAILED", tasks[i].run_id)
        \/ tasks' = ReplaceTask(i, "RUNNING", tasks[i].cand)
    BY <1>1 DEF LoseClaimed, RecordStarted
  <2> HIDE DEF i
  <2> QED
    BY <2>2, <2>3, <1>a DEF TaskReplaced, Active, Terminal
<1>2. CASE LoseRunning \/ RecordFailed \/ RecordCompleted \/ RecordReopened
  <2> DEFINE i == First(todoRunning)
  <2>1. todoRunning # {}
    BY <1>2 DEF LoseRunning, AtRunning, RecordFailed, RecordCompleted, RecordReopened,
       RecordOutcome, Shape, TodoOK, AtTask
  <2>2. i \in DOMAIN tasks /\ tasks[i].status = "RUNNING"
    BY <2>1, <1>b DEF Shape, TodoOK
  <2>3. \/ tasks' = ReplaceTask(i, "FAILED", tasks[i].run_id)
        \/ tasks' = ReplaceTask(i, "REOPENED", tasks[i].run_id)
        \/ tasks' = ReplaceTask(i, "COMPLETED", tasks[i].run_id) /\ pc = "recordCompleted"
    BY <1>2 DEF LoseRunning, RecordFailed, RecordCompleted, RecordReopened, RecordOutcome
  <2>4. i = First(todoRunning)
    OBVIOUS
  <2> HIDE DEF i
  <2> QED
    BY <2>2, <2>3, <2>4, <1>a DEF TaskReplaced, Active, Terminal
<1>3. CASE RecordNew
  <2> DEFINE i == Len(tasks)
  <2>1. tasks # <<>> /\ page # <<>> /\ tasks[i].status = "CLAIMED"
    BY <1>3 DEF RecordNew, Shape, PageOK, Admission
  <2>2. i \in DOMAIN tasks /\ Head(page) \in Candidates
    BY <2>1, <1>a, EmptySeq, HeadTailProperties DEF Shape, TypeOK
  <2>3. tasks' = ReplaceTask(i, "RUNNING", Head(page))
    BY <1>3 DEF RecordNew
  <2> HIDE DEF i
  <2> QED
    BY <2>1, <2>2, <2>3 DEF TaskReplaced, Active, Terminal
<1>4. CASE RecordClaim
  BY <1>4 DEF RecordClaim, TaskAdded, Shape, PageOK, Admission
<1>5. CASE BeginCycle \/ RejectClaimed \/ RenewClaimed \/ SubmitClaimed
           \/ RenewRunning \/ ResumeRun \/ ReportFailure \/ VerifyPasses \/ VerifyFails
           \/ EndCycleFull \/ ListCandidates \/ RejectListed \/ SkipListed \/ ClaimListed
           \/ SubmitNew \/ AdvanceCursor \/ AbortCycle
  BY <1>5 DEF TasksKept, BeginCycle, RejectClaimed, RenewClaimed, SubmitClaimed, RenewRunning,
     ResumeRun, ReportFailure, VerifyPasses, VerifyFails, EndCycleFull, ListCandidates,
     RejectListed, SkipListed, ClaimListed, SubmitNew, AdvanceCursor, AbortCycle, durable
<1>6. CASE (\E m \in Modes : SetMode(m)) \/ ResetCircuit \/ Environment \/ UNCHANGED vars
  BY <1>6 DEF TasksKept, SetMode, ResetCircuit, Environment, LeaseLapses, CandidateWithdrawn,
     RunEnds, durable, vars
<1> QED
  BY <1>1, <1>2, <1>3, <1>4, <1>5, <1>6 DEF Next, CycleStep

\* A replaced entry keeps its identity, its siblings keep everything.
LEMMA ReplacedEntries ==
    ASSUME Shape, TaskReplaced
    PROVE  \E i \in DOMAIN tasks :
           /\ DOMAIN tasks' = DOMAIN tasks
           /\ \A j \in DOMAIN tasks : tasks'[j].cand = tasks[j].cand
           /\ \A j \in DOMAIN tasks : j # i => tasks'[j] = tasks[j]
           /\ tasks[i].status \notin Terminal /\ tasks'[i].status # "CLAIMED"
           /\ tasks[i].status = "CLAIMED" \/ tasks'[i].run_id = tasks[i].run_id
           /\ tasks'[i].status = "COMPLETED" => pc = "recordCompleted" /\ i = First(todoRunning)
<1>1. PICK i \in DOMAIN tasks, s \in Active \cup Terminal, r \in Candidates \cup {NoRun} :
        /\ tasks' = ReplaceTask(i, s, r)
        /\ tasks[i].status \notin Terminal /\ s # "CLAIMED"
        /\ tasks[i].status = "CLAIMED" \/ r = tasks[i].run_id
        /\ s = "COMPLETED" => pc = "recordCompleted" /\ i = First(todoRunning)
  BY DEF TaskReplaced
<1>2. /\ DOMAIN tasks' = DOMAIN tasks
      /\ \A j \in DOMAIN tasks : tasks'[j].cand = tasks[j].cand
      /\ \A j \in DOMAIN tasks : j # i => tasks'[j] = tasks[j]
      /\ tasks'[i].status = s /\ tasks'[i].run_id = r
  BY <1>1, ReplaceTaskFacts DEF Shape, TypeOK
<1> QED
  BY <1>1, <1>2

\* An added entry is the last one.
LEMMA AddedEntry ==
    ASSUME Shape, TaskAdded
    PROVE  /\ DOMAIN tasks = 1..Len(tasks) /\ Len(tasks) \in Nat
           /\ DOMAIN tasks' = 1..(Len(tasks) + 1)
           /\ \A j \in DOMAIN tasks : tasks'[j] = tasks[j]
           /\ tasks'[Len(tasks) + 1] = [cand |-> Head(page), status |-> "CLAIMED", run_id |-> NoRun]
<1> DEFINE e == [cand |-> Head(page), status |-> "CLAIMED", run_id |-> NoRun]
<1>1. e \in Tasks
  BY HeadTailProperties DEF TaskAdded, Shape, TypeOK, Tasks, Active
<1>2. tasks \in Seq(Tasks) /\ tasks' = Append(tasks, e)
  BY DEF TaskAdded, Shape, TypeOK
<1> HIDE DEF e
<1>3. /\ tasks' \in Seq(Tasks) /\ Len(tasks') = Len(tasks) + 1
      /\ \A i \in 1..Len(tasks) : tasks'[i] = tasks[i]
      /\ tasks'[Len(tasks) + 1] = e
  BY <1>1, <1>2, AppendProperties
<1>4. DOMAIN tasks = 1..Len(tasks) /\ Len(tasks) \in Nat /\ DOMAIN tasks' = 1..Len(tasks')
  BY <1>2, <1>3, LenProperties
<1> QED
  BY <1>3, <1>4 DEF e

\* No step stores a second task of one candidate revision.
LEMMA StepIdentity == Shape /\ Identity /\ [Next]_vars => Identity'
<1> SUFFICES ASSUME Shape, Identity, [Next]_vars PROVE Identity'
  OBVIOUS
<1>1. UniqueIdentities'
  <2>1. CASE TasksKept
    BY <2>1 DEF TasksKept, Identity, UniqueIdentities
  <2>2. CASE TaskReplaced
    <3>1. DOMAIN tasks' = DOMAIN tasks /\ \A j \in DOMAIN tasks : tasks'[j].cand = tasks[j].cand
      BY <2>2, ReplacedEntries
    <3> QED
      BY <3>1 DEF Identity, UniqueIdentities
  <2>3. CASE TaskAdded
    <3>1. \A j \in DOMAIN tasks : tasks[j].cand # Head(page)
      BY <2>3 DEF TaskAdded, Identity, Known
    <3>2. /\ tasks'[Len(tasks) + 1].cand = Head(page)
          /\ \A j \in DOMAIN tasks : tasks'[j].cand = tasks[j].cand
      BY <2>3, AddedEntry
    <3>3. /\ DOMAIN tasks = 1..Len(tasks) /\ Len(tasks) \in Nat
          /\ DOMAIN tasks' = 1..(Len(tasks) + 1)
      BY <2>3, AddedEntry
    <3>4. \A j \in DOMAIN tasks' : j \in DOMAIN tasks \/ j = Len(tasks) + 1
      BY <3>3
    <3> QED
      BY <3>1, <3>2, <3>4 DEF Identity, UniqueIdentities
  <2> QED
    BY <2>1, <2>2, <2>3, StepTasks
<1>2. (pc = "recordClaim" => ~Known(Head(page)))'
  <2>1. CASE ClaimListed
    BY <2>1 DEF ClaimListed, Known, durable
  <2>2. CASE Environment \/ UNCHANGED vars \/ ResetCircuit \/ \E m \in Modes : SetMode(m)
    BY <2>2 DEF Environment, LeaseLapses, CandidateWithdrawn, RunEnds, SetMode, ResetCircuit,
       durable, volatile, vars, Identity, Known
  <2>3. CASE ~ClaimListed /\ (CycleStep \/ AbortCycle)
    <3>1. pc' # "recordClaim"
      BY <2>3 DEF CycleStep, BeginCycle, RejectClaimed, RenewClaimed, LoseClaimed, SubmitClaimed,
         RecordStarted, RenewRunning, LoseRunning, AtRunning, ResumeRun, ReportFailure, VerifyPasses,
         VerifyFails, RecordFailed, RecordCompleted, RecordReopened, RecordOutcome, EndCycleFull,
         ListCandidates, RejectListed, SkipListed, RecordClaim, SubmitNew, RecordNew,
         AdvanceCursor, AbortCycle
    <3> QED
      BY <3>1
  <2> QED
    BY <2>1, <2>2, <2>3 DEF Next, CycleStep
<1> QED
  BY <1>1, <1>2 DEF Identity

\* A CLAIMED entry never has a run.
LEMMA StepNoRun == Shape /\ ClaimedHasNoRun /\ [Next]_vars => ClaimedHasNoRun'
<1> SUFFICES ASSUME Shape, ClaimedHasNoRun, [Next]_vars PROVE ClaimedHasNoRun'
  OBVIOUS
<1>1. CASE TasksKept
  BY <1>1 DEF TasksKept, ClaimedHasNoRun
<1>2. CASE TaskReplaced
  BY <1>2, ReplacedEntries DEF ClaimedHasNoRun
<1>3. CASE TaskAdded
  <2>1. /\ tasks'[Len(tasks) + 1].run_id = NoRun
        /\ \A j \in DOMAIN tasks : tasks'[j] = tasks[j]
    BY <1>3, AddedEntry
  <2>2. \A j \in DOMAIN tasks' : j \in DOMAIN tasks \/ j = Len(tasks) + 1
    BY <1>3, AddedEntry
  <2> QED
    BY <2>1, <2>2 DEF ClaimedHasNoRun
<1> QED
  BY <1>1, <1>2, <1>3, StepTasks

-----------------------------------------------------------------------------
(* Layer 4: what the source is told. *)

\* Locations at which the current task's lease, run or disposition is relied on.
Reporting == {"resume", "fail", "verify", "recordCompleted"}

\* No step changes a finished run.
LEMMA FinishedRuns ==
    ASSUME Shape, [Next]_vars, NEW c \in Candidates, run[c] = "merged"
    PROVE  run'[c] = "merged"
<1>1. CASE SubmitClaimed \/ SubmitNew
  <2>1. PICK d \in Candidates : StartRun(d)
    BY <1>1, ShapeFacts DEF SubmitClaimed, SubmitNew, Shape, TodoOK, PageOK, AtClaimed, Admission
  <2> QED
    BY <2>1 DEF StartRun, Shape, TypeOK
<1>2. CASE Environment
  BY <1>2 DEF Environment, LeaseLapses, CandidateWithdrawn, RunEnds, Shape, TypeOK
<1>3. CASE ~SubmitClaimed /\ ~SubmitNew /\ ~Environment
  <2>1. run' = run
    BY <1>3 DEF Next, CycleStep, BeginCycle, RejectClaimed, RenewClaimed, LoseClaimed,
       RecordStarted, RenewRunning, LoseRunning, ResumeRun, ReportFailure, VerifyPasses,
       VerifyFails, MutateSource, RecordFailed, RecordCompleted, RecordReopened, RecordOutcome,
       EndCycleFull, ListCandidates, RejectListed, SkipListed, ClaimListed, RecordClaim,
       RecordNew, AdvanceCursor, AbortCycle, SetMode, ResetCircuit, outside, vars
  <2> QED
    BY <2>1
<1> QED
  BY <1>1, <1>2, <1>3

\* A report adds the first disposition of the current task and drops its lease.
LEMMA Report ==
    ASSUME Shape, SourceOK, NEW m \in Mutations, MutateSource(Current, m),
           pc \in {"fail", "verify"}
    PROVE  /\ Current \in Candidates
           /\ sourceLog'[Current] = <<m>> /\ lease'[Current] = "free"
           /\ \A c \in Candidates : c # Current => sourceLog'[c] = sourceLog[c] /\ lease'[c] = lease[c]
<1>1. Current \in Candidates
  BY ShapeFacts DEF Current, Shape, TodoOK, AtTask
<1>2. sourceLog[Current] = <<>>
  BY DEF SourceOK
<1>3. Append(<<>>, m) = <<m>>
  OBVIOUS
<1> HIDE DEF Current
<1> QED
  BY <1>1, <1>2, <1>3 DEF MutateSource, Shape, TypeOK

\* Every step keeps the relation between stored tasks, leases, runs and the source log.
LEMMA StepSource == Shape /\ Source /\ [Next]_vars => Source'
<1> SUFFICES ASSUME Shape, Source, [Next]_vars PROVE Source'
  OBVIOUS
<1>0. SourceOK /\ OneDisposition /\ CompletionBacked
  BY DEF Source
<1>c. /\ \A i \in DOMAIN tasks : tasks[i].cand \in Candidates
      /\ todoRunning # {} => First(todoRunning) \in DOMAIN tasks
  BY ShapeFacts
<1>1. CASE ReportFailure \/ VerifyPasses \/ VerifyFails
  <2>1. PICK m \in Mutations : MutateSource(Current, m) /\ (VerifyPasses => m = "complete")
    BY <1>1 DEF ReportFailure, VerifyPasses, VerifyFails, Current, Mutations
  <2>2. /\ Current \in Candidates
        /\ sourceLog'[Current] = <<m>> /\ lease'[Current] = "free"
        /\ \A c \in Candidates : c # Current => sourceLog'[c] = sourceLog[c] /\ lease'[c] = lease[c]
    BY <1>1, <2>1, <1>0, Report DEF ReportFailure, VerifyPasses, VerifyFails
  <2>3. /\ tasks' = tasks /\ Current' = Current /\ run' = run
        /\ pc' \in {"recordFailed", "recordReopened", "recordCompleted"}
        /\ pc' = "recordCompleted" => VerifyPasses /\ pc = "verify"
    BY <1>1 DEF ReportFailure, VerifyPasses, VerifyFails, MutateSource, Current, durable
  <2> HIDE DEF Current
  <2>4. SourceOK'
    BY <2>1, <2>2, <2>3, <1>0 DEF SourceOK
  <2>5. OneDisposition'
    <3>1. Len(<<m>>) = 1
      OBVIOUS
    <3>2. Len(sourceLog'[Current]) <= 1
      BY <2>2, <3>1
    <3>3. \A c \in Candidates : c # Current => Len(sourceLog'[c]) <= 1
      BY <2>2, <1>0 DEF OneDisposition
    <3> QED
      BY <3>2, <3>3 DEF OneDisposition
  <2>6. CompletionBacked'
    <3>1. sourceLog[Current] = <<>>
      BY <1>0, <1>1 DEF SourceOK, ReportFailure, VerifyPasses, VerifyFails
    <3>2. \A i \in DOMAIN tasks : tasks[i].status = "COMPLETED" => tasks[i].cand # Current
      BY <1>0, <3>1 DEF CompletionBacked
    <3> QED
      BY <1>0, <1>c, <2>2, <2>3, <3>2 DEF CompletionBacked
  <2> QED
    BY <2>4, <2>5, <2>6 DEF Source
<1>2. CASE ~(ReportFailure \/ VerifyPasses \/ VerifyFails)
  <2>1. sourceLog' = sourceLog
    BY <1>2 DEF Next, CycleStep, BeginCycle, RejectClaimed, RenewClaimed, LoseClaimed,
       SubmitClaimed, RecordStarted, RenewRunning, LoseRunning, ResumeRun, RecordFailed,
       RecordCompleted, RecordReopened, RecordOutcome, EndCycleFull, ListCandidates,
       RejectListed, SkipListed, ClaimListed, RecordClaim, SubmitNew, RecordNew, AdvanceCursor,
       AbortCycle, SetMode, ResetCircuit, Environment, LeaseLapses, CandidateWithdrawn, RunEnds,
       outside, vars
  <2>2. OneDisposition'
    BY <2>1, <1>0 DEF OneDisposition
  <2>3. \A c \in Candidates : lease'[c] = "held" => sourceLog'[c] = <<>>
    <3>1. CASE ClaimListed
      BY <3>1, <2>1, <1>0, ShapeFacts DEF ClaimListed, Claimable, SourceOK, Shape, TypeOK
    <3>2. CASE Environment
      BY <3>2, <2>1, <1>0 DEF Environment, LeaseLapses, CandidateWithdrawn, RunEnds, SourceOK,
         Shape, TypeOK
    <3>3. CASE ~ClaimListed /\ ~Environment
      <4>1. lease' = lease
        BY <1>2, <3>3 DEF Next, CycleStep, BeginCycle, RejectClaimed, RenewClaimed, LoseClaimed,
           SubmitClaimed, RecordStarted, RenewRunning, LoseRunning, ResumeRun, RecordFailed,
           RecordCompleted, RecordReopened, RecordOutcome, EndCycleFull, ListCandidates,
           RejectListed, SkipListed, RecordClaim, SubmitNew, RecordNew, AdvanceCursor,
           AbortCycle, SetMode, ResetCircuit, outside, vars
      <4> QED
        BY <4>1, <2>1, <1>0 DEF SourceOK
    <3> QED
      BY <3>1, <3>2, <3>3
  <2>4. /\ pc' \in {"resume", "fail", "verify"} => sourceLog'[Current'] = <<>>
        /\ pc' \in {"verify", "recordCompleted"} => run'[Current'] = "merged"
        /\ pc' = "recordCompleted" => sourceLog'[Current'] = <<"complete">>
    <3>1. CASE RenewRunning
      <4>1. Current \in Candidates /\ lease[Current] = "held" /\ Current' = Current /\ pc' = "resume"
        BY <3>1, <1>c DEF RenewRunning, AtRunning, Current, durable
      <4> QED
        BY <4>1, <2>1, <1>0 DEF SourceOK
    <3>2. CASE ResumeRun
      <4>1. pc' \in {"loop", "fail", "verify", "idle"}
        BY <3>2 DEF ResumeRun
      <4>2. pc' \in {"fail", "verify"} => Current' = Current
        BY <3>2 DEF ResumeRun, Current, durable
      <4>3. pc = "resume" /\ run' = run /\ (pc' = "verify" => run[Current] = "merged")
        BY <3>2 DEF ResumeRun, Current, outside
      <4> QED
        BY <4>1, <4>2, <4>3, <2>1, <1>0 DEF SourceOK
    <3>3. CASE Environment \/ UNCHANGED vars
      <4>1. pc' = pc /\ Current' = Current
        BY <3>3 DEF Environment, LeaseLapses, CandidateWithdrawn, RunEnds, durable, volatile,
           vars, Current
      <4>2. pc \in AtTask => Current \in Candidates
        BY <1>c DEF Shape, TodoOK, Current
      <4>3. pc \in {"verify", "recordCompleted"} => run'[Current] = "merged"
        BY <4>2, <1>0, FinishedRuns DEF SourceOK, AtTask
      <4> QED
        BY <4>1, <4>3, <2>1, <1>0 DEF SourceOK
    <3>4. CASE ~RenewRunning /\ ~ResumeRun /\ ~Environment /\ ~UNCHANGED vars
      <4>1. pc' \notin Reporting
        BY <1>2, <3>4 DEF Reporting, Next, CycleStep, BeginCycle, RejectClaimed, RenewClaimed,
           LoseClaimed, SubmitClaimed, RecordStarted, LoseRunning, AtRunning, RecordFailed,
           RecordCompleted, RecordReopened, RecordOutcome, EndCycleFull, ListCandidates,
           RejectListed, SkipListed, ClaimListed, RecordClaim, SubmitNew, RecordNew,
           AdvanceCursor, AbortCycle, SetMode, ResetCircuit, volatile
      <4> QED
        BY <4>1 DEF Reporting
    <3> QED
      BY <3>1, <3>2, <3>3, <3>4
  <2>5. CompletionBacked'
    <3>1. \A c \in Candidates : run[c] = "merged" => run'[c] = "merged"
      BY FinishedRuns
    <3>2. CASE TasksKept
      BY <3>1, <3>2, <2>1, <1>0, <1>c DEF TasksKept, CompletionBacked
    <3>3. CASE TaskReplaced
      <4>1. PICK i \in DOMAIN tasks :
              /\ DOMAIN tasks' = DOMAIN tasks
              /\ \A j \in DOMAIN tasks : tasks'[j].cand = tasks[j].cand
              /\ \A j \in DOMAIN tasks : j # i => tasks'[j] = tasks[j]
              /\ tasks'[i].status = "COMPLETED" => pc = "recordCompleted" /\ i = First(todoRunning)
        BY <3>3, ReplacedEntries
      <4>2. tasks'[i].status = "COMPLETED" =>
              sourceLog[tasks[i].cand] = <<"complete">> /\ run[tasks[i].cand] = "merged"
        BY <4>1, <1>0 DEF SourceOK, Current
      <4> QED
        BY <4>1, <4>2, <3>1, <2>1, <1>0, <1>c DEF CompletionBacked
    <3>4. CASE TaskAdded
      <4>1. /\ tasks'[Len(tasks) + 1].status = "CLAIMED"
            /\ \A j \in DOMAIN tasks : tasks'[j] = tasks[j]
        BY <3>4, AddedEntry
      <4>2. \A j \in DOMAIN tasks' : j \in DOMAIN tasks \/ j = Len(tasks) + 1
        BY <3>4, AddedEntry
      <4> QED
        BY <4>1, <4>2, <3>1, <2>1, <1>0, <1>c DEF CompletionBacked
    <3> QED
      BY <3>2, <3>3, <3>4, StepTasks
  <2> QED
    BY <2>2, <2>3, <2>4, <2>5 DEF Source, SourceOK
<1> QED
  BY <1>1, <1>2

-----------------------------------------------------------------------------
(* Layer 5: capacity. *)

\* The active tasks are finitely many, so their number is a natural number.
LEMMA ActiveFinite ==
    ASSUME Shape
    PROVE  IsFiniteSet(ActiveTasks) /\ Cardinality(ActiveTasks) \in Nat
<1>1. IsFiniteSet(DOMAIN tasks)
  BY ShapeFacts, FS_Interval
<1> QED
  BY <1>1, FS_Subset, FS_CardinalityType DEF ActiveTasks

\* Only storing a claim makes one more task active.
LEMMA ActiveStep ==
    ASSUME Shape, [Next]_vars
    PROVE  /\ Cardinality(ActiveTasks') \in Nat
           /\ Cardinality(ActiveTasks') <= Cardinality(ActiveTasks) + 1
           /\ pc # "recordClaim" => Cardinality(ActiveTasks') <= Cardinality(ActiveTasks)
<1>0. IsFiniteSet(ActiveTasks) /\ Cardinality(ActiveTasks) \in Nat
  BY ActiveFinite
<1>1. CASE TasksKept \/ TaskReplaced
  <2>1. ActiveTasks' \subseteq ActiveTasks
    <3>1. CASE TasksKept
      BY <3>1 DEF TasksKept, ActiveTasks
    <3>2. CASE TaskReplaced
      <4>1. PICK i \in DOMAIN tasks :
              /\ DOMAIN tasks' = DOMAIN tasks
              /\ \A j \in DOMAIN tasks : j # i => tasks'[j] = tasks[j]
              /\ tasks[i].status \notin Terminal
        BY <3>2, ReplacedEntries
      <4>2. tasks[i].status \in Active
        <5>1. tasks[i] \in Tasks
          BY ElementOfSeq, ShapeFacts DEF Shape, TypeOK
        <5> QED
          BY <4>1, <5>1 DEF Tasks
      <4> QED
        BY <4>1, <4>2 DEF ActiveTasks
    <3> QED
      BY <1>1, <3>1, <3>2
  <2>2. Cardinality(ActiveTasks') <= Cardinality(ActiveTasks)
    BY <2>1, <1>0, FS_Subset
  <2>3. Cardinality(ActiveTasks') \in Nat
    BY <2>1, <1>0, FS_Subset, FS_CardinalityType
  <2> QED
    BY <2>2, <2>3, <1>0
<1>2. CASE TaskAdded
  <2> DEFINE n == Len(tasks) + 1
  <2>1. DOMAIN tasks = 1..Len(tasks) /\ Len(tasks) \in Nat /\ DOMAIN tasks' = 1..n
    BY <1>2, AddedEntry
  <2>2. \A j \in DOMAIN tasks : tasks'[j] = tasks[j]
    BY <1>2, AddedEntry
  <2>3. tasks'[n].status = "CLAIMED"
    BY <1>2, AddedEntry
  <2>4. n \notin DOMAIN tasks /\ DOMAIN tasks' = DOMAIN tasks \cup {n}
    BY <2>1
  <2> HIDE DEF n
  <2>5. ActiveTasks' = ActiveTasks \cup {n} /\ n \notin ActiveTasks
    BY <2>2, <2>3, <2>4 DEF ActiveTasks, Active
  <2>6. Cardinality(ActiveTasks') = Cardinality(ActiveTasks) + 1
    BY <2>5, <1>0, FS_AddElement
  <2> QED
    BY <2>6, <1>2, <1>0 DEF TaskAdded
<1> QED
  BY <1>1, <1>2, StepTasks

\* No step makes more tasks active than the policy allows.
LEMMA StepCapacity == Shape /\ CapacityOK /\ [Next]_vars => CapacityOK'
<1> SUFFICES ASSUME Shape, CapacityOK, [Next]_vars PROVE CapacityOK'
  OBVIOUS
<1> DEFINE n == Cardinality(ActiveTasks)
<1>0. n \in Nat /\ n' \in Nat
  BY ActiveFinite, ActiveStep
<1>1. n' <= n + 1 /\ (pc # "recordClaim" => n' <= n)
  BY ActiveStep
<1>2. Len(page) \in Nat /\ (page # <<>> => Len(page) >= 1 /\ Len(Tail(page)) = Len(page) - 1)
  BY LenProperties, EmptySeq, HeadTailProperties DEF Shape, TypeOK
<1>3. MaxActive \in Nat
  BY PolicyAssumption
<1>n. CapacityOK <=>
        /\ n <= MaxActive
        /\ pc \in {"admit", "recordClaim"} => n + Len(page) <= MaxActive
        /\ pc \in {"startNew", "recordNew"} => n + Len(page) <= MaxActive + 1
  BY DEF CapacityOK
<1>m. CapacityOK' <=>
        /\ n' <= MaxActive
        /\ pc' \in {"admit", "recordClaim"} => n' + Len(page') <= MaxActive
        /\ pc' \in {"startNew", "recordNew"} => n' + Len(page') <= MaxActive + 1
  BY DEF CapacityOK
<1>4. CASE ListCandidates
  <2> DEFINE last == Min2(cursor + Capacity, NumCandidates)
  <2>1. Capacity \in Int /\ Capacity > 0 /\ Capacity <= MaxActive - n
    BY <1>4, <1>0, PolicyAssumption DEF ListCandidates, Capacity, Min2
  <2>2. cursor \in 0..(NumCandidates - 1) /\ NumCandidates \in Nat
    BY PolicyAssumption DEF Shape, TypeOK
  <2>3. last - cursor \in Nat /\ last - cursor <= Capacity
    BY <2>1, <2>2 DEF Min2
  <2>4. page' = [k \in 1..(last - cursor) |-> cursor + k]
    BY <1>4 DEF ListCandidates
  <2>5. pc' = "admit" /\ tasks' = tasks
    BY <1>4 DEF ListCandidates, durable
  <2>6. ActiveTasks' = ActiveTasks
    BY <2>5 DEF ActiveTasks
  <2> HIDE DEF last
  <2>7. Len(page') = last - cursor
    BY <2>3, <2>4
  <2>8. n' = n
    BY <2>6
  <2> HIDE DEF n
  <2> QED
    BY <2>1, <2>3, <2>5, <2>7, <2>8, <1>0, <1>3, <1>n, <1>m
<1>5. CASE SkipListed \/ ClaimListed \/ RecordClaim \/ SubmitNew \/ RecordNew
  <2>1. \/ pc = "admit" /\ pc' = "admit" /\ page # <<>> /\ page' = Tail(page)
        \/ pc = "admit" /\ pc' = "recordClaim" /\ page' = page
        \/ pc = "recordClaim" /\ pc' = "startNew" /\ page # <<>> /\ page' = page
        \/ pc = "startNew" /\ pc' = "recordNew" /\ page' = page
        \/ pc = "recordNew" /\ pc' = "admit" /\ page # <<>> /\ page' = Tail(page)
    BY <1>5 DEF SkipListed, ClaimListed, RecordClaim, SubmitNew, RecordNew, Shape, PageOK, Admission
  <2> HIDE DEF n
  <2> QED
    BY <2>1, <1>0, <1>1, <1>2, <1>3, <1>n, <1>m
<1>6. CASE Environment \/ UNCHANGED vars \/ ResetCircuit \/ \E m \in Modes : SetMode(m)
  <2>1. UNCHANGED <<pc, page, tasks>>
    BY <1>6 DEF Environment, LeaseLapses, CandidateWithdrawn, RunEnds, SetMode, ResetCircuit,
       durable, volatile, vars
  <2>2. n' = n
    BY <2>1 DEF ActiveTasks
  <2> HIDE DEF n
  <2> QED
    BY <2>1, <2>2, <1>n, <1>m
<1>7. CASE (CycleStep \/ AbortCycle)
           /\ ~ListCandidates /\ ~(SkipListed \/ ClaimListed \/ RecordClaim \/ SubmitNew \/ RecordNew)
  <2>1. pc # "recordClaim" \/ pc' = "idle"
    BY <1>7 DEF CycleStep, BeginCycle, RejectClaimed, RenewClaimed, LoseClaimed, SubmitClaimed,
       RecordStarted, RenewRunning, LoseRunning, AtRunning, ResumeRun, ReportFailure, VerifyPasses,
       VerifyFails, RecordFailed, RecordCompleted, RecordReopened, RecordOutcome, EndCycleFull,
       AtListing, RejectListed, AdvanceCursor, AbortCycle
  <2>2. pc' \notin Admission
    BY <1>7 DEF Admission, CycleStep, BeginCycle, RejectClaimed, RenewClaimed, LoseClaimed,
       SubmitClaimed, RecordStarted, RenewRunning, LoseRunning, AtRunning, ResumeRun, ReportFailure,
       VerifyPasses, VerifyFails, RecordFailed, RecordCompleted, RecordReopened, RecordOutcome,
       EndCycleFull, RejectListed, AdvanceCursor, AbortCycle
  <2>3. n' <= n
    <3>1. CASE AbortCycle
      BY <3>1, <1>0 DEF AbortCycle, durable, ActiveTasks
    <3>2. CASE ~AbortCycle
      <4>1. pc # "recordClaim"
        BY <1>7, <3>2 DEF CycleStep, BeginCycle, RejectClaimed, RenewClaimed, LoseClaimed,
           SubmitClaimed, RecordStarted, RenewRunning, LoseRunning, AtRunning, ResumeRun,
           ReportFailure, VerifyPasses, VerifyFails, RecordFailed, RecordCompleted, RecordReopened,
           RecordOutcome, EndCycleFull, AtListing, RejectListed, AdvanceCursor
      <4> QED
        BY <4>1, <1>1
    <3> QED
      BY <3>1, <3>2
  <2> HIDE DEF n
  <2> QED
    BY <2>2, <2>3, <1>0, <1>3, <1>n, <1>m DEF Admission
<1> QED
  BY <1>4, <1>5, <1>6, <1>7 DEF Next, CycleStep

-----------------------------------------------------------------------------
(* Theorems. *)

\* The initial state satisfies the inductive invariant.
LEMMA InitInv == Init => IInv
<1> SUFFICES ASSUME Init PROVE IInv
  OBVIOUS
<1>1. Shape
  BY InitShape
<1>2. Control /\ Identity /\ ClaimedHasNoRun
  BY PolicyAssumption DEF Init, Control, BreakerTrips, AdmissionAuthorized, Identity,
     UniqueIdentities, ClaimedHasNoRun
<1>3. Source
  BY DEF Init, Source, SourceOK, OneDisposition, CompletionBacked
<1>4. CapacityOK
  <2>1. ActiveTasks = {}
    BY DEF Init, ActiveTasks
  <2> QED
    BY <2>1, FS_EmptySet, PolicyAssumption DEF Init, CapacityOK
<1> QED
  BY <1>1, <1>2, <1>3, <1>4 DEF IInv

\* Every step preserves the inductive invariant.
LEMMA StepInv == IInv /\ [Next]_vars => IInv'
BY StepShape, StepControl, StepIdentity, StepSource, StepNoRun, StepCapacity DEF IInv

\* The whole inductive invariant holds in every reachable state.
THEOREM Invariance == Spec => []IInv
BY InitInv, StepInv, PTL DEF Spec

\* Every variable keeps its type, whatever the policy and the listing.
THEOREM TypeCorrect == Spec => []TypeOK
<1>1. IInv => TypeOK
  BY DEF IInv, Shape
<1> QED
  BY <1>1, Invariance, PTL

\* The breaker is open whenever the failure counter is at the limit, and
\* neither a command nor an await can switch admission off under a page that
\* is being claimed.
THEOREM AdmissionIsControlled == Spec => [](BreakerTrips /\ AdmissionAuthorized)
<1>1. IInv => BreakerTrips /\ AdmissionAuthorized
  BY DEF IInv, Control
<1> QED
  BY <1>1, Invariance, PTL

\* A candidate revision has one entry in the state file, however often it is
\* listed again and wherever the process dies.
THEOREM IdentitiesAreUnique == Spec => []UniqueIdentities
<1>1. IInv => UniqueIdentities
  BY DEF IInv, Identity
<1> QED
  BY <1>1, Invariance, PTL

\* The source sees at most one disposition per candidate revision.
THEOREM SourceToldOnce == Spec => []OneDisposition
<1>1. IInv => OneDisposition
  BY DEF IInv, Source
<1> QED
  BY <1>1, Invariance, PTL

\* A COMPLETED entry is backed by a merged run and a closed source task.
THEOREM CompletionIsBacked == Spec => []CompletionBacked
<1>1. IInv => CompletionBacked
  BY DEF IInv, Source
<1> QED
  BY <1>1, Invariance, PTL

\* Claimed and running tasks together never exceed max_active_tasks.
THEOREM CapacityIsKept == Spec => []ActiveBounded
<1>1. IInv => ActiveBounded
  BY DEF IInv, CapacityOK, ActiveBounded
<1> QED
  BY <1>1, Invariance, PTL

\* Admission is sound for every number of candidates, every capacity and every
\* failure limit: identities are unique, the admitted work is bounded, and a page
\* is admitted only with the authority and the closed breaker it was listed with.
THEOREM AdmissionIsSound == Spec => []AdmissionsSound
<1>1. IInv => UniqueIdentities /\ ActiveBounded /\ AdmissionAuthorized
  BY DEF IInv, Identity, CapacityOK, ActiveBounded, Control
<1>2. IInv => AdmissionsSound
  BY <1>1 DEF AdmissionsSound
<1> QED
  BY <1>2, Invariance, PTL

\* The source is told one disposition per candidate revision, and a completion
\* only of a merged run, wherever the process dies between the two writes.
THEOREM DispositionIsSound == Spec => []DispositionsSound
<1>1. IInv => DispositionsSound
  BY DEF IInv, Source, DispositionsSound
<1> QED
  BY <1>1, Invariance, PTL

\* Entries never disappear, terminal ones never change, running ones never go back.
THEOREM TasksOnlyAdvance == Spec => TaskHistory
<1> DEFINE Advance ==
      \A i \in DOMAIN tasks :
        /\ i \in DOMAIN tasks' /\ tasks'[i].cand = tasks[i].cand
        /\ tasks[i].status \in Terminal => tasks'[i] = tasks[i]
        /\ tasks[i].run_id # NoRun => tasks'[i].run_id = tasks[i].run_id
                                      /\ tasks'[i].status # "CLAIMED"
<1>1. IInv /\ [Next]_vars => [Advance]_vars
  <2> SUFFICES ASSUME IInv, [Next]_vars PROVE Advance
    OBVIOUS
  <2>1. Shape /\ ClaimedHasNoRun
    BY DEF IInv
  <2>2. CASE TasksKept
    BY <2>1, <2>2 DEF TasksKept, ClaimedHasNoRun
  <2>3. CASE TaskReplaced
    BY <2>1, <2>3, ReplacedEntries DEF ClaimedHasNoRun
  <2>4. CASE TaskAdded
    <3>1. DOMAIN tasks \subseteq DOMAIN tasks' /\ \A j \in DOMAIN tasks : tasks'[j] = tasks[j]
      BY <2>1, <2>4, AddedEntry
    <3> QED
      BY <2>1, <3>1 DEF ClaimedHasNoRun
  <2> QED
    BY <2>1, <2>2, <2>3, <2>4, StepTasks
<1> QED
  BY <1>1, Invariance, PTL DEF Spec, TaskHistory

-----------------------------------------------------------------------------
(* The refinement of TaskLedger. *)

\* What the ledger sees of the stored tasks.
Entry == [c \in Candidates |-> StoredStatus(c)]

\* A reopening is recorded after the source was told of it.  SourceOK says so of a
\* completion; a failure the ledger allows to be recorded in any case.
Reported == pc = "recordReopened" => sourceLog[Current] = <<"reopen">>

\* The source is told before the outcome is recorded, and nobody else tells it.
LEMMA StepReported == Shape /\ SourceOK /\ Reported /\ [Next]_vars => Reported'
<1> SUFFICES ASSUME Shape, SourceOK, Reported, [Next]_vars PROVE Reported'
  OBVIOUS
<1>1. CASE VerifyFails
  <2>1. sourceLog'[Current] = <<"reopen">>
    BY <1>1, Report DEF VerifyFails, Current, Mutations
  <2>2. pc' = "recordReopened" /\ Current' = Current
    BY <1>1 DEF VerifyFails, Current, durable
  <2> QED
    BY <2>1, <2>2 DEF Reported
<1>2. CASE Environment \/ UNCHANGED vars \/ ResetCircuit \/ \E m \in Modes : SetMode(m)
  <2>1. pc' = pc /\ sourceLog' = sourceLog /\ Current' = Current
    BY <1>2 DEF Environment, LeaseLapses, CandidateWithdrawn, RunEnds, SetMode, ResetCircuit,
       durable, volatile, outside, vars, Current
  <2> QED
    BY <2>1 DEF Reported
<1>3. CASE ~VerifyFails /\ (CycleStep \/ AbortCycle)
  <2>1. pc' # "recordReopened"
    BY <1>3 DEF CycleStep, BeginCycle, RejectClaimed, RenewClaimed, LoseClaimed, SubmitClaimed,
       RecordStarted, RenewRunning, LoseRunning, AtRunning, ResumeRun, ReportFailure, VerifyPasses,
       RecordFailed, RecordCompleted, RecordReopened, RecordOutcome, EndCycleFull,
       ListCandidates, RejectListed, SkipListed, ClaimListed, RecordClaim, SubmitNew, RecordNew,
       AdvanceCursor, AbortCycle
  <2> QED
    BY <2>1 DEF Reported
<1> QED
  BY <1>1, <1>2, <1>3 DEF Next

\* The ledger shows the status of every stored task, and nothing else.
EntriesExact ==
    /\ \A i \in DOMAIN tasks : tasks[i].cand \in Candidates /\ Entry[tasks[i].cand] = tasks[i].status
    /\ \A c \in Candidates : ~Known(c) => Entry[c] = "NONE"

\* With unique identities it does.
LEMMA EntryOfTask == Shape /\ UniqueIdentities => EntriesExact
<1> SUFFICES ASSUME Shape, UniqueIdentities PROVE EntriesExact
  OBVIOUS
<1>1. ASSUME NEW i \in DOMAIN tasks
      PROVE  tasks[i].cand \in Candidates /\ Entry[tasks[i].cand] = tasks[i].status
  <2>1. tasks[i].cand \in Candidates
    BY ShapeFacts
  <2>2. PICK c \in Candidates : c = tasks[i].cand
    BY <2>1
  <2>3. PICK k : k = CHOOSE j \in DOMAIN tasks : tasks[j].cand = c
    OBVIOUS
  <2>4. k \in DOMAIN tasks /\ tasks[k].cand = c
    BY <2>2, <2>3
  <2>5. k = i
    BY <2>2, <2>4 DEF UniqueIdentities
  <2>6. StoredStatus(c) = tasks[i].status
    BY <2>2, <2>3, <2>5 DEF StoredStatus, Known
  <2> QED
    BY <2>2, <2>6 DEF Entry
<1>2. \A c \in Candidates : ~Known(c) => Entry[c] = "NONE"
  BY DEF Entry, StoredStatus
<1> QED
  BY <1>1, <1>2 DEF EntriesExact

\* Replacing a stored task changes the entry of its candidate and no other.
LEMMA EntryReplaced ==
    ASSUME Shape, UniqueIdentities, Shape', UniqueIdentities', NEW i \in DOMAIN tasks,
           NEW s \in Active \cup Terminal, NEW r \in Candidates \cup {NoRun}, tasks' = ReplaceTask(i, s, r)
    PROVE  Entry' = [Entry EXCEPT ![tasks[i].cand] = s]
<1>1. /\ DOMAIN tasks' = DOMAIN tasks
      /\ \A j \in DOMAIN tasks : j # i => tasks'[j] = tasks[j]
      /\ \A j \in DOMAIN tasks : tasks'[j].cand = tasks[j].cand
      /\ tasks'[i].status = s
  BY ReplaceTaskFacts DEF Shape, TypeOK
<1>2. /\ \A j \in DOMAIN tasks : tasks[j].cand \in Candidates /\ Entry[tasks[j].cand] = tasks[j].status
      /\ \A c \in Candidates : ~Known(c) => Entry[c] = "NONE"
  BY EntryOfTask DEF EntriesExact
<1>3. /\ \A j \in DOMAIN tasks' : tasks'[j].cand \in Candidates /\ Entry'[tasks'[j].cand] = tasks'[j].status
      /\ \A c \in Candidates : ~Known(c)' => Entry'[c] = "NONE"
  <2>1. EntriesExact'
    BY EntryOfTask, PTL
  <2> QED
    BY <2>1 DEF EntriesExact
<1>4. \A c \in Candidates : Known(c)' <=> Known(c)
  BY <1>1 DEF Known
<1>5. ASSUME NEW c \in Candidates PROVE Entry'[c] = [Entry EXCEPT ![tasks[i].cand] = s][c]
  <2>1. c \in DOMAIN Entry
    BY DEF Entry
  <2>2. CASE ~Known(c)
    <3>1. c # tasks[i].cand
      BY <2>2 DEF Known
    <3> QED
      BY <1>2, <1>3, <1>4, <2>1, <2>2, <3>1
  <2>3. CASE Known(c)
    <3>1. PICK j \in DOMAIN tasks : tasks[j].cand = c
      BY <2>3 DEF Known
    <3>2. Entry[c] = tasks[j].status /\ Entry'[c] = tasks'[j].status
      BY <1>1, <1>2, <1>3, <3>1
    <3>3. CASE j = i
      BY <1>1, <2>1, <3>1, <3>2, <3>3
    <3>4. CASE j # i
      <4>1. c # tasks[i].cand
        BY <3>1, <3>4 DEF UniqueIdentities
      <4> QED
        BY <1>1, <2>1, <3>2, <3>4, <4>1
    <3> QED
      BY <3>3, <3>4
  <2> QED
    BY <2>2, <2>3
<1>6. Entry' = [c \in Candidates |-> Entry'[c]] /\ Entry = [c \in Candidates |-> Entry[c]]
  BY DEF Entry
<1> QED
  BY <1>5, <1>6

\* Adding a task of a candidate that had none claims that candidate.
LEMMA EntryAdded ==
    ASSUME Shape, UniqueIdentities, Shape', UniqueIdentities', TaskAdded, ~Known(Head(page))
    PROVE  /\ Head(page) \in Candidates /\ Entry[Head(page)] = "NONE"
           /\ Entry' = [Entry EXCEPT ![Head(page)] = "CLAIMED"]
<1>0. PICK h \in Candidates : h = Head(page)
  BY ShapeFacts DEF TaskAdded
<1>1. PICK n : n = Len(tasks) + 1
  OBVIOUS
<1>2. /\ n \in DOMAIN tasks' /\ tasks'[n].cand = h /\ tasks'[n].status = "CLAIMED"
      /\ \A j \in DOMAIN tasks : j \in DOMAIN tasks' /\ tasks'[j] = tasks[j]
      /\ \A j \in DOMAIN tasks' : j \in DOMAIN tasks \/ j = n
  BY <1>0, <1>1, AddedEntry
<1>3. /\ \A j \in DOMAIN tasks : tasks[j].cand \in Candidates /\ Entry[tasks[j].cand] = tasks[j].status
      /\ \A c \in Candidates : ~Known(c) => Entry[c] = "NONE"
  BY EntryOfTask DEF EntriesExact
<1>4. /\ \A j \in DOMAIN tasks' : tasks'[j].cand \in Candidates /\ Entry'[tasks'[j].cand] = tasks'[j].status
      /\ \A c \in Candidates : ~Known(c)' => Entry'[c] = "NONE"
  <2>1. EntriesExact'
    BY EntryOfTask, PTL
  <2> QED
    BY <2>1 DEF EntriesExact
<1>5. ASSUME NEW c \in Candidates, c # h PROVE Entry'[c] = Entry[c]
  <2>1. CASE Known(c)
    <3>1. PICK j \in DOMAIN tasks : tasks[j].cand = c
      BY <2>1 DEF Known
    <3> QED
      BY <1>2, <1>3, <1>4, <3>1
  <2>2. CASE ~Known(c)
    <3>1. ~Known(c)'
      BY <1>2, <1>5, <2>2 DEF Known
    <3> QED
      BY <1>3, <1>4, <2>2, <3>1
  <2> QED
    BY <2>1, <2>2
<1>6. Entry'[h] = "CLAIMED"
  BY <1>2, <1>4
<1>7. Entry' = [c \in Candidates |-> Entry'[c]] /\ Entry = [c \in Candidates |-> Entry[c]]
  BY DEF Entry
<1>8. Entry' = [Entry EXCEPT ![h] = "CLAIMED"]
  BY <1>5, <1>6, <1>7
<1>9. Entry[h] = "NONE"
  BY <1>0, <1>3
<1> QED
  BY <1>0, <1>8, <1>9

\* A step of the dispatcher is a step of the ledger, or leaves it as it is.
LEMMA LedgerStep ==
    ASSUME IInv, IInv', Reported, [Next]_vars
    PROVE  [Ledger!Next]_(Ledger!ledgerVars)
<1>0. Shape /\ UniqueIdentities /\ Shape' /\ UniqueIdentities' /\ SourceOK
  BY DEF IInv, Identity, Source
<1>a. \A i \in DOMAIN tasks : tasks[i].cand \in Candidates /\ Entry[tasks[i].cand] = tasks[i].status
  BY <1>0, EntryOfTask DEF EntriesExact
<1>b. /\ todoClaimed # {} => First(todoClaimed) \in DOMAIN tasks /\ tasks[First(todoClaimed)].status = "CLAIMED"
      /\ todoRunning # {} => First(todoRunning) \in DOMAIN tasks /\ tasks[First(todoRunning)].status = "RUNNING"
  BY <1>0, ShapeFacts DEF Shape, TodoOK
<1>c. \A i \in DOMAIN tasks : tasks[i].run_id \in Candidates \cup {NoRun}
  BY <1>0, ShapeFacts
<1>k. tasks' = tasks => Entry' = Entry
  BY DEF Entry, StoredStatus, Known
<1>1. CASE LoseClaimed \/ RecordStarted
  <2>1. PICK i \in DOMAIN tasks : i = First(todoClaimed) /\ tasks[i].status = "CLAIMED"
    BY <1>0, <1>1, <1>b DEF LoseClaimed, RecordStarted, Shape, TodoOK, AtClaimed
  <2>2. sourceLog' = sourceLog
    BY <1>1 DEF LoseClaimed, RecordStarted, outside
  <2>3. \/ tasks' = ReplaceTask(i, "FAILED", tasks[i].run_id)
        \/ tasks' = ReplaceTask(i, "RUNNING", tasks[i].cand)
    BY <1>1, <2>1 DEF LoseClaimed, RecordStarted
  <2>4. PICK c \in Candidates : c = tasks[i].cand /\ Entry[c] = "CLAIMED"
    BY <1>a, <2>1
  <2>5. Entry' = [Entry EXCEPT ![c] = "FAILED"] \/ Entry' = [Entry EXCEPT ![c] = "RUNNING"]
    BY <1>0, <1>c, <2>3, <2>4, EntryReplaced DEF Active, Terminal
  <2>6. Ledger!Lose(c) \/ Ledger!Start(c)
    BY <2>2, <2>4, <2>5 DEF Ledger!Lose, Ledger!Start, Entry
  <2> QED
    BY <2>6 DEF Ledger!Next
<1>2. CASE LoseRunning \/ RecordFailed \/ RecordCompleted \/ RecordReopened
  <2>1. PICK i \in DOMAIN tasks : i = First(todoRunning) /\ tasks[i].status = "RUNNING"
    BY <1>0, <1>2, <1>b DEF LoseRunning, AtRunning, RecordFailed, RecordCompleted, RecordReopened,
       RecordOutcome, Shape, TodoOK, AtTask
  <2>2. sourceLog' = sourceLog
    BY <1>2 DEF LoseRunning, RecordFailed, RecordCompleted, RecordReopened, RecordOutcome, outside
  <2>4. PICK c \in Candidates : c = tasks[i].cand /\ Entry[c] = "RUNNING" /\ c = Current
    BY <1>a, <2>1 DEF Current
  <2>3. \/ tasks' = ReplaceTask(i, "FAILED", tasks[i].run_id)
        \/ tasks' = ReplaceTask(i, "REOPENED", tasks[i].run_id) /\ sourceLog[c] = <<"reopen">>
        \/ tasks' = ReplaceTask(i, "COMPLETED", tasks[i].run_id) /\ sourceLog[c] = <<"complete">>
    BY <1>0, <1>2, <2>1, <2>4 DEF LoseRunning, RecordFailed, RecordCompleted, RecordReopened,
       RecordOutcome, Reported, SourceOK
  <2>e. ASSUME NEW s \in Terminal, tasks' = ReplaceTask(i, s, tasks[i].run_id)
        PROVE  Entry' = [Entry EXCEPT ![c] = s]
    BY <1>0, <1>c, <2>e, <2>4, EntryReplaced
  <2>5. \/ Entry' = [Entry EXCEPT ![c] = "FAILED"]
        \/ Entry' = [Entry EXCEPT ![c] = "REOPENED"] /\ sourceLog[c] = <<"reopen">>
        \/ Entry' = [Entry EXCEPT ![c] = "COMPLETED"] /\ sourceLog[c] = <<"complete">>
    BY <2>3, <2>e DEF Terminal
  <2>6. Ledger!RecordedAs("reopen") = "REOPENED" /\ Ledger!RecordedAs("complete") = "COMPLETED"
    BY DEF Ledger!RecordedAs
  <2>7. Ledger!Lose(c) \/ Ledger!Record(c, "reopen") \/ Ledger!Record(c, "complete")
    BY <2>2, <2>4, <2>5, <2>6 DEF Ledger!Lose, Ledger!Record, Entry
  <2> QED
    BY <2>7 DEF Ledger!Next, Ledger!Dispositions
<1>3. CASE RecordNew
  <2>1. PICK i \in DOMAIN tasks : i = Len(tasks) /\ tasks[i].status = "CLAIMED"
    <3>1. tasks # <<>> /\ tasks[Len(tasks)].status = "CLAIMED"
      BY <1>0, <1>3 DEF RecordNew, Shape, PageOK
    <3> QED
      BY <1>0, <3>1, ShapeFacts, EmptySeq DEF Shape, TypeOK
  <2>2. Head(page) \in Candidates /\ tasks' = ReplaceTask(i, "RUNNING", Head(page)) /\ sourceLog' = sourceLog
    BY <1>0, <1>3, <2>1, ShapeFacts DEF RecordNew, outside, Shape, PageOK, Admission
  <2>3. PICK c \in Candidates : c = tasks[i].cand /\ Entry[c] = "CLAIMED"
    BY <1>a, <2>1
  <2>4. Entry' = [Entry EXCEPT ![c] = "RUNNING"]
    BY <1>0, <2>2, <2>3, EntryReplaced DEF Active
  <2>5. Ledger!Start(c)
    BY <2>2, <2>3, <2>4 DEF Ledger!Start, Entry
  <2> QED
    BY <2>5 DEF Ledger!Next
<1>4. CASE RecordClaim
  <2>1. TaskAdded /\ ~Known(Head(page)) /\ sourceLog' = sourceLog
    BY <1>0, <1>4 DEF RecordClaim, TaskAdded, Shape, PageOK, Admission, IInv, Identity, outside
  <2>2. PICK h \in Candidates : Entry[h] = "NONE" /\ Entry' = [Entry EXCEPT ![h] = "CLAIMED"]
    BY <1>0, <2>1, EntryAdded
  <2>3. Ledger!Claim(h)
    BY <2>1, <2>2 DEF Ledger!Claim, Entry
  <2> QED
    BY <2>3 DEF Ledger!Next
<1>5. CASE ReportFailure \/ VerifyPasses \/ VerifyFails
  <2>1. PICK i \in DOMAIN tasks : i = First(todoRunning) /\ tasks[i].status = "RUNNING"
    BY <1>0, <1>5, <1>b DEF ReportFailure, VerifyPasses, VerifyFails, Shape, TodoOK, AtTask
  <2>2. PICK c \in Candidates : c = Current /\ Entry[c] = "RUNNING"
    BY <1>a, <2>1 DEF Current
  <2>3. PICK m \in Mutations : MutateSource(c, m) /\ tasks' = tasks
    BY <1>5, <2>2 DEF ReportFailure, VerifyPasses, VerifyFails, Current, Mutations, durable
  <2>4. sourceLog[c] = <<>>
    BY <1>0, <1>5, <2>2 DEF ReportFailure, VerifyPasses, VerifyFails, SourceOK
  <2>5. sourceLog' = [sourceLog EXCEPT ![c] = Append(sourceLog[c], m)] /\ Append(<<>>, m) = <<m>>
    BY <2>3 DEF MutateSource
  <2>6. sourceLog' = [sourceLog EXCEPT ![c] = <<m>>] /\ Entry' = Entry
    BY <1>k, <2>3, <2>4, <2>5
  <2>7. Ledger!Tell(c, m)
    BY <2>2, <2>4, <2>6 DEF Ledger!Tell, Entry
  <2> QED
    BY <2>7 DEF Ledger!Next, Ledger!Dispositions, Mutations
<1>6. CASE BeginCycle \/ RejectClaimed \/ RenewClaimed \/ SubmitClaimed \/ RenewRunning \/ ResumeRun
           \/ EndCycleFull \/ ListCandidates \/ RejectListed \/ SkipListed \/ ClaimListed
           \/ SubmitNew \/ AdvanceCursor \/ AbortCycle
           \/ (\E m \in Modes : SetMode(m)) \/ ResetCircuit \/ Environment \/ UNCHANGED vars
  <2>1. tasks' = tasks /\ sourceLog' = sourceLog
    BY <1>6 DEF BeginCycle, RejectClaimed, RenewClaimed, SubmitClaimed, RenewRunning, AtRunning,
       ResumeRun, EndCycleFull, ListCandidates, RejectListed, SkipListed, ClaimListed, SubmitNew,
       AdvanceCursor, AbortCycle, SetMode, ResetCircuit, Environment, LeaseLapses,
       CandidateWithdrawn, RunEnds, durable, outside, vars
  <2>2. UNCHANGED Ledger!ledgerVars
    BY <1>k, <2>1 DEF Ledger!ledgerVars, Entry
  <2> QED
    BY <2>2
<1> QED
  BY <1>1, <1>2, <1>3, <1>4, <1>5, <1>6 DEF Next, CycleStep

\* The dispatcher implements TaskLedger for every policy, listing and number of aborts: each
\* candidate's task is claimed, started and ended once, and what is recorded as completed or
\* reopened is what complete and reopen told the source, wherever runCycle is cut off.
THEOREM LedgerIsImplemented == Spec => ImplementsLedger
<1>1. Init => Ledger!Init
  <2> SUFFICES ASSUME Init PROVE Ledger!Init
    OBVIOUS
  <2>1. \A c \in Candidates : StoredStatus(c) = "NONE"
    BY DEF Init, StoredStatus, Known
  <2> QED
    BY <2>1 DEF Init, Ledger!Init
<1>2. Init => Reported
  BY DEF Init, Reported
<1>3. IInv /\ Reported /\ [Next]_vars => Reported'
  BY StepReported DEF IInv, Source
<1>4. IInv /\ IInv' /\ Reported /\ [Next]_vars => [Ledger!Next]_(Ledger!ledgerVars)
  BY LedgerStep
<1> QED
  BY <1>1, <1>2, <1>3, <1>4, Invariance, PTL DEF Spec, ImplementsLedger, Ledger!Spec
=============================================================================
