--------------------------- MODULE ProgressProofs -----------------------------
(***************************************************************************)
(* The components of MCProgress that have to come to an end, for every     *)
(* number of callers, flights, clients, requests, bytes, faults and runs:  *)
(* the control plane of a run, a bounded process and the IPC exchange.     *)
(* That they do end is liveness and stays with TLC; what is proved here is *)
(* that nothing they reach on the way is wrong.                            *)
(*                                                                         *)
(* The argument.  A kill is followed to its end (KillIsFollowed), so a     *)
(* result never changes once it is given.  A connection dispatches one     *)
(* command, after the peer was verified (OneCommand, TokenKept), and what  *)
(* a send resolved is what the client remembers (Remembered).  The last    *)
(* part is the composition, whose fairness plays no role in safety.        *)
(***************************************************************************)
EXTENDS MCProgress, IsolationProofs, SequenceTheorems, TLAPS

-----------------------------------------------------------------------------
(* The control plane of one run. *)

\* A command the reducer takes leaves a run a run: the tree it records is one of the
\* candidates, and a commit is the tree the review accepted.
LEMMA RunAfterTyped ==
    ASSUME NEW r \in RunRecords, NEW c \in Commands, RunPermits(r, c),
           c.type = "CANDIDATE_ACCEPTED" => c.arg \in Trees
    PROVE  RunAfter(r, c) \in RunRecords
<1>0. c.arg \in Nat /\ c.type \in CommandTypes /\ c.type # "RUN_ACCEPTED"
    BY DEF Commands, RunPermits, PublicationAllowed, PublicationTypes
<1>r. /\ r.state \in States /\ r.attempts \in Nat /\ r.attempts + 1 \in Nat /\ r.epoch \in Nat
      /\ r.inspection_required \in BOOLEAN /\ r.external_process \in BOOLEAN /\ r.tree \in Trees \cup {None}
      /\ r.verdict \in BOOLEAN /\ r.commit \in Trees \cup {None} /\ r.merged \in BOOLEAN
    BY DEF RunRecords
<1>s. /\ \A s \in {"AWAITING_REINSPECTION", "READY_FOR_EXECUTOR", "EXECUTION_STARTED", "REVIEW_ACCEPTED",
                   "READY_FOR_PUBLICATION", "PUBLICATION_PUSHED", "PULL_REQUEST_OPEN",
                   "REQUIRED_CHECKS_PASSED", "FINALIZED", "ABORTED", "FAILED"} : s \in States
    BY DEF States, Ended
<1>1. CASE c.type = "COMMIT_CREATED"
    <2>1. c.arg \in Trees \cup {None}
        BY <1>1, <1>r DEF RunPermits, CommitAllowed, PublicationAllowed, PublicationTypes
    <2>2. RunAfter(r, c) = [r EXCEPT !.state = "READY_FOR_PUBLICATION", !.commit = c.arg, !.external_process = FALSE]
        BY <1>1 DEF RunAfter
    <2> QED  BY <2>1, <2>2, <1>s DEF RunRecords
<1>2. CASE c.type = "ATTEMPT_RECORDED"
    BY <1>2, <1>r, <1>s DEF RunAfter, RunRecords
<1>3. CASE c.type = "PATHS_REINSPECTED"         BY <1>0, <1>3, <1>s DEF RunAfter, RunRecords
<1>4. CASE c.type = "EXTERNAL_PROCESS_STARTED"  BY <1>4, <1>s DEF RunAfter, RunRecords
<1>5. CASE c.type = "CANDIDATE_ACCEPTED"        BY <1>5, <1>s DEF RunAfter, RunRecords
<1>6. CASE c.type = "REVIEW_VERDICT_RECORDED"   BY <1>6 DEF RunAfter, RunRecords
<1>7. CASE c.type \in PublicationTypes
    BY <1>7, <1>s DEF RunAfter, RunRecords, PublicationTypes
<1>8. CASE c.type \in {"RUN_ABORTED", "RUN_FAILED"}
    BY <1>8, <1>s DEF RunAfter, RunRecords
<1> QED  BY <1>0, <1>1, <1>2, <1>3, <1>4, <1>5, <1>6, <1>7, <1>8 DEF CommandTypes

\* What the daemon makes of a command of the host.
LEMMA DaemonTyped ==
    ASSUME run \in RunRecords, NEW e \in Commands, e.type = "CANDIDATE_ACCEPTED" => e.arg \in Trees, Daemon(e)
    PROVE  run' \in RunRecords
<1>1. CASE RunPermits(run, e)   BY <1>1, RunAfterTyped DEF Daemon
<1>2. CASE ~RunPermits(run, e)  BY <1>2 DEF Daemon
<1> QED  BY <1>1, <1>2

\* The commands of the host are the daemon's.
LEMMA ThisTyped ==
    ASSUME NEW type \in CommandTypes, NEW arg \in Nat
    PROVE  This(type, arg) \in Commands /\ This(type, arg).type = type /\ This(type, arg).arg = arg
BY BrokerSizes DEF This, Command, Commands, Runs

\* A recovery fails a run whatever it was.
LEMMA FailedTyped == ASSUME NEW r \in RunRecords PROVE RunAfter(r, This("RUN_FAILED", None)) \in RunRecords
<1>1. RunAfter(r, This("RUN_FAILED", None)) = [r EXCEPT !.state = "FAILED", !.external_process = FALSE]
    BY DEF RunAfter, This, Command
<1> QED  BY <1>1 DEF RunRecords, States, Ended

\* Every step of a call, a flight, a crash or a close keeps the types.
LEMMA HostStepTyped == TypeOK /\ [Next]_vars => TypeOK'
<1> SUFFICES ASSUME TypeOK, [Next]_vars PROVE TypeOK'  OBVIOUS
<1> DEFINE Stages == AdvanceTypes \cup {"none", "advance", "failing"}
<1>t. /\ run \in RunRecords /\ flights \in Flights \cup {NoFlight} /\ flight \in [Flights -> Stages]
      /\ aborting \in BOOLEAN /\ closing \in Flights \cup {NoFlight, NotClosing}
      /\ pc \in [Callers -> Steps] /\ faults \in 0..MaxFaults
    BY DEF TypeOK
<1>q. ASSUME /\ run' \in RunRecords /\ flights' \in Flights \cup {NoFlight} /\ flight' \in [Flights -> Stages]
             /\ aborting' \in BOOLEAN /\ closing' \in Flights \cup {NoFlight, NotClosing}
             /\ pc' \in [Callers -> Steps] /\ faults' \in 0..MaxFaults
      PROVE TypeOK'
    BY <1>q DEF TypeOK
<1>n. None \in Nat  BY DEF None
<1>g. ASSUME NEW c \in Callers, NEW l \in Steps, Goto(c, l) PROVE pc' \in [Callers -> Steps]
    BY <1>g, <1>t DEF Goto
<1>l. {"idle", "prepare", "schedule", "status", "verdict", "finalize", "stop", "abort"} \subseteq Steps
    BY DEF Steps, AbortSteps
<1>m. {"none", "advance", "failing"} \subseteq Stages /\ AdvanceTypes \subseteq Stages  OBVIOUS
<1>f. faults < MaxFaults => faults + 1 \in 0..MaxFaults  BY <1>t, HostSizes
<1> HIDE DEF Stages
<1>1. ASSUME NEW c \in Callers, CallStep(c) \/ Call(c) \/ Throw(c) PROVE TypeOK'
    <2>1. CASE Submit(c) \/ Schedule(c) \/ Repair(c) \/ PrepareRepair(c) \/ Finalize(c) \/ SubmitVerdict(c) \/ StopExternal(c)
        <3>1. UNCHANGED <<run, host, faults>>
            BY <2>1 DEF Submit, Schedule, Repair, PrepareRepair, Finalize, SubmitVerdict, StopExternal
        <3>2. \E l \in Steps : Goto(c, l)
            BY <2>1, <1>l DEF Submit, Schedule, Repair, PrepareRepair, Finalize, SubmitVerdict, StopExternal
        <3>3. pc' \in [Callers -> Steps]  BY <3>2, <1>g
        <3> QED  BY <3>1, <3>3, <1>t, <1>q DEF host
    <2>2. CASE StartFlight(c)
        <3>1. Goto(c, "idle") /\ UNCHANGED <<run, faults>>  BY <2>2 DEF StartFlight
        <3>2. pc' \in [Callers -> Steps]  BY <3>1, <1>g, <1>l
        <3>3. flights' \in Flights \cup {NoFlight} /\ flight' \in [Flights -> Stages] /\ aborting' = aborting /\ closing' = closing
            BY <2>2, <1>t, <1>m DEF StartFlight, host
        <3> QED  BY <3>1, <3>2, <3>3, <1>t, <1>q
    <2>3. CASE RecordCommit(c)
        <3>1. Goto(c, "idle") /\ UNCHANGED <<host, faults>> /\ Daemon(This("COMMIT_CREATED", run.tree))
            BY <2>3 DEF RecordCommit
        <3>2. pc' \in [Callers -> Steps]  BY <3>1, <1>g, <1>l
        <3>3. run.tree \in Nat  BY <1>t DEF RunRecords, Trees, None
        <3>4. run' \in RunRecords  BY <3>1, <3>3, <1>t, DaemonTyped, ThisTyped DEF CommandTypes
        <3> QED  BY <3>1, <3>2, <3>4, <1>t, <1>q DEF host
    <2>4. CASE RecordVerdict(c)
        <3>1. UNCHANGED <<host, faults>> /\ Daemon(This("REVIEW_VERDICT_RECORDED", run.tree))
            BY <2>4 DEF RecordVerdict
        <3>2. \E l \in Steps : Goto(c, l)  BY <2>4, <1>l DEF RecordVerdict
        <3>3. run.tree \in Nat  BY <1>t DEF RunRecords, Trees, None
        <3>4. run' \in RunRecords  BY <3>1, <3>3, <1>t, DaemonTyped, ThisTyped DEF CommandTypes
        <3>5. pc' \in [Callers -> Steps]  BY <3>2, <1>g
        <3> QED  BY <3>1, <3>4, <3>5, <1>t, <1>q DEF host
    <2>5. CASE Abort(c)
        <3>1. Goto(c, "stop") /\ aborting' = TRUE /\ UNCHANGED <<run, flights, flight, closing, faults>>
            BY <2>5 DEF Abort
        <3>2. pc' \in [Callers -> Steps]  BY <3>1, <1>g, <1>l
        <3> QED  BY <3>1, <3>2, <1>t, <1>q
    <2>6. CASE RecordAbort(c)
        <3>1. /\ Goto(c, "idle") /\ aborting' \in BOOLEAN /\ UNCHANGED <<flights, flight, closing, faults>>
              /\ Daemon(This("RUN_ABORTED", None))
            BY <2>6 DEF RecordAbort
        <3>2. pc' \in [Callers -> Steps]  BY <3>1, <1>g, <1>l
        <3>3. run' \in RunRecords  BY <3>1, <1>n, <1>t, DaemonTyped, ThisTyped DEF CommandTypes
        <3> QED  BY <3>1, <3>2, <3>3, <1>t, <1>q
    <2>7. CASE Throw(c)
        <3>1. Goto(c, "idle") /\ aborting' \in BOOLEAN /\ UNCHANGED <<run, flights, flight, closing>>
            BY <2>7, <1>t DEF Throw
        <3>2. pc' \in [Callers -> Steps]  BY <3>1, <1>g, <1>l
        <3>3. faults' \in 0..MaxFaults  BY <2>7, <1>f DEF Throw
        <3> QED  BY <3>1, <3>2, <3>3, <1>t, <1>q
    <2> QED  BY <1>1, <2>1, <2>2, <2>3, <2>4, <2>5, <2>6, <2>7 DEF CallStep, Call
<1>2. ASSUME NEW f \in Flights, FlightStep(f) PROVE TypeOK'
    <2>e. ASSUME EndFlight(f) PROVE /\ flights' \in Flights \cup {NoFlight} /\ flight' \in [Flights -> Stages]
                                    /\ UNCHANGED <<aborting, closing, pc, faults>>
        BY <2>e, <1>t, <1>m DEF EndFlight
    <2>1. CASE AdvanceReads(f)
        <3>1. Wanted \subseteq AdvanceTypes
            BY DEF Wanted, AdvanceTypes
        <3>2. flight' \in [Flights -> Stages]  BY <2>1, <3>1, <1>t, <1>m DEF AdvanceReads
        <3>3. UNCHANGED <<run, flights, aborting, closing, pc, faults>>  BY <2>1 DEF AdvanceReads
        <3> QED  BY <3>2, <3>3, <1>t, <1>q
    <2>2. CASE AdvanceRecords(f)
        <3>1. /\ flight[f] \in AdvanceTypes /\ Daemon(AdvanceEvent(f)) /\ UNCHANGED <<flights, aborting, closing, pc, faults>>
            BY <2>2 DEF AdvanceRecords
        <3>2. flight' \in [Flights -> Stages]  BY <2>2, <1>t, <1>m DEF AdvanceRecords
        <3>3. run.attempts + 1 \in Nat /\ run.epoch + 1 \in Nat /\ 1 \in Trees
            BY <1>t, BrokerSizes DEF RunRecords, Trees
        <3>4. PICK arg \in Nat : AdvanceEvent(f) = This(flight[f], arg) /\ (flight[f] = "CANDIDATE_ACCEPTED" => arg = 1)
            BY <3>1, <3>3, <1>n DEF AdvanceEvent, AdvanceTypes
        <3>5. flight[f] \in CommandTypes  BY <3>1 DEF AdvanceTypes, CommandTypes
        <3>6. run' \in RunRecords  BY <3>1, <3>3, <3>4, <3>5, <1>t, DaemonTyped, ThisTyped
        <3> QED  BY <3>1, <3>2, <3>6, <1>t, <1>q
    <2>3. CASE AdvanceThrows(f)
        <3>1. flight' \in [Flights -> Stages]  BY <2>3, <1>t, <1>m DEF AdvanceThrows
        <3>2. UNCHANGED <<run, flights, aborting, closing, pc, faults>>  BY <2>3 DEF AdvanceThrows
        <3> QED  BY <3>1, <3>2, <1>t, <1>q
    <2>4. CASE FlightReturns(f)  BY <2>4, <2>e, <1>t, <1>q DEF FlightReturns
    <2>5. CASE FlightFails(f)
        <3>1. EndFlight(f)  BY <2>5 DEF FlightFails
        <3>2. run' = run \/ Daemon(This("RUN_FAILED", None))  BY <2>5 DEF FlightFails
        <3>3. run' \in RunRecords  BY <3>2, <1>n, <1>t, DaemonTyped, ThisTyped DEF CommandTypes
        <3> QED  BY <3>1, <3>3, <2>e, <1>t, <1>q
    <2> QED  BY <1>2, <2>1, <2>2, <2>3, <2>4, <2>5 DEF FlightStep
<1>3. ASSUME Restart, faults' \in 0..MaxFaults PROVE TypeOK'
    <2>1. /\ flights' = NoFlight /\ flight' = [f \in Flights |-> "none"] /\ aborting' = FALSE /\ closing' = NotClosing
          /\ pc' = [c \in Callers |-> "idle"]
        BY <1>3 DEF Restart
    <2>2. run' \in RunRecords  BY <1>3, <1>t, FailedTyped DEF Restart
    <2> QED  BY <1>3, <2>1, <2>2, <1>l, <1>m, <1>q
<1>4. CASE Crash  BY <1>4, <1>3, <1>f DEF Crash
<1>5. CASE Close
    <2>1. closing' = flights /\ UNCHANGED <<run, flights, flight, aborting, pc>> /\ faults' \in 0..MaxFaults
        BY <1>5, <1>f DEF Close
    <2> QED  BY <2>1, <1>t, <1>q
<1>6. CASE Exit   BY <1>6, <1>3, <1>t DEF Exit
<1>7. CASE UNCHANGED vars  BY <1>7, <1>t, <1>q DEF vars, host
<1> QED  BY <1>1, <1>2, <1>4, <1>5, <1>6, <1>7 DEF Next

\* The run, its flights and the control calls keep their types (composeRuntimeHostControlV4).
THEOREM HostControlTyped == Spec => []TypeOK
<1>1. Init => TypeOK
    <2>1. AcceptedRun \in RunRecords
        BY DEF AcceptedRun, NoRunYet, RunRecords, States, Ended
    <2>2. 0 \in 0..MaxFaults  BY HostSizes
    <2>3. "idle" \in Steps  BY DEF Steps
    <2> QED  BY <2>1, <2>2, <2>3 DEF Init, TypeOK
<1> QED  BY <1>1, HostStepTyped, PTL DEF Spec

-----------------------------------------------------------------------------
(* A bounded process. *)

Completions == [is : {"pending", "rejected", "resolved"}, reason : Reasons]

\* A settleAfterClose waits only for a kill of a child that has closed; a reason to stop
\* starts the kill; and what was rejected without one is a child that never spawned.
KillIsFollowed ==
    /\ waiting => child = "closed" /\ killWork = "running"
    /\ killWork = "none" <=> stopReason = "none"
    /\ completion.is = "rejected" => stopReason # "none" \/ child = "failed"
    /\ completion.is = "pending" => completion = Pending
    /\ truncated => stopReason # "none"

BpInv == BpTypeOK /\ KillIsFollowed /\ ResultIsFinal

\* What the completion can become.
LEMMA CompletionsTyped ==
    /\ Pending \in Completions /\ Pending.is = "pending" /\ BpRejected \in Completions /\ BpRejected.is = "rejected"
    /\ \A r \in Reasons : Resolved(r) \in Completions /\ Resolved(r).is = "resolved" /\ Resolved(r).reason = r
BY DEF Pending, BpRejected, Resolved, Completions, Reasons

\* Every callback keeps the invariant.
LEMMA BpStepInv == BpInv /\ [BpNext]_bpVars => BpInv'
<1> SUFFICES ASSUME BpInv, [BpNext]_bpVars PROVE BpInv'  OBVIOUS
<1>t. /\ child \in {"running", "exited", "closed", "failed"} /\ outputSize \in 0..MaxOutput /\ truncated \in BOOLEAN
      /\ aborted \in BOOLEAN /\ timers \in SUBSET {"deadline", "settlement"} /\ stopReason \in Reasons
      /\ killWork \in {"none", "running", "done", "failed"} /\ waiting \in BOOLEAN /\ completion \in Completions
      /\ MaxOutput \in Nat
    BY OutputAssumption DEF BpInv, BpTypeOK, Completions
<1>k. /\ waiting => child = "closed" /\ killWork = "running"
      /\ killWork = "none" <=> stopReason = "none"
      /\ completion.is = "rejected" => stopReason # "none" \/ child = "failed"
      /\ completion.is = "pending" => completion = Pending
      /\ truncated => stopReason # "none"
    BY DEF BpInv, KillIsFollowed
<1>r. completion.is = "resolved" =>
        /\ child = "closed" /\ killWork \in {"none", "done"}
        /\ completion.reason = stopReason /\ (truncated => stopReason # "none")
    BY DEF BpInv, ResultIsFinal
<1>q. ASSUME child' \in {"running", "exited", "closed", "failed"}, outputSize' \in 0..MaxOutput, truncated' \in BOOLEAN,
             aborted' \in BOOLEAN, timers' \in SUBSET {"deadline", "settlement"}, stopReason' \in Reasons,
             killWork' \in {"none", "running", "done", "failed"}, waiting' \in BOOLEAN, completion' \in Completions
      PROVE  BpTypeOK'
    BY <1>q DEF BpTypeOK, Completions
<1> HIDE DEF BpInv
<1>s. "none" \in Reasons /\ "ABORT" \in Reasons /\ "OUTPUT_LIMIT" \in Reasons /\ "TIMEOUT" \in Reasons  BY DEF Reasons
\* A stop: the first reason stays, and nothing is settled by it.
<1>x. ASSUME NEW reason \in Reasons, reason # "none", Stop(reason), child' = child,
             child = "running" \/ truncated' = truncated, truncated' \in BOOLEAN
      PROVE  /\ stopReason' \in Reasons /\ killWork' \in {"none", "running", "done", "failed"}
             /\ waiting' \in BOOLEAN /\ completion' = completion
             /\ KillIsFollowed' /\ ResultIsFinal'
    <2>1. CASE stopReason # "none" \/ BpSettled
        <3>1. UNCHANGED <<stopReason, killWork, completion, waiting>>  BY <1>x, <2>1 DEF Stop
        <3>2. truncated' => stopReason # "none"
            <4>1. CASE truncated' = truncated  BY <1>k, <4>1
            <4>2. CASE child = "running" /\ stopReason = "none"
                <5>1. completion.is = "pending"  BY <1>k, <1>r, <1>t, <4>2 DEF Completions
                <5> QED  BY <1>k, <2>1, <4>2, <5>1 DEF BpSettled
            <4> QED  BY <1>x, <4>1, <4>2
        <3> QED  BY <1>t, <1>k, <1>r, <1>x, <3>1, <3>2 DEF KillIsFollowed, ResultIsFinal
    <2>2. CASE ~(stopReason # "none" \/ BpSettled)
        <3>1. stopReason' = reason /\ killWork' = "running" /\ SettleAfterClose(child = "closed", "running", reason)
            BY <1>x, <2>2 DEF Stop
        <3>2. completion' = completion /\ (waiting' => child = "closed") /\ waiting' \in BOOLEAN
            BY <1>t, <1>k, <2>2, <3>1 DEF SettleAfterClose
        <3>3. completion.is = "pending"  BY <2>2 DEF BpSettled, Pending
        <3> QED  BY <1>k, <1>x, <3>1, <3>2, <3>3 DEF KillIsFollowed, ResultIsFinal
    <2> QED  BY <2>1, <2>2
<1>p. ~BpSettled <=> completion.is = "pending"  BY <1>k DEF BpSettled, Pending
<1>1. CASE ChildWrites
    <2>1. /\ child = "running" /\ outputSize' \in 0..MaxOutput /\ truncated' \in BOOLEAN /\ UNCHANGED <<child, aborted, timers>>
          /\ truncated' = (outputSize = MaxOutput)
        BY <1>1, <1>t DEF ChildWrites
    <2>2. CASE truncated'
        <3>1. Stop("OUTPUT_LIMIT")  BY <1>1, <2>2 DEF ChildWrites
        <3>2. /\ stopReason' \in Reasons /\ killWork' \in {"none", "running", "done", "failed"}
              /\ waiting' \in BOOLEAN /\ completion' = completion /\ KillIsFollowed' /\ ResultIsFinal'
            BY <1>s, <1>x, <2>1, <3>1
        <3> QED  BY <1>q, <1>t, <2>1, <3>2 DEF BpInv
    <2>3. CASE ~truncated'
        <3>1. UNCHANGED <<stopReason, killWork, completion, waiting>>  BY <1>1, <2>3 DEF ChildWrites
        <3>2. KillIsFollowed' /\ ResultIsFinal'  BY <1>k, <1>r, <2>1, <2>3, <3>1 DEF KillIsFollowed, ResultIsFinal
        <3> QED  BY <1>q, <1>t, <2>1, <3>1, <3>2 DEF BpInv
    <2> QED  BY <2>2, <2>3
<1>2. CASE ChildExits
    <2>1. child = "running" /\ child' = "exited" /\ UNCHANGED <<outputSize, truncated, aborted, timers, stopReason, killWork, waiting, completion>>
        BY <1>2 DEF ChildExits
    <2>2. KillIsFollowed' /\ ResultIsFinal'  BY <1>k, <1>r, <2>1 DEF KillIsFollowed, ResultIsFinal
    <2> QED  BY <1>q, <1>t, <2>1, <2>2 DEF BpInv
<1>3. CASE ChildCloses
    <2>1. /\ child = "exited" /\ child' = "closed" /\ SettleAfterClose(TRUE, killWork, stopReason)
          /\ UNCHANGED <<outputSize, truncated, aborted, timers, stopReason, killWork>>
        BY <1>3 DEF ChildCloses
    <2>2. CASE BpSettled
        <3>1. UNCHANGED <<completion, waiting>>  BY <2>1, <2>2 DEF SettleAfterClose
        <3>2. KillIsFollowed' /\ ResultIsFinal'  BY <1>k, <1>r, <2>1, <3>1 DEF KillIsFollowed, ResultIsFinal
        <3> QED  BY <1>q, <1>t, <2>1, <3>1, <3>2 DEF BpInv
    <2>3. CASE ~BpSettled /\ killWork = "running"
        <3>1. waiting' = TRUE /\ completion' = completion  BY <2>1, <2>3 DEF SettleAfterClose
        <3>2. KillIsFollowed' /\ ResultIsFinal'  BY <1>k, <1>r, <2>1, <2>3, <3>1 DEF KillIsFollowed, ResultIsFinal
        <3> QED  BY <1>q, <1>t, <2>1, <3>1, <3>2 DEF BpInv
    <2>4. CASE ~BpSettled /\ killWork # "running"
        <3>1. waiting' = waiting /\ completion' = (IF killWork = "failed" THEN BpRejected ELSE Resolved(stopReason))
            BY <2>1, <2>4 DEF SettleAfterClose
        <3>2. completion' \in Completions /\ completion'.is # "pending"  BY <1>t, <3>1, CompletionsTyped
        <3>3. completion'.is = "rejected" => killWork = "failed"  BY <1>t, <3>1, CompletionsTyped
        <3>4. completion'.is = "resolved" => killWork \in {"none", "done"} /\ completion'.reason = stopReason
            BY <1>t, <2>4, <3>1, CompletionsTyped
        <3>5. KillIsFollowed' /\ ResultIsFinal'
            BY <1>k, <2>1, <2>4, <3>1, <3>2, <3>3, <3>4 DEF KillIsFollowed, ResultIsFinal
        <3> QED  BY <1>q, <1>t, <2>1, <3>1, <3>2, <3>5 DEF BpInv
    <2> QED  BY <2>2, <2>3, <2>4
<1>4. CASE SpawnFails
    <2>1. /\ child = "running" /\ child' = "failed" /\ completion' = (IF BpSettled THEN completion ELSE BpRejected)
          /\ UNCHANGED <<outputSize, truncated, aborted, timers, stopReason, killWork, waiting>>
        BY <1>4 DEF SpawnFails
    <2>2. completion' \in Completions /\ completion'.is = "rejected"
        BY <1>t, <1>p, <1>r, <2>1, CompletionsTyped DEF Completions
    <2>3. KillIsFollowed' /\ ResultIsFinal'  BY <1>k, <2>1, <2>2 DEF KillIsFollowed, ResultIsFinal
    <2> QED  BY <1>q, <1>t, <2>1, <2>2, <2>3 DEF BpInv
<1>5. CASE BpAbort
    <2>1. aborted' = TRUE /\ Stop("ABORT") /\ UNCHANGED <<child, outputSize, truncated, timers>>  BY <1>5 DEF BpAbort
    <2>2. /\ stopReason' \in Reasons /\ killWork' \in {"none", "running", "done", "failed"}
          /\ waiting' \in BOOLEAN /\ completion' = completion /\ KillIsFollowed' /\ ResultIsFinal'
        BY <1>s, <1>t, <1>x, <2>1
    <2> QED  BY <1>q, <1>t, <2>1, <2>2 DEF BpInv
<1>6. CASE BpDeadline
    <2>1. timers' = timers \cup {"deadline"} /\ Stop("TIMEOUT") /\ UNCHANGED <<child, outputSize, truncated, aborted>>
        BY <1>6 DEF BpDeadline
    <2>2. /\ stopReason' \in Reasons /\ killWork' \in {"none", "running", "done", "failed"}
          /\ waiting' \in BOOLEAN /\ completion' = completion /\ KillIsFollowed' /\ ResultIsFinal'
        BY <1>s, <1>t, <1>x, <2>1
    <2>3. timers' \in SUBSET {"deadline", "settlement"}  BY <1>t, <2>1
    <2> QED  BY <1>q, <1>t, <2>1, <2>2, <2>3 DEF BpInv
<1>7. CASE KillDone
    <2>1. /\ killWork = "running" /\ killWork' = "done" /\ child' = (IF child = "running" THEN "exited" ELSE child)
          /\ waiting' = FALSE /\ completion' = (IF waiting /\ ~BpSettled THEN Resolved(stopReason) ELSE completion)
          /\ UNCHANGED <<outputSize, truncated, aborted, timers, stopReason>>
        BY <1>7 DEF KillDone
    <2>2. child' \in {"running", "exited", "closed", "failed"} /\ (child \in {"closed", "failed"} => child' = child)  BY <1>t, <2>1
    <2>3. CASE waiting /\ ~BpSettled
        <3>1. completion' = Resolved(stopReason) /\ child = "closed"  BY <1>k, <2>1, <2>3
        <3>2. completion' \in Completions /\ completion'.is = "resolved" /\ completion'.reason = stopReason
            BY <1>t, <3>1, CompletionsTyped
        <3>3. KillIsFollowed' /\ ResultIsFinal'  BY <1>k, <2>1, <2>2, <3>1, <3>2 DEF KillIsFollowed, ResultIsFinal
        <3> QED  BY <1>q, <1>t, <2>1, <2>2, <3>2, <3>3 DEF BpInv
    <2>4. CASE ~(waiting /\ ~BpSettled)
        <3>1. completion' = completion  BY <2>1, <2>4
        <3>2. KillIsFollowed' /\ ResultIsFinal'  BY <1>k, <1>r, <2>1, <2>2, <3>1 DEF KillIsFollowed, ResultIsFinal
        <3> QED  BY <1>q, <1>t, <2>1, <2>2, <3>1, <3>2 DEF BpInv
    <2> QED  BY <2>3, <2>4
<1>8. CASE KillFails
    <2>1. /\ killWork = "running" /\ killWork' = "failed" /\ waiting' = FALSE
          /\ completion' = (IF waiting /\ ~BpSettled THEN BpRejected ELSE completion)
          /\ UNCHANGED <<child, outputSize, truncated, aborted, timers, stopReason>>
        BY <1>8 DEF KillFails
    <2>2. completion' \in Completions /\ (completion'.is = "pending" => completion' = Pending) /\ completion'.is # "resolved"
        BY <1>t, <1>k, <1>r, <2>1, CompletionsTyped DEF Completions
    <2>3. KillIsFollowed' /\ ResultIsFinal'  BY <1>k, <2>1, <2>2 DEF KillIsFollowed, ResultIsFinal
    <2> QED  BY <1>q, <1>t, <2>1, <2>2, <2>3 DEF BpInv
<1>9. CASE FailSettlement
    <2>1. /\ stopReason # "none" /\ timers' = timers \cup {"settlement"} /\ completion' = BpRejected
          /\ UNCHANGED <<child, outputSize, truncated, aborted, stopReason, killWork, waiting>>
        BY <1>9 DEF FailSettlement
    <2>2. completion' \in Completions /\ completion'.is = "rejected"  BY <2>1, CompletionsTyped
    <2>3. KillIsFollowed' /\ ResultIsFinal'  BY <1>k, <2>1, <2>2 DEF KillIsFollowed, ResultIsFinal
    <2>4. timers' \in SUBSET {"deadline", "settlement"}  BY <1>t, <2>1
    <2> QED  BY <1>q, <1>t, <2>1, <2>2, <2>3, <2>4 DEF BpInv
<1>10. CASE UNCHANGED bpVars
    <2>1. KillIsFollowed' /\ ResultIsFinal'  BY <1>k, <1>r, <1>10 DEF KillIsFollowed, ResultIsFinal, bpVars
    <2> QED  BY <1>q, <1>t, <1>10, <2>1 DEF BpInv, bpVars
<1> QED  BY <1>1, <1>2, <1>3, <1>4, <1>5, <1>6, <1>7, <1>8, <1>9, <1>10 DEF BpNext

\* A child that was just spawned.
LEMMA BpInitInv == BpInit => BpInv
<1>1. BpInit => BpTypeOK
    <2>1. 0 \in 0..MaxOutput  BY OutputAssumption
    <2>2. "none" \in Reasons /\ {} \in SUBSET {"deadline", "settlement"}  BY DEF Reasons
    <2> QED  BY <2>1, <2>2, CompletionsTyped DEF BpInit, BpTypeOK, Completions
<1>2. BpInit => KillIsFollowed /\ ResultIsFinal  BY CompletionsTyped DEF BpInit, KillIsFollowed, ResultIsFinal
<1> QED  BY <1>1, <1>2 DEF BpInv

\* Process, timers, kill and completion keep their types.
THEOREM ProcessTyped == BpSpec => []BpTypeOK
<1>1. BpInv => BpTypeOK  BY DEF BpInv
<1> QED  BY <1>1, BpInitInv, BpStepInv, PTL DEF BpSpec

\* Whatever order exit, close, the kill, its deadline, the output limit and an abort come in,
\* a completion that resolves does so after the child has closed and no kill is under way, with
\* the first reason to stop, and truncated output is never a normal end (settleAfterClose).
THEOREM ProcessResultIsFinal == BpSpec => []ResultIsFinal
<1>1. BpInv => ResultIsFinal  BY DEF BpInv
<1> QED  BY <1>1, BpInitInv, BpStepInv, PTL DEF BpSpec

-----------------------------------------------------------------------------
(* The IPC exchange. *)

Ends      == {"broker", "impostor", "nobody"}
SendSteps == {"idle", "connect", "verify", "wait", "orphan"}
Jobs      == {"none", "peer", "decode", "dispatch", "check", "answer"}
Frames    == RawFrames \cup {GoodFrame, << >>}
RunNumbers == 0..Len(xState)
RunStates  == 0..MaxRunState
Replies    == [ok : BOOLEAN, run : RunNumbers, state : RunStates]

ExchangeTyped ==
    /\ xEndpoint \in Ends /\ xState \in Seq(RunStates) /\ xRuns \in [XRequests -> RunNumbers]
    /\ xHeld \in XClients \cup {NoOne} /\ xPc \in [XClients -> SendSteps] /\ xCmd \in [XClients -> XCommands]
    /\ xPeer \in [XClients -> Ends] /\ xWire \in [XClients -> Frames] /\ xGot \in [XClients -> 0..3]
    /\ xHandled \in [XClients -> BOOLEAN] /\ xJob \in [XClients -> Jobs] /\ xReply \in [XClients -> Replies]
    /\ xAccepted \in [XClients -> [XRequests -> RunNumbers]]

\* A reply that is not a rejection names a run.
ReplyNamesRun == \A c \in XClients : xReply[c].ok => xReply[c].run # NoRun

\* What send resolved is what acceptedRuns remembers.
Remembered ==
    \A x \in xResolved : /\ x[1] \in XClients /\ x[2] \in XRequests /\ x[3] # NoRun
                         /\ xAccepted[x[1]][x[2]] = x[3]

\* One exchange per connection: before its dispatch nothing has reached the daemon, and what
\* is dispatched was authenticated.
BeforeDispatch == {"peer", "decode", "dispatch"}
OneCommand ==
    \A c \in XClients :
        /\ xDispatched[c] \in {0, 1} /\ (c \in XRawPeers => xDispatched[c] = 0)
        /\ xJob[c] # "none" => xHandled[c]
        /\ ~xHandled[c] \/ xJob[c] \in BeforeDispatch => xDispatched[c] = 0
        /\ xJob[c] = "dispatch" => c \notin XRawPeers

TokenKept == "impostor" \notin xTokenSeen

ExchangeSafe == ReplyNamesRun /\ Remembered /\ OneCommand /\ TokenKept /\ xDispatched \in [XClients -> {0, 1}]

\* Frames are of three units at most.
LEMMA FramesAreShort == \A f \in Frames : Len(f) \in 0..3
BY DEF Frames, RawFrames, GoodFrame

\* A rejection names no run.
LEMMA RejectedTyped == ASSUME ExchangeTyped PROVE Rejected \in Replies /\ ~Rejected.ok
<1>1. 0 \in RunNumbers /\ 0 \in RunStates  BY ExchangeAssumption DEF RunNumbers, RunStates, ExchangeTyped
<1> QED  BY <1>1 DEF Rejected, Replies, NoRun

\* Before anything is sent.
LEMMA ExchangeInit == XInit => ExchangeTyped /\ ExchangeSafe
<1> SUFFICES ASSUME XInit PROVE ExchangeTyped /\ ExchangeSafe  OBVIOUS
<1>1. (CHOOSE q \in XRequests : TRUE) \in XRequests  BY ExchangeAssumption
<1>2. [type |-> "RUN", subject |-> CHOOSE q \in XRequests : TRUE] \in XCommands  BY <1>1 DEF XCommands
<1>3. xState = << >> /\ xState \in Seq(RunStates) /\ Len(xState) = 0  BY DEF XInit
<1>4. 0 \in RunNumbers /\ 0 \in RunStates  BY <1>3, ExchangeAssumption DEF RunNumbers, RunStates
<1>5. Rejected \in Replies /\ ~Rejected.ok  BY <1>4 DEF Rejected, Replies, NoRun
<1>6. xRuns \in [XRequests -> RunNumbers] /\ xAccepted \in [XClients -> [XRequests -> RunNumbers]]
    BY <1>4 DEF XInit, NoRun
<1>7. xReply \in [XClients -> Replies] /\ xCmd \in [XClients -> XCommands]  BY <1>2, <1>5 DEF XInit
<1>8. /\ xPc \in [XClients -> SendSteps] /\ xPeer \in [XClients -> Ends] /\ xWire \in [XClients -> Frames]
      /\ xGot \in [XClients -> 0..3] /\ xHandled \in [XClients -> BOOLEAN] /\ xJob \in [XClients -> Jobs]
    BY DEF XInit, SendSteps, Ends, Frames, Jobs
<1>9. ExchangeTyped  BY <1>3, <1>6, <1>7, <1>8 DEF XInit, ExchangeTyped, Ends
<1>10. ReplyNamesRun  BY <1>5 DEF XInit, ReplyNamesRun
<1>11. OneCommand /\ xDispatched \in [XClients -> {0, 1}]  BY DEF XInit, OneCommand
<1>12. Remembered /\ TokenKept  BY DEF XInit, Remembered, TokenKept
<1> QED  BY <1>9, <1>10, <1>11, <1>12 DEF ExchangeSafe

-----------------------------------------------------------------------------
\* Every step keeps the types.
LEMMA ExchangeTypedStep == ExchangeTyped /\ [XNext]_xVars => ExchangeTyped'
<1> SUFFICES ASSUME ExchangeTyped, [XNext]_xVars PROVE ExchangeTyped'  OBVIOUS
<1>a. xEndpoint \in Ends /\ xHeld \in XClients \cup {NoOne} /\ xPc \in [XClients -> SendSteps] /\ xPeer \in [XClients -> Ends]
    BY DEF ExchangeTyped
<1>b. xState \in Seq(RunStates) /\ xRuns \in [XRequests -> RunNumbers]  BY DEF ExchangeTyped
<1>c. xCmd \in [XClients -> XCommands] /\ xWire \in [XClients -> Frames] /\ xGot \in [XClients -> 0..3]  BY DEF ExchangeTyped
<1>d. xHandled \in [XClients -> BOOLEAN] /\ xJob \in [XClients -> Jobs]  BY DEF ExchangeTyped
<1>e. xReply \in [XClients -> Replies] /\ xAccepted \in [XClients -> [XRequests -> RunNumbers]]  BY DEF ExchangeTyped
<1>n. Len(xState) \in Nat /\ MaxRunState \in Nat  BY <1>b, ExchangeAssumption
\* As long as no run is added, numbers and replies are the same sets.
<1>q. ASSUME xEndpoint' \in Ends, xHeld' \in XClients \cup {NoOne}, xPc' \in [XClients -> SendSteps], xPeer' \in [XClients -> Ends],
             xState' \in Seq(RunStates), RunNumbers \subseteq RunNumbers', xRuns' \in [XRequests -> RunNumbers'],
             xCmd' \in [XClients -> XCommands], xWire' \in [XClients -> Frames], xGot' \in [XClients -> 0..3],
             xHandled' \in [XClients -> BOOLEAN], xJob' \in [XClients -> Jobs], xReply' \in [XClients -> Replies'],
             xAccepted' \in [XClients -> [XRequests -> RunNumbers']]
      PROVE  ExchangeTyped'
    BY <1>q DEF ExchangeTyped, RunStates, XCommands, Frames, RawFrames, GoodFrame, Ends, SendSteps, Jobs
<1>u. ASSUME xState' = xState PROVE RunNumbers' = RunNumbers /\ Replies' = Replies /\ xState' \in Seq(RunStates)
    BY <1>u, <1>b DEF RunNumbers, Replies, RunStates
<1>h. ASSUME NEW c \in XClients, Hangup(c)
      PROVE  xPeer' \in [XClients -> Ends] /\ xPc' \in [XClients -> SendSteps] /\ xHeld' \in XClients \cup {NoOne}
    <2>1. "nobody" \in Ends /\ "idle" \in SendSteps  BY DEF Ends, SendSteps
    <2> QED  BY <1>a, <1>h, <2>1 DEF Hangup, XGo
<1>j. "none" \in Jobs /\ "peer" \in Jobs /\ "decode" \in Jobs /\ "dispatch" \in Jobs /\ "check" \in Jobs /\ "answer" \in Jobs
    BY DEF Jobs
<1>g. "connect" \in SendSteps /\ "verify" \in SendSteps /\ "wait" \in SendSteps /\ "orphan" \in SendSteps /\ "nobody" \in Ends
    BY DEF SendSteps, Ends
<1>r. Rejected \in Replies  BY RejectedTyped
<1>1. ASSUME NEW c \in XClients, Send(c) PROVE ExchangeTyped'
    <2>1. UNCHANGED <<xEndpoint, xRuns, xState, xPeer, xJob, xReply, xAccepted>>  BY <1>1 DEF Send, xServer, xSeen
    <2>2. xHeld' \in XClients \cup {NoOne} /\ xPc' \in [XClients -> SendSteps]  BY <1>a, <1>g, <1>1 DEF Send, XGo
    <2>3. xCmd' \in [XClients -> XCommands]  BY <1>c, <1>1 DEF Send
    <2>4. xWire' \in [XClients -> Frames] /\ xGot' \in [XClients -> 0..3]
        <3>1. << >> \in Frames /\ 0 \in 0..3  BY DEF Frames
        <3> QED  BY <1>c, <1>1, <3>1 DEF Send
    <2>5. xHandled' \in [XClients -> BOOLEAN]  BY <1>d, <1>1 DEF Send
    <2> QED  BY <1>q, <1>u, <1>a, <1>b, <1>d, <1>e, <2>1, <2>2, <2>3, <2>4, <2>5
<1>2. ASSUME NEW c \in XClients, Connect(c) PROVE ExchangeTyped'
    <2>1. UNCHANGED <<xEndpoint, xRuns, xState, xCmd, xWire, xGot, xHandled, xJob, xReply, xAccepted>>
        BY <1>2 DEF Connect, xServer, xSeen
    <2>2. xPeer' \in [XClients -> Ends] /\ xPc' \in [XClients -> SendSteps] /\ xHeld' \in XClients \cup {NoOne}
        <3>1. CASE Hangup(c)  BY <1>h, <3>1
        <3>2. CASE ~ Hangup(c)  BY <1>a, <1>g, <1>2, <3>2 DEF Connect, XGo
        <3> QED  BY <3>1, <3>2
    <2> QED  BY <1>q, <1>u, <1>a, <1>b, <1>c, <1>d, <1>e, <2>1, <2>2
<1>3. ASSUME NEW c \in XClients, VerifyServer(c) PROVE ExchangeTyped'
    <2>1. UNCHANGED <<xEndpoint, xRuns, xState, xCmd, xGot, xHandled, xJob, xReply, xAccepted>>
        BY <1>3 DEF VerifyServer, xServer
    <2>2. /\ xPeer' \in [XClients -> Ends] /\ xPc' \in [XClients -> SendSteps] /\ xHeld' \in XClients \cup {NoOne}
          /\ xWire' \in [XClients -> Frames]
        <3>1. CASE Hangup(c) /\ xWire' = xWire  BY <1>c, <1>h, <3>1
        <3>2. CASE ~(Hangup(c) /\ xWire' = xWire)
            <4>1. UNCHANGED <<xPeer, xHeld>> /\ XGo(c, "wait") /\ \E f \in Frames : xWire' = [xWire EXCEPT ![c] = f]
                BY <1>3, <3>2 DEF VerifyServer, Frames
            <4> QED  BY <1>a, <1>c, <1>g, <4>1 DEF XGo
        <3> QED  BY <3>1, <3>2
    <2> QED  BY <1>q, <1>u, <1>a, <1>b, <1>c, <1>d, <1>e, <2>1, <2>2
<1>4. ASSUME NEW c \in XClients, NEW n \in 1..3, Receive(c, n) PROVE ExchangeTyped'
    <2>1. UNCHANGED <<xEndpoint, xRuns, xState, xHeld, xPc, xCmd, xPeer, xWire, xAccepted>>
        BY <1>4 DEF Receive, xServer, xSeen
    <2>2. xGot[c] + n \in 1..3
        <3>1. Len(xWire[c]) \in 0..3 /\ xGot[c] \in 0..3  BY <1>c, FramesAreShort
        <3>2. n \in 1..(Len(xWire[c]) - xGot[c])  BY <1>4 DEF Receive
        <3>3. \A l, g \in 0..3 : \A m \in 1..(l - g) : g + m \in 1..3  OBVIOUS
        <3> QED  BY <3>1, <3>2, <3>3
    <2>3. /\ xGot' \in {xGot, [xGot EXCEPT ![c] = xGot[c] + n]}
          /\ xHandled' \in {xHandled, [xHandled EXCEPT ![c] = TRUE]}
          /\ xJob' \in {xJob, [xJob EXCEPT ![c] = "answer"], [xJob EXCEPT ![c] = "peer"]}
          /\ xReply' \in {xReply, [xReply EXCEPT ![c] = Rejected]}
        BY <1>4 DEF Receive, Listener
    <2>4. xGot' \in [XClients -> 0..3]  BY <1>c, <2>2, <2>3
    <2>5. xHandled' \in [XClients -> BOOLEAN] /\ xJob' \in [XClients -> Jobs] /\ xReply' \in [XClients -> Replies]
        BY <1>d, <1>e, <1>j, <1>r, <2>3
    <2> QED  BY <1>q, <1>u, <1>a, <1>b, <1>c, <1>e, <2>1, <2>4, <2>5
<1>5. ASSUME NEW c \in XClients, Authenticate(c) PROVE ExchangeTyped'
    <2>1. UNCHANGED <<xEndpoint, xRuns, xState, xHeld, xPc, xCmd, xPeer, xWire, xGot, xHandled, xAccepted>>
        BY <1>5 DEF Authenticate, xServer, xSeen
    <2>2. xJob' \in [XClients -> Jobs] /\ xReply' \in [XClients -> Replies]  BY <1>d, <1>e, <1>j, <1>r, <1>5 DEF Authenticate
    <2> QED  BY <1>q, <1>u, <1>a, <1>b, <1>c, <1>d, <1>e, <2>1, <2>2
<1>6. ASSUME NEW c \in XClients, Dispatch(c) PROVE ExchangeTyped'
    <2>1. UNCHANGED <<xEndpoint, xHeld, xPc, xCmd, xPeer, xWire, xGot, xHandled, xAccepted>>  BY <1>6 DEF Dispatch, xSeen
    <2>2. \E j \in Jobs : xJob' = [xJob EXCEPT ![c] = j]  BY <1>j, <1>6 DEF Dispatch
    <2>3. xJob' \in [XClients -> Jobs]  BY <1>d, <2>2
    <2>4. xCmd[c] \in XCommands  BY <1>c
    <2>5. xCmd[c].type = "RUN" => xCmd[c].subject \in XRequests  BY <2>4 DEF XCommands
    <2>6. CASE xCmd[c].type = "RUN" /\ xRuns[xCmd[c].subject] = NoRun
        <3>1. /\ xState' = Append(xState, 0) /\ xRuns' = [xRuns EXCEPT ![xCmd[c].subject] = Len(xState')]
              /\ xReply' = [xReply EXCEPT ![c] = [ok |-> TRUE, run |-> Len(xState'), state |-> 0]]
            BY <1>6, <2>6 DEF Dispatch
        <3>2. 0 \in RunStates  BY <1>n DEF RunStates
        <3>3. xState' \in Seq(RunStates) /\ Len(xState') = Len(xState) + 1  BY <1>b, <3>1, <3>2
        <3>4. RunNumbers \subseteq RunNumbers' /\ Len(xState') \in RunNumbers'  BY <1>n, <3>3 DEF RunNumbers
        <3>5. xRuns' \in [XRequests -> RunNumbers']  BY <1>b, <2>5, <2>6, <3>1, <3>4
        <3>6. Replies' = [ok : BOOLEAN, run : RunNumbers', state : RunStates]  BY DEF Replies, RunStates
        <3>7. xReply' \in [XClients -> Replies']
            <4>1. [ok |-> TRUE, run |-> Len(xState'), state |-> 0] \in Replies' /\ Replies \subseteq Replies'
                BY <3>2, <3>4, <3>6 DEF Replies
            <4> QED  BY <1>e, <3>1, <4>1
        <3>8. xAccepted' \in [XClients -> [XRequests -> RunNumbers']]
            <4>1. [XRequests -> RunNumbers] \subseteq [XRequests -> RunNumbers']  BY <3>4
            <4> QED  BY <1>e, <2>1, <4>1
        <3> QED  BY <1>q, <1>a, <1>c, <1>d, <2>1, <2>3, <3>3, <3>4, <3>5, <3>7, <3>8
    <2>7. CASE ~(xCmd[c].type = "RUN" /\ xRuns[xCmd[c].subject] = NoRun)
        <3>1. UNCHANGED <<xState, xRuns>>  BY <1>6, <2>7 DEF Dispatch
        <3>2. /\ xReply' = [xReply EXCEPT ![c] = Rejected]
              \/ \E r \in RunNumbers : r # 0 /\ xReply' = [xReply EXCEPT ![c] = [ok |-> TRUE, run |-> r, state |-> xState[r]]]
            <4>1. CASE xCmd[c].type = "RUN"
                <5>1. xRuns[xCmd[c].subject] \in RunNumbers /\ xRuns[xCmd[c].subject] # 0  BY <1>b, <2>5, <2>7, <4>1 DEF NoRun
                <5> QED  BY <1>6, <2>7, <4>1, <5>1 DEF Dispatch
            <4>2. CASE xCmd[c].type # "RUN"
                <5>1. xCmd[c].subject \in 1..(MaxXFaults + 1)  BY <2>4, <4>2 DEF XCommands
                <5>2. (\E p \in XRequests : xRuns[p] = xCmd[c].subject) => xCmd[c].subject \in RunNumbers  BY <1>b
                <5> QED  BY <1>6, <2>7, <4>2, <5>1, <5>2 DEF Dispatch
            <4> QED  BY <4>1, <4>2
        <3>3. xReply' \in [XClients -> Replies]
            <4>1. \A r \in RunNumbers : r # 0 => xState[r] \in RunStates  BY <1>b, <1>n DEF RunNumbers
            <4>2. \A r \in RunNumbers : r # 0 => [ok |-> TRUE, run |-> r, state |-> xState[r]] \in Replies  BY <4>1 DEF Replies
            <4> QED  BY <1>e, <1>r, <3>2, <4>2
        <3> QED  BY <1>q, <1>u, <1>a, <1>b, <1>c, <1>d, <1>e, <2>1, <2>3, <3>1, <3>3
    <2> QED  BY <2>6, <2>7
<1>7. ASSUME NEW c \in XClients, VerifyDaemonReply(c) PROVE ExchangeTyped'
    <2>1. UNCHANGED <<xEndpoint, xRuns, xState, xHeld, xPc, xCmd, xPeer, xWire, xGot, xHandled, xAccepted>>
        BY <1>7 DEF VerifyDaemonReply, xServer, xSeen
    <2>2. \E r \in {xReply[c], Rejected} : xReply' = [xReply EXCEPT ![c] = r]  BY <1>7 DEF VerifyDaemonReply
    <2>3. xReply' \in [XClients -> Replies]  BY <1>e, <1>r, <2>2
    <2>4. xJob' \in [XClients -> Jobs]  BY <1>d, <1>j, <1>7 DEF VerifyDaemonReply
    <2> QED  BY <1>q, <1>u, <1>a, <1>b, <1>c, <1>d, <1>e, <2>1, <2>3, <2>4
<1>8. ASSUME NEW c \in XClients, Answer(c) PROVE ExchangeTyped'
    <2>1. UNCHANGED <<xEndpoint, xRuns, xState, xCmd, xWire, xGot, xHandled, xReply>>  BY <1>8 DEF Answer, xServer
    <2>2. xJob' \in [XClients -> Jobs]  BY <1>d, <1>j, <1>8 DEF Answer
    <2>3. xPeer' \in [XClients -> Ends] /\ xPc' \in [XClients -> SendSteps] /\ xHeld' \in XClients \cup {NoOne}
        <3>1. CASE Hangup(c)  BY <1>h, <3>1
        <3>2. CASE UNCHANGED <<xPeer, xPc, xHeld>>  BY <1>a, <3>2
        <3> QED  BY <1>8, <3>1, <3>2 DEF Answer
    <2>4. xAccepted' \in [XClients -> [XRequests -> RunNumbers]]
        <3>1. CASE xAccepted' = xAccepted  BY <1>e, <3>1
        <3>2. CASE xCmd[c].type = "RUN" /\ xAccepted' = [xAccepted EXCEPT ![c][xCmd[c].subject] = xReply[c].run]
            <4>1. xCmd[c] \in XCommands  BY <1>c
            <4>2. xCmd[c].subject \in XRequests  BY <3>2, <4>1 DEF XCommands
            <4>3. xReply[c].run \in RunNumbers  BY <1>e DEF Replies
            <4> QED  BY <1>e, <3>2, <4>2, <4>3
        <3> QED  BY <1>8, <3>1, <3>2 DEF Answer
    <2> QED  BY <1>q, <1>u, <1>a, <1>b, <1>c, <1>d, <1>e, <2>1, <2>2, <2>3, <2>4
<1>9. ASSUME NEW c \in XClients, Deadline(c) PROVE ExchangeTyped'
    <2>1. UNCHANGED <<xEndpoint, xRuns, xState, xCmd, xWire, xGot, xHandled, xJob, xReply, xAccepted>> /\ Hangup(c)
        BY <1>9 DEF Deadline, xServer, xSeen
    <2> QED  BY <1>q, <1>u, <1>h, <1>a, <1>b, <1>c, <1>d, <1>e, <2>1
<1>10. ASSUME NEW c \in XClients, PeerGone(c) PROVE ExchangeTyped'
    <2>1. UNCHANGED <<xEndpoint, xRuns, xState, xCmd, xWire, xGot, xHandled, xJob, xReply, xAccepted>>
        BY <1>10 DEF PeerGone, xServer, xSeen
    <2>2. xPeer' \in [XClients -> Ends] /\ xPc' \in [XClients -> SendSteps] /\ xHeld' \in XClients \cup {NoOne}
        <3>1. CASE Hangup(c)  BY <1>h, <3>1
        <3>2. CASE ~ Hangup(c)  BY <1>a, <1>g, <1>10, <3>2 DEF PeerGone, XGo
        <3> QED  BY <3>1, <3>2
    <2> QED  BY <1>q, <1>u, <1>a, <1>b, <1>c, <1>d, <1>e, <2>1, <2>2
<1>11. ASSUME NEW r \in XRuns, Advance(r) PROVE ExchangeTyped'
    <2>1. UNCHANGED <<xEndpoint, xRuns, xHeld, xPc, xCmd, xPeer, xWire, xGot, xHandled, xJob, xReply, xAccepted>>
        BY <1>11 DEF Advance, xConn, xSeen
    <2>2. xState' = [xState EXCEPT ![r] = xState[r] + 1] /\ xState[r] < MaxRunState /\ r \in 1..Len(xState)
        BY <1>11 DEF Advance, XRuns
    <2>3. xState[r] + 1 \in RunStates  BY <1>b, <1>n, <2>2 DEF RunStates
    <2>4. xState' \in Seq(RunStates) /\ Len(xState') = Len(xState)  BY <1>b, <2>2, <2>3
    <2>5. RunNumbers' = RunNumbers /\ Replies' = Replies  BY <2>4 DEF RunNumbers, Replies, RunStates
    <2> QED  BY <1>q, <1>a, <1>b, <1>c, <1>d, <1>e, <2>1, <2>4, <2>5
<1>12. ASSUME NEW e \in {"broker", "impostor", "nobody"}, ChangeEndpoint(e) PROVE ExchangeTyped'
    <2>1. /\ UNCHANGED <<xRuns, xState, xHeld, xPc, xCmd, xPeer, xWire, xGot, xHandled, xJob, xReply, xAccepted>>
          /\ xEndpoint' \in Ends
        BY <1>12 DEF ChangeEndpoint, xConn, xSeen, Ends
    <2> QED  BY <1>q, <1>u, <1>a, <1>b, <1>c, <1>d, <1>e, <2>1
<1>13. CASE ForgetRuns
    <2>1. UNCHANGED <<xEndpoint, xState, xHeld, xPc, xCmd, xPeer, xWire, xGot, xHandled, xJob, xReply, xAccepted>>
        BY <1>13 DEF ForgetRuns, xConn, xSeen
    <2>2. xRuns' \in [XRequests -> RunNumbers]
        <3>1. NoRun \in RunNumbers  BY <1>n DEF NoRun, RunNumbers
        <3> QED  BY <1>13, <3>1 DEF ForgetRuns
    <2> QED  BY <1>q, <1>u, <1>a, <1>b, <1>c, <1>d, <1>e, <2>1, <2>2
<1>14. CASE UNCHANGED xVars
    <2>1. UNCHANGED <<xEndpoint, xRuns, xState, xHeld, xPc, xCmd, xPeer, xWire, xGot, xHandled, xJob, xReply, xAccepted>>
        BY <1>14 DEF xVars, xServer, xConn, xSeen
    <2> QED  BY <1>q, <1>u, <1>a, <1>b, <1>c, <1>d, <1>e, <2>1
<1> QED  BY <1>1, <1>2, <1>3, <1>4, <1>5, <1>6, <1>7, <1>8, <1>9, <1>10, <1>11, <1>12, <1>13, <1>14 DEF XNext

-----------------------------------------------------------------------------
\* Every step keeps what the exchange promises.
LEMMA ExchangeSafeStep == ExchangeTyped /\ ExchangeSafe /\ [XNext]_xVars => ExchangeSafe'
<1> SUFFICES ASSUME ExchangeTyped, ExchangeSafe, [XNext]_xVars PROVE ExchangeSafe'  OBVIOUS
<1>i. ReplyNamesRun /\ Remembered /\ OneCommand /\ TokenKept /\ xDispatched \in [XClients -> {0, 1}]  BY DEF ExchangeSafe
<1>o. \A c \in XClients :
        /\ xDispatched[c] \in {0, 1} /\ (c \in XRawPeers => xDispatched[c] = 0)
        /\ xJob[c] # "none" => xHandled[c]
        /\ ~xHandled[c] \/ xJob[c] \in BeforeDispatch => xDispatched[c] = 0
        /\ xJob[c] = "dispatch" => c \notin XRawPeers
    BY <1>i DEF OneCommand
<1>c. xCmd \in [XClients -> XCommands]  BY DEF ExchangeTyped
<1>d. xHandled \in [XClients -> BOOLEAN] /\ xJob \in [XClients -> Jobs]  BY DEF ExchangeTyped
<1>e. xReply \in [XClients -> Replies] /\ xAccepted \in [XClients -> [XRequests -> RunNumbers]]  BY DEF ExchangeTyped
<1>b. xState \in Seq(RunStates) /\ xRuns \in [XRequests -> RunNumbers] /\ Len(xState) \in Nat  BY DEF ExchangeTyped
<1>r. ~Rejected.ok  BY RejectedTyped
\* The parts that a step leaves alone.
<1>m. ASSUME UNCHANGED <<xAccepted, xResolved>> PROVE Remembered'  BY <1>i, <1>m DEF Remembered
<1>k. ASSUME UNCHANGED <<xHandled, xJob, xDispatched>> PROVE OneCommand' /\ xDispatched' \in [XClients -> {0, 1}]
    BY <1>i, <1>k DEF OneCommand
<1>n. ASSUME UNCHANGED xReply PROVE ReplyNamesRun'  BY <1>i, <1>n DEF ReplyNamesRun
<1>p. ASSUME UNCHANGED xTokenSeen PROVE TokenKept'  BY <1>i, <1>p DEF TokenKept
<1>s. ASSUME ReplyNamesRun', Remembered', OneCommand', TokenKept', xDispatched' \in [XClients -> {0, 1}] PROVE ExchangeSafe'
    BY <1>s DEF ExchangeSafe
<1>f. ASSUME NEW c \in XClients, \/ xReply' = xReply \/ xReply' = [xReply EXCEPT ![c] = Rejected]
                                \/ \E r : r # NoRun /\ \E s : xReply' = [xReply EXCEPT ![c] = [ok |-> TRUE, run |-> r, state |-> s]]
      PROVE  ReplyNamesRun'
    <2>1. CASE xReply' = xReply  BY <1>n, <2>1
    <2>2. CASE xReply' = [xReply EXCEPT ![c] = Rejected]
        <3>1. \A d \in XClients : xReply'[d] = IF d = c THEN Rejected ELSE xReply[d]  BY <1>e, <2>2
        <3> QED  BY <1>i, <1>r, <3>1 DEF ReplyNamesRun
    <2>3. ASSUME NEW r, r # NoRun, NEW s, xReply' = [xReply EXCEPT ![c] = [ok |-> TRUE, run |-> r, state |-> s]]
          PROVE  ReplyNamesRun'
        <3>1. \A d \in XClients : xReply'[d] = IF d = c THEN [ok |-> TRUE, run |-> r, state |-> s] ELSE xReply[d]  BY <1>e, <2>3
        <3> QED  BY <1>i, <2>3, <3>1 DEF ReplyNamesRun
    <2> QED  BY <1>f, <2>1, <2>2, <2>3
<1>1. ASSUME NEW c \in XClients, Send(c) PROVE ExchangeSafe'
    <2>1. /\ UNCHANGED <<xJob, xReply, xAccepted, xResolved, xTokenSeen>> /\ xJob[c] = "none"
          /\ xHandled' = [xHandled EXCEPT ![c] = FALSE] /\ xDispatched' = [xDispatched EXCEPT ![c] = 0]
        BY <1>1 DEF Send, xSeen
    <2>2. /\ \A d \in XClients : xHandled'[d] = IF d = c THEN FALSE ELSE xHandled[d]
          /\ \A d \in XClients : xDispatched'[d] = IF d = c THEN 0 ELSE xDispatched[d]
          /\ xDispatched' \in [XClients -> {0, 1}]
        BY <1>d, <1>i, <2>1
    <2>3. OneCommand'  BY <1>o, <2>1, <2>2 DEF OneCommand, BeforeDispatch
    <2> QED  BY <1>m, <1>n, <1>p, <1>s, <2>1, <2>2, <2>3
<1>2. ASSUME NEW c \in XClients, Connect(c) \/ Deadline(c) \/ PeerGone(c) PROVE ExchangeSafe'
    <2>1. UNCHANGED <<xHandled, xJob, xReply, xDispatched, xAccepted, xResolved, xTokenSeen>>
        BY <1>2 DEF Connect, Deadline, PeerGone, xSeen
    <2> QED  BY <1>k, <1>m, <1>n, <1>p, <1>s, <2>1
\* The token is sent after verifyServer, which a client never skips.
<1>3. ASSUME NEW c \in XClients, VerifyServer(c) PROVE ExchangeSafe'
    <2>1. UNCHANGED <<xHandled, xJob, xReply, xDispatched, xAccepted, xResolved>>  BY <1>3 DEF VerifyServer
    <2>2. xTokenSeen' = xTokenSeen \/ xTokenSeen' = xTokenSeen \cup {"broker"}  BY <1>3 DEF VerifyServer
    <2>3. TokenKept'  BY <1>i, <2>2 DEF TokenKept
    <2> QED  BY <1>k, <1>m, <1>n, <1>s, <2>1, <2>3
<1>4. ASSUME NEW c \in XClients, NEW n \in 1..3, Receive(c, n) PROVE ExchangeSafe'
    <2>1. UNCHANGED <<xDispatched, xAccepted, xResolved, xTokenSeen>>  BY <1>4 DEF Receive, xSeen
    <2>2. \/ UNCHANGED <<xHandled, xJob, xReply>>
          \/ /\ ~xHandled[c] /\ xHandled' = [xHandled EXCEPT ![c] = TRUE]
             /\ \E j \in {"answer", "peer"} : xJob' = [xJob EXCEPT ![c] = j]
             /\ xReply' \in {xReply, [xReply EXCEPT ![c] = Rejected]}
        BY <1>4 DEF Receive, Listener
    <2>3. CASE UNCHANGED <<xHandled, xJob, xReply>>  BY <1>k, <1>m, <1>n, <1>p, <1>s, <2>1, <2>3
    <2>4. CASE ~ UNCHANGED <<xHandled, xJob, xReply>>
        <3>1. PICK j \in {"answer", "peer"} : xJob' = [xJob EXCEPT ![c] = j]  BY <2>2, <2>4
        <3>2. \A d \in XClients : /\ xHandled'[d] = IF d = c THEN TRUE ELSE xHandled[d]
                                  /\ xJob'[d] = IF d = c THEN j ELSE xJob[d]
            BY <1>d, <2>2, <2>4, <3>1
        <3>3. ~xHandled[c]  BY <2>2, <2>4
        <3>4. OneCommand'  BY <1>o, <2>1, <3>2, <3>3 DEF OneCommand, BeforeDispatch
        <3>5. ReplyNamesRun'  BY <1>f, <2>2, <2>4
        <3> QED  BY <1>i, <1>m, <1>p, <1>s, <2>1, <3>4, <3>5
    <2> QED  BY <2>3, <2>4
<1>5. ASSUME NEW c \in XClients, Authenticate(c) PROVE ExchangeSafe'
    <2>1. UNCHANGED <<xHandled, xDispatched, xAccepted, xResolved, xTokenSeen>>  BY <1>5 DEF Authenticate, xSeen
    <2>2. PICK j \in {"decode", "dispatch", "answer"} :
            /\ xJob' = [xJob EXCEPT ![c] = j] /\ xJob[c] \in {"peer", "decode"}
            /\ j = "dispatch" => c \notin XRawPeers
            /\ xReply' = xReply \/ xReply' = [xReply EXCEPT ![c] = Rejected]
        BY <1>5 DEF Authenticate
    <2>3. \A d \in XClients : xJob'[d] = IF d = c THEN j ELSE xJob[d]  BY <1>d, <2>2
    <2>4. OneCommand'  BY <1>o, <2>1, <2>2, <2>3 DEF OneCommand, BeforeDispatch
    <2>5. ReplyNamesRun'  BY <1>f, <2>2
    <2> QED  BY <1>i, <1>m, <1>p, <1>s, <2>1, <2>4, <2>5
<1>6. ASSUME NEW c \in XClients, Dispatch(c) PROVE ExchangeSafe'
    <2>1. /\ UNCHANGED <<xHandled, xAccepted, xResolved, xTokenSeen>> /\ xJob[c] = "dispatch"
          /\ xDispatched' = [xDispatched EXCEPT ![c] = xDispatched[c] + 1]
        BY <1>6 DEF Dispatch, xSeen
    <2>2. PICK j \in {"check", "answer"} : xJob' = [xJob EXCEPT ![c] = j]  BY <1>6 DEF Dispatch
    <2>3. xDispatched[c] = 0 /\ c \notin XRawPeers /\ xHandled[c]  BY <1>o, <2>1 DEF BeforeDispatch
    <2>4. /\ \A d \in XClients : xDispatched'[d] = IF d = c THEN 1 ELSE xDispatched[d]
          /\ \A d \in XClients : xJob'[d] = IF d = c THEN j ELSE xJob[d]
          /\ xDispatched' \in [XClients -> {0, 1}]
        BY <1>d, <1>i, <2>1, <2>2, <2>3
    <2>5. OneCommand'  BY <1>o, <2>1, <2>3, <2>4 DEF OneCommand, BeforeDispatch
    <2>6. xCmd[c] \in XCommands  BY <1>c
    <2>7. \/ xReply' = [xReply EXCEPT ![c] = Rejected]
          \/ \E r : r # NoRun /\ \E s : xReply' = [xReply EXCEPT ![c] = [ok |-> TRUE, run |-> r, state |-> s]]
        <3>1. CASE xCmd[c].type = "RUN" /\ xRuns[xCmd[c].subject] = NoRun
            <4>1. /\ xState' = Append(xState, 0)
                  /\ xReply' = [xReply EXCEPT ![c] = [ok |-> TRUE, run |-> Len(xState'), state |-> 0]]
                BY <1>6, <3>1 DEF Dispatch
            <4>2. 0 \in RunStates  BY ExchangeAssumption DEF RunStates
            <4>3. Len(xState') = Len(xState) + 1  BY <1>b, <4>1, <4>2
            <4>4. Len(xState') # NoRun  BY <1>b, <4>3 DEF NoRun
            <4> QED  BY <4>1, <4>4
        <3>2. CASE xCmd[c].type = "RUN" /\ xRuns[xCmd[c].subject] # NoRun
            BY <1>6, <3>2 DEF Dispatch
        <3>3. CASE xCmd[c].type # "RUN"
            <4>1. xCmd[c].subject \in 1..(MaxXFaults + 1)  BY <2>6, <3>3 DEF XCommands
            <4>2. xCmd[c].subject # NoRun  BY <4>1 DEF NoRun
            <4> QED  BY <1>6, <3>3, <4>2 DEF Dispatch
        <3> QED  BY <3>1, <3>2, <3>3
    <2>8. ReplyNamesRun'  BY <1>f, <2>7
    <2> QED  BY <1>m, <1>p, <1>s, <2>1, <2>4, <2>5, <2>8
<1>7. ASSUME NEW c \in XClients, VerifyDaemonReply(c) PROVE ExchangeSafe'
    <2>1. /\ UNCHANGED <<xHandled, xDispatched, xAccepted, xResolved, xTokenSeen>>
          /\ xJob[c] = "check" /\ xJob' = [xJob EXCEPT ![c] = "answer"]
        BY <1>7 DEF VerifyDaemonReply, xSeen
    <2>2. \A d \in XClients : xJob'[d] = IF d = c THEN "answer" ELSE xJob[d]  BY <1>d, <2>1
    <2>3. OneCommand'  BY <1>o, <2>1, <2>2 DEF OneCommand, BeforeDispatch
    <2>4. xReply' = [xReply EXCEPT ![c] = xReply[c]] \/ xReply' = [xReply EXCEPT ![c] = Rejected]  BY <1>7 DEF VerifyDaemonReply
    <2>5. xReply' = xReply \/ xReply' = [xReply EXCEPT ![c] = Rejected]  BY <1>e, <2>4
    <2>6. ReplyNamesRun'  BY <1>f, <2>5
    <2> QED  BY <1>i, <1>m, <1>p, <1>s, <2>1, <2>3, <2>6
\* A run is handed to the caller only if it is the remembered one or the first.
<1>8. ASSUME NEW c \in XClients, Answer(c) PROVE ExchangeSafe'
    <2>1. /\ UNCHANGED <<xHandled, xReply, xDispatched, xTokenSeen>>
          /\ xJob[c] = "answer" /\ xJob' = [xJob EXCEPT ![c] = "none"]
        BY <1>8 DEF Answer
    <2>2. \A d \in XClients : xJob'[d] = IF d = c THEN "none" ELSE xJob[d]  BY <1>d, <2>1
    <2>3. OneCommand'  BY <1>o, <2>1, <2>2 DEF OneCommand, BeforeDispatch
    <2>4. Remembered'
        <3>1. CASE UNCHANGED <<xAccepted, xResolved>>  BY <1>m, <3>1
        <3>2. CASE ~ UNCHANGED <<xAccepted, xResolved>>
            <4>1. /\ xReply[c].ok /\ xCmd[c].type = "RUN" /\ Acceptable(c, xReply[c])
                  /\ xAccepted' = [xAccepted EXCEPT ![c][xCmd[c].subject] = xReply[c].run]
                  /\ xResolved' = xResolved \cup {<<c, xCmd[c].subject, xReply[c].run>>}
                BY <1>8, <3>2 DEF Answer
            <4>2. PICK q \in XRequests : q = xCmd[c].subject
                <5>1. xCmd[c] \in XCommands  BY <1>c
                <5> QED  BY <4>1, <5>1 DEF XCommands
            <4>3. PICK r : r = xReply[c].run /\ r # NoRun  BY <1>i, <4>1 DEF ReplyNamesRun
            <4>4. xAccepted[c][q] \in {NoRun, r}  BY <4>1, <4>2, <4>3 DEF Acceptable
            <4>5. \A d \in XClients, p \in XRequests : xAccepted'[d][p] = IF d = c /\ p = q THEN r ELSE xAccepted[d][p]
                BY <1>e, <4>1, <4>2, <4>3
            <4>6. \A x \in xResolved : /\ x[1] \in XClients /\ x[2] \in XRequests /\ x[3] # NoRun
                                       /\ xAccepted'[x[1]][x[2]] = x[3]
                BY <1>i, <4>4, <4>5 DEF Remembered
            <4>7. xResolved' = xResolved \cup {<<c, q, r>>} /\ xAccepted'[c][q] = r  BY <4>1, <4>2, <4>3, <4>5
            <4> QED  BY <4>3, <4>6, <4>7 DEF Remembered
        <3> QED  BY <3>1, <3>2
    <2> QED  BY <1>i, <1>n, <1>p, <1>s, <2>1, <2>3, <2>4
<1>9. ASSUME (\E r \in XRuns : Advance(r)) \/ (\E e \in {"broker", "impostor", "nobody"} : ChangeEndpoint(e)) \/ ForgetRuns
      PROVE  ExchangeSafe'
    <2>1. UNCHANGED <<xHandled, xJob, xReply, xDispatched, xAccepted, xResolved, xTokenSeen>>
        BY <1>9 DEF Advance, ChangeEndpoint, ForgetRuns, xConn, xSeen
    <2> QED  BY <1>k, <1>m, <1>n, <1>p, <1>s, <2>1
<1>10. CASE UNCHANGED xVars
    <2>1. UNCHANGED <<xHandled, xJob, xReply, xDispatched, xAccepted, xResolved, xTokenSeen>>
        BY <1>10 DEF xVars, xConn, xSeen
    <2> QED  BY <1>k, <1>m, <1>n, <1>p, <1>s, <2>1
<1> QED  BY <1>1, <1>2, <1>3, <1>4, <1>5, <1>6, <1>7, <1>8, <1>9, <1>10 DEF XNext

\* Connections, exchanges and replies keep their types.
THEOREM ExchangesTyped == XSpec => []XTypeOK
<1>1. ExchangeTyped => XTypeOK
    <2> SUFFICES ASSUME ExchangeTyped PROVE XTypeOK  OBVIOUS
    <2>1. \A r \in XRuns : xState[r] \in 0..MaxRunState  
        <3>1. xState \in Seq(RunStates)  BY DEF ExchangeTyped
        <3>2. \A r \in 1..Len(xState) : xState[r] \in RunStates  BY <3>1
        <3> QED  BY <3>2 DEF XRuns, RunStates
    <2> QED  BY <2>1 DEF ExchangeTyped, XTypeOK, Ends, SendSteps, Jobs, RunNumbers
<1> QED  BY <1>1, ExchangeInit, ExchangeTypedStep, PTL DEF XSpec

\* However frames are cut, endpoints change hands and brokers lose their state, a client never
\* hands out two runs for a request, at most one command of a connection and none of an
\* unauthenticated peer is dispatched, and no impostor sees the token
\* (createBrokerIpcClient.send, the connection listener and exchange).
THEOREM ExchangesAreSound == XSpec => []ExchangeSound
<1>1. ExchangeSafe => ExchangeSound
    <2> SUFFICES ASSUME ExchangeSafe PROVE ExchangeSound  OBVIOUS
    <2>1. OneRunPerRequest  BY DEF ExchangeSafe, Remembered, OneRunPerRequest
    <2>2. ExchangeGuarded  BY DEF ExchangeSafe, OneCommand, TokenKept, ExchangeGuarded
    <2> QED  BY <2>1, <2>2 DEF ExchangeSound
<1> QED  BY <1>1, ExchangeInit, ExchangeTypedStep, ExchangeSafeStep, PTL DEF XSpec

-----------------------------------------------------------------------------
(* All of what must come to an end. *)

\* The components share no state: a behaviour of all of them, fair or not, is one of each.
LEMMA EachByItself == ProgressSpec => Spec /\ BpSpec /\ XSpec /\ SbSpec /\ WtSpec
<1>1. ProgressInit => Init /\ BpInit /\ XInit /\ SbInit /\ WtInit
    BY DEF ProgressInit
<1>2. ASSUME [ProgressNext]_progressVars
      PROVE  [Next]_vars /\ [BpNext]_bpVars /\ [XNext]_xVars /\ [SbNext]_sbVars /\ [WtNext]_wtVars
    BY <1>2 DEF ProgressNext, progressVars, HostMoves, ProcessMoves, ExchangeMoves, SandboxMoves, WorktreeMoves
<1> QED  BY <1>1, <1>2, PTL DEF ProgressSpec, Spec, BpSpec, XSpec, SbSpec, WtSpec

\* Every variable of the control plane, of a bounded process, of the IPC exchange, of the
\* sandbox and of the worktree manager has its type.
THEOREM ProgressTyped == ProgressSpec => []ProgressTypeOK
<1>1. TypeOK /\ BpTypeOK /\ XTypeOK /\ SbTypeOK /\ WtTypeOK => ProgressTypeOK
    BY DEF ProgressTypeOK
<1> QED  BY <1>1, EachByItself, HostControlTyped, ProcessTyped, ExchangesTyped, SandboxTyped, WorktreesTyped, PTL

\* What is reached under the fairness of the run is reached soundly: while everything comes
\* to its end, a settled process keeps its result, every exchange is sound, and an execution
\* that was terminated is gone.
THEOREM ProgressIsSound == ProgressSpec => [](ResultIsFinal /\ ExchangeSound /\ TerminatedIsGone)
BY EachByItself, ProcessResultIsFinal, ExchangesAreSound, TerminateIsFinal, PTL
=============================================================================
