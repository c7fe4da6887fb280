----------------------------- MODULE HostControl -----------------------------
(***************************************************************************)
(* composeRuntimeHostControlV4 (host-composition.ts) for one run: which    *)
(* control call schedules a pipeline flight, what a failing flight leaves  *)
(* behind, abort, verdict, finalize, close and restart.                    *)
(*                                                                         *)
(* `Callers` are the control calls under way at once; every await ends an  *)
(* action.  The host's operations are external: advance records what the   *)
(* state of the run calls for until nothing is left to do, or throws;      *)
(* prepareRepair and stopExternal return or throw; finalize journals the   *)
(* commit (Publication has its steps).  The daemon is its reducer          *)
(* (BrokerDaemon has how it persists); a call of a closed daemon throws.   *)
(***************************************************************************)
EXTENDS RunState, FiniteSets

CONSTANTS
    Callers,      \* bound: concurrent control calls
    NumFlights,   \* bound: flights alive at once
    MaxAttempts,  \* executor attempts the host's budget allows
    MaxFaults     \* bound: thrown calls, closes and crashes

ASSUME HostSizes == NumFlights \in Nat \ {0} /\ MaxAttempts \in Nat \ {0} /\ MaxFaults \in Nat

VARIABLES
    run,       \* the run, as the daemon reduced it
    flights,   \* the entry of the `flights` map for the run
    flight,    \* every flight that is alive: what it is about to record
    aborting,  \* the run is in the `aborting` set
    closing,   \* NotClosing, or the flight that close() awaits
    pc,        \* where each control call is
    faults

host == <<flights, flight, aborting, closing>>
vars == <<run, host, pc, faults>>

Flights      == 1..NumFlights
NoFlight     == 0
NotClosing   == -1
AdvanceTypes == {"EXTERNAL_PROCESS_STARTED", "ATTEMPT_RECORDED", "PATHS_REINSPECTED", "CANDIDATE_ACCEPTED"}
AbortSteps   == {"stop", "abort"}
Steps        == AbortSteps \cup {"idle", "prepare", "schedule", "status", "verdict", "finalize"}

Goto(c, l) == pc' = [pc EXCEPT ![c] = l]

Daemon(e) == IF RunPermits(run, e) THEN run' = RunAfter(run, e) ELSE UNCHANGED run

This(type, arg) == Command(type, 1, arg)

Init ==
    /\ run = AcceptedRun
    /\ flights = NoFlight /\ flight = [f \in Flights |-> "none"] /\ aborting = FALSE /\ closing = NotClosing
    /\ pc = [c \in Callers |-> "idle"] /\ faults = 0

-----------------------------------------------------------------------------
(* schedule and the flight. *)

\* A submission that the daemon answers with this run.
Submit(c) ==
    /\ pc[c] = "idle" /\ Goto(c, "schedule")
    /\ UNCHANGED <<run, host, faults>>

\* The check that schedule makes before it awaits daemon.status.
Schedule(c) ==
    /\ pc[c] = "schedule"
    /\ Goto(c, IF closing # NotClosing \/ flights # NoFlight THEN "idle" ELSE "status")
    /\ UNCHANGED <<run, host, faults>>

\* Back from the await nothing is checked again but the state of the run.
StartFlight(c) ==
    /\ pc[c] = "status" /\ Goto(c, "idle")
    /\ IF run.state \in Ended THEN UNCHANGED host
       ELSE \E f \in Flights :
              /\ flight[f] = "none" /\ flight' = [flight EXCEPT ![f] = "advance"] /\ flights' = f
              /\ UNCHANGED <<aborting, closing>>
    /\ UNCHANGED <<run, faults>>

\* Mutant: the pipeline goes past the review by itself.
WantedCommit ==
    CASE run.state = "READY_FOR_EXECUTOR" -> {"EXTERNAL_PROCESS_STARTED", "CANDIDATE_ACCEPTED"}
      [] run.state = "EXECUTION_STARTED"     -> {"ATTEMPT_RECORDED"}
      [] run.state = "AWAITING_REINSPECTION" -> {"PATHS_REINSPECTED"}
      [] run.state = "REVIEW_ACCEPTED"       -> {"COMMIT_CREATED"}
      [] OTHER -> {}

\* What the host's advance does in the state it reads.
Wanted ==
    CASE run.state = "READY_FOR_EXECUTOR" ->
           {type \in {"EXTERNAL_PROCESS_STARTED", "CANDIDATE_ACCEPTED"} :
              IF type = "CANDIDATE_ACCEPTED" THEN run.attempts > 0 ELSE run.attempts < MaxAttempts}
      [] run.state = "EXECUTION_STARTED"     -> {"ATTEMPT_RECORDED"}
      [] run.state = "AWAITING_REINSPECTION" -> {"PATHS_REINSPECTED"}
      [] OTHER -> {}

AdvanceReads(f) ==
    /\ flight[f] = "advance" /\ \E type \in Wanted : flight' = [flight EXCEPT ![f] = type]
    /\ UNCHANGED <<run, flights, aborting, closing, pc, faults>>

AdvanceEvent(f) ==
    This(flight[f], CASE flight[f] = "ATTEMPT_RECORDED"   -> run.attempts + 1
                      [] flight[f] = "PATHS_REINSPECTED"  -> run.epoch + 1
                      [] flight[f] = "CANDIDATE_ACCEPTED" -> 1
                      [] OTHER -> None)

\* The daemon takes the record, or throws and so does advance.
AdvanceRecords(f) ==
    /\ flight[f] \in AdvanceTypes /\ Daemon(AdvanceEvent(f))
    /\ flight' = [flight EXCEPT ![f] = IF RunPermits(run, AdvanceEvent(f)) THEN "advance" ELSE "failing"]
    /\ UNCHANGED <<flights, aborting, closing, pc, faults>>

AdvanceThrows(f) ==
    /\ flight[f] \in AdvanceTypes \cup {"advance"} /\ flight' = [flight EXCEPT ![f] = "failing"]
    /\ UNCHANGED <<run, flights, aborting, closing, pc, faults>>

\* Mutant: the entry of the map outlives the flight.
EndFlightKeepsEntry(f) ==
    flight' = [flight EXCEPT ![f] = "none"] /\ UNCHANGED <<flights, aborting, closing, pc, faults>>

\* finally: whatever entry the map holds for the run is deleted.
EndFlight(f) ==
    /\ flight' = [flight EXCEPT ![f] = "none"] /\ flights' = NoFlight
    /\ UNCHANGED <<aborting, closing, pc, faults>>

FlightReturns(f) == flight[f] = "advance" /\ Wanted = {} /\ EndFlight(f) /\ UNCHANGED run

\* The failure is recorded, unless an abort is under way or the daemon refuses.
FlightFails(f) ==
    /\ flight[f] = "failing" /\ EndFlight(f)
    /\ IF aborting THEN UNCHANGED run ELSE Daemon(This("RUN_FAILED", None))

-----------------------------------------------------------------------------
(* The control plane. *)

Repair(c) ==
    /\ pc[c] = "idle" /\ flights = NoFlight /\ Goto(c, "prepare")
    /\ UNCHANGED <<run, host, faults>>

PrepareRepair(c) ==
    /\ pc[c] = "prepare" /\ Goto(c, "schedule")
    /\ UNCHANGED <<run, host, faults>>

Finalize(c) ==
    /\ pc[c] = "idle" /\ flights = NoFlight /\ Goto(c, "finalize")
    /\ UNCHANGED <<run, host, faults>>

RecordCommit(c) ==
    /\ pc[c] = "finalize" /\ Goto(c, "idle") /\ Daemon(This("COMMIT_CREATED", run.tree))
    /\ UNCHANGED <<host, faults>>

SubmitVerdict(c) ==
    /\ pc[c] = "idle" /\ flights = NoFlight /\ run.state = "REVIEW_ACCEPTED" /\ Goto(c, "verdict")
    /\ UNCHANGED <<run, host, faults>>

\* APPROVED ends the call, REJECTED prepares a repair.  The verdict that is journaled is
\* answered again; any other is refused, and throws.
RecordVerdict(c) ==
    /\ pc[c] = "verdict" /\ Daemon(This("REVIEW_VERDICT_RECORDED", run.tree))
    /\ \E l \in {"idle", "prepare"} :
          Goto(c, IF run.verdict \/ RunPermits(run, This("REVIEW_VERDICT_RECORDED", run.tree)) THEN l ELSE "idle")
    /\ UNCHANGED <<host, faults>>

Abort(c) ==
    /\ pc[c] = "idle" /\ Goto(c, "stop") /\ aborting' = TRUE
    /\ UNCHANGED <<run, flights, flight, closing, faults>>

StopExternal(c) ==
    /\ pc[c] = "stop" /\ Goto(c, "abort")
    /\ UNCHANGED <<run, host, faults>>

\* A refused abort throws, and the catch takes the run out of `aborting`; the abort that is
\* journaled is answered again.
RecordAbort(c) ==
    /\ pc[c] = "abort" /\ Goto(c, "idle") /\ Daemon(This("RUN_ABORTED", None))
    /\ aborting' = (run.state = "ABORTED" \/ RunPermits(run, This("RUN_ABORTED", None)))
    /\ UNCHANGED <<flights, flight, closing, faults>>

-----------------------------------------------------------------------------
(* Faults, close and restart. *)

\* An awaited call of a control call throws.
Throw(c) ==
    /\ pc[c] # "idle" /\ faults < MaxFaults /\ faults' = faults + 1 /\ Goto(c, "idle")
    /\ aborting' = (aborting /\ pc[c] \notin AbortSteps)
    /\ UNCHANGED <<run, flights, flight, closing>>

\* The process ends; recovery fails the run of an external process that it cannot reconcile.
Restart ==
    /\ flights' = NoFlight /\ flight' = [f \in Flights |-> "none"] /\ aborting' = FALSE /\ closing' = NotClosing
    /\ pc' = [c \in Callers |-> "idle"]
    /\ UNCHANGED run \/ (run.external_process /\ run' = RunAfter(run, This("RUN_FAILED", None)))

Crash == faults < MaxFaults /\ faults' = faults + 1 /\ Restart

\* close: no further scheduling, and the flight in the map is awaited.
Close ==
    /\ closing = NotClosing /\ faults < MaxFaults /\ faults' = faults + 1 /\ closing' = flights
    /\ UNCHANGED <<run, flights, flight, aborting, pc>>

Exit ==
    /\ closing # NotClosing /\ (closing # NoFlight => flight[closing] = "none")
    /\ Restart /\ UNCHANGED faults

-----------------------------------------------------------------------------
CallStep(c) ==
    \/ Schedule(c) \/ StartFlight(c) \/ PrepareRepair(c) \/ RecordCommit(c) \/ RecordVerdict(c)
    \/ StopExternal(c) \/ RecordAbort(c)

Call(c) == Submit(c) \/ Repair(c) \/ Finalize(c) \/ SubmitVerdict(c) \/ Abort(c)

FlightStep(f) ==
    AdvanceReads(f) \/ AdvanceRecords(f) \/ AdvanceThrows(f) \/ FlightReturns(f) \/ FlightFails(f)

Next ==
    \/ \E c \in Callers : CallStep(c) \/ Call(c) \/ Throw(c)
    \/ \E f \in Flights : FlightStep(f)
    \/ Crash \/ Close \/ Exit

Spec == Init /\ [][Next]_vars

\* Calls and flights settle, close ends the process, and the submission is replayed.
Fair ==
    /\ WF_vars(Exit)
    /\ \A c \in Callers : WF_vars(CallStep(c)) /\ SF_vars(Submit(c))
    /\ \A f \in Flights : WF_vars(FlightStep(f))

-----------------------------------------------------------------------------
(* Properties. *)

\* Every variable has its type.
TypeOK ==
    /\ run \in RunRecords
    /\ flights \in Flights \cup {NoFlight} /\ flight \in [Flights -> AdvanceTypes \cup {"none", "advance", "failing"}]
    /\ aborting \in BOOLEAN /\ closing \in Flights \cup {NoFlight, NotClosing}
    /\ pc \in [Callers -> Steps] /\ faults \in 0..MaxFaults

\* One scheduled pipeline flight: replaying a submission does not schedule duplicate work.
OneFlight == Cardinality({f \in Flights : flight[f] # "none"}) <= 1

\* The run is where a client decides, or ended.
Settled == run.state \in Ended \cup {"REVIEW_ACCEPTED", "READY_FOR_PUBLICATION"}

\* An accepted run does not stay half-executed: whatever throws, whenever it is aborted and
\* whenever the process ends, replaying the submission (schedule) brings it to where a client
\* decides or to its end.
RunSettles == <>[]Settled
=============================================================================
