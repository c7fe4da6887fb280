--------------------------- MODULE BoundedProcess ---------------------------
(***************************************************************************)
(* startBoundedProcessV4 (bounded-process.ts): one child process, its      *)
(* deadline, output limit and abort signal, the kill of its process tree,  *)
(* and the one completion that all callbacks race to settle.               *)
(***************************************************************************)
EXTENDS Naturals

CONSTANTS MaxOutput   \* max_output_bytes, in chunks

ASSUME OutputAssumption == MaxOutput \in Nat \ {0}

VARIABLES
    child,        \* the process: running, exited with its pipes still open, closed, failed to spawn
    outputSize,   \* stdoutSize
    truncated,    \* stdoutTruncated
    aborted,      \* the caller's signal
    timers,       \* timers that have fired
    stopReason,   \* termination
    killWork,     \* terminationWork
    waiting,      \* a settleAfterClose that awaits terminationWork
    completion    \* the promise: pending, resolved with a termination, rejected

bpVars == <<child, outputSize, truncated, aborted, timers, stopReason, killWork, waiting, completion>>

Reasons     == {"none", "ABORT", "OUTPUT_LIMIT", "TIMEOUT"}
Pending     == [is |-> "pending", reason |-> "none"]
BpRejected    == [is |-> "rejected", reason |-> "none"]
Resolved(r) == [is |-> "resolved", reason |-> r]
BpSettled     == completion # Pending

BpInit ==
    /\ child = "running" /\ outputSize = 0 /\ truncated = FALSE /\ aborted = FALSE /\ timers = {}
    /\ stopReason = "none" /\ killWork = "none" /\ waiting = FALSE /\ completion = Pending

-----------------------------------------------------------------------------
\* Mutant: the kill is not waited for.
SettleAtOnce(closed, kill, reason) ==
    /\ UNCHANGED waiting
    /\ completion' = (IF BpSettled \/ ~closed THEN completion ELSE IF kill = "failed" THEN BpRejected ELSE Resolved(reason))

\* settleAfterClose: after the kill, if there is one; a kill that failed rejects.
SettleAfterClose(closed, kill, reason) ==
    IF BpSettled \/ ~closed THEN UNCHANGED <<completion, waiting>>
    ELSE IF kill = "running" THEN waiting' = TRUE /\ UNCHANGED completion
    ELSE UNCHANGED waiting /\ completion' = (IF kill = "failed" THEN BpRejected ELSE Resolved(reason))

\* stop: the first reason wins; the tree is killed, the settlement timer starts.
Stop(reason) ==
    IF stopReason # "none" \/ BpSettled THEN UNCHANGED <<stopReason, killWork, completion, waiting>>
    ELSE /\ stopReason' = reason /\ killWork' = "running"
         /\ SettleAfterClose(child = "closed", "running", reason)

ChildWrites ==
    /\ child = "running" /\ outputSize <= MaxOutput
    /\ outputSize' = (IF outputSize = MaxOutput THEN outputSize ELSE outputSize + 1)
    /\ truncated' = (outputSize = MaxOutput)
    /\ IF truncated' THEN Stop("OUTPUT_LIMIT") ELSE UNCHANGED <<stopReason, killWork, completion, waiting>>
    /\ UNCHANGED <<child, aborted, timers>>

\* Descendants may hold the pipes open after the child has exited.
ChildExits ==
    /\ child = "running" /\ child' = "exited"
    /\ UNCHANGED <<outputSize, truncated, aborted, timers, stopReason, killWork, waiting, completion>>

ChildCloses ==
    /\ child = "exited" /\ child' = "closed" /\ SettleAfterClose(TRUE, killWork, stopReason)
    /\ UNCHANGED <<outputSize, truncated, aborted, timers, stopReason, killWork>>

SpawnFails ==
    /\ child = "running" /\ outputSize = 0 /\ child' = "failed"
    /\ completion' = (IF BpSettled THEN completion ELSE BpRejected)
    /\ UNCHANGED <<outputSize, truncated, aborted, timers, stopReason, killWork, waiting>>

BpAbort ==
    /\ ~aborted /\ aborted' = TRUE /\ Stop("ABORT")
    /\ UNCHANGED <<child, outputSize, truncated, timers>>

BpDeadline ==
    /\ "deadline" \notin timers /\ ~BpSettled /\ timers' = timers \cup {"deadline"} /\ Stop("TIMEOUT")
    /\ UNCHANGED <<child, outputSize, truncated, aborted>>

\* terminateTree: SIGKILL to the group, or taskkill and a wait for absence.
KillDone ==
    /\ killWork = "running" /\ killWork' = "done" /\ child' = (IF child = "running" THEN "exited" ELSE child)
    /\ waiting' = FALSE /\ completion' = (IF waiting /\ ~BpSettled THEN Resolved(stopReason) ELSE completion)
    /\ UNCHANGED <<outputSize, truncated, aborted, timers, stopReason>>

KillFails ==
    /\ killWork = "running" /\ killWork' = "failed"
    /\ waiting' = FALSE /\ completion' = (IF waiting /\ ~BpSettled THEN BpRejected ELSE completion)
    /\ UNCHANGED <<child, outputSize, truncated, aborted, timers, stopReason>>

\* failSettlement, five seconds after the stop.
FailSettlement ==
    /\ stopReason # "none" /\ "settlement" \notin timers /\ ~BpSettled
    /\ timers' = timers \cup {"settlement"} /\ completion' = BpRejected
    /\ UNCHANGED <<child, outputSize, truncated, aborted, stopReason, killWork, waiting>>

BpNext ==
    \/ ChildWrites \/ ChildExits \/ ChildCloses \/ SpawnFails \/ BpAbort \/ BpDeadline
    \/ KillDone \/ KillFails \/ FailSettlement

BpSpec == BpInit /\ [][BpNext]_bpVars

\* Only timers are fair: the child and the kill may hang.
BpFair == WF_bpVars(BpDeadline) /\ WF_bpVars(FailSettlement)

\* The state of a bounded process has its type.
BpTypeOK ==
    /\ child \in {"running", "exited", "closed", "failed"} /\ outputSize \in 0..MaxOutput /\ truncated \in BOOLEAN
    /\ aborted \in BOOLEAN /\ timers \in SUBSET {"deadline", "settlement"} /\ stopReason \in Reasons
    /\ killWork \in {"none", "running", "done", "failed"} /\ waiting \in BOOLEAN
    /\ completion \in [is : {"pending", "rejected", "resolved"}, reason : Reasons]

\* A caller that gets a result gets it after the child and its pipes are closed and no kill
\* is in progress, and truncated output is never reported as a normal end.
ResultIsFinal ==
    completion.is = "resolved" =>
        /\ child = "closed" /\ killWork \in {"none", "done"}
        /\ completion.reason = stopReason /\ (truncated => stopReason # "none")

\* The completion settles once the deadline has passed, even if the child never closes and
\* the kill never returns.
ProcessSettles == <>BpSettled
=============================================================================
