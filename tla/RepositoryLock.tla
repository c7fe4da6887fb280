--------------------------- MODULE RepositoryLock ---------------------------
(***************************************************************************)
(* acquireRepositoryLockV4 and its release (repository-lock.ts), which     *)
(* acquireRunLockV4 delegates to: one lock file, several processes that    *)
(* create it exclusively, reclaim it from a dead owner under a             *)
(* cross-process coordinator, release it, and die anywhere.                *)
(*                                                                         *)
(* An owner record (pid, nonce, boot and start identity) is named by its   *)
(* process: the identities are what tells a process from a later one with  *)
(* the same pid, so a process that died does not come back.                *)
(***************************************************************************)
CONSTANTS
    Processes,   \* processes that want the lock
    NoOwner,     \* no lock file
    Torn         \* a lock file that was created and not written

ASSUME LockSentinels == NoOwner # Torn /\ NoOwner \notin Processes /\ Torn \notin Processes

VARIABLES
    lockFile,    \* NoOwner, Torn or the owner it names
    alive,       \* the processes that have not died
    lockPc,      \* where each process is
    reclaimer,   \* who is inside the reclamation coordinator
    readOwner    \* the owner each process has read

lockVars == <<lockFile, alive, lockPc, reclaimer, readOwner>>

Holding   == {"held", "release"}
LockSteps == Holding \cup {"idle", "open", "write", "queue", "reopen", "read", "status",
                           "verify", "unlink", "open again"}

LockInit ==
    /\ lockFile = NoOwner /\ alive = Processes /\ reclaimer = NoOwner
    /\ lockPc = [p \in Processes |-> "idle"] /\ readOwner = [p \in Processes |-> NoOwner]

LockGoto(p, l) == lockPc' = [lockPc EXCEPT ![p] = l]

\* Returning or throwing leaves the coordinator.
LockLeave(p, l) ==
    /\ LockGoto(p, l) /\ reclaimer' = (IF reclaimer = p THEN NoOwner ELSE reclaimer)
    /\ UNCHANGED <<alive, readOwner>>

LockStay(p, l) == LockGoto(p, l) /\ UNCHANGED <<alive, reclaimer, readOwner>>

-----------------------------------------------------------------------------
Acquire(p) == lockPc[p] = "idle" /\ LockStay(p, "open") /\ UNCHANGED lockFile

\* attempt: open(path, 'wx'), before the coordinator, in it, and after the reclamation.
OpenExclusive(p) ==
    /\ lockPc[p] \in {"open", "reopen", "open again"}
    /\ IF lockFile = NoOwner THEN lockFile' = Torn /\ LockStay(p, "write")
       ELSE UNCHANGED lockFile /\ CASE lockPc[p] = "open"   -> LockStay(p, "queue")
                                    [] lockPc[p] = "reopen" -> LockStay(p, "read")
                                    [] OTHER                -> LockLeave(p, "idle")

\* The owner record is written; if that fails the file is removed again, if that succeeds.
WriteOwner(p) ==
    /\ lockPc[p] = "write"
    /\ \/ lockFile' = p /\ LockLeave(p, "held")
       \/ lockFile' \in {NoOwner, Torn} /\ LockLeave(p, "idle")

\* Mutant: the coordinator lets everybody in.
EnterCoordinatorFreely(p) ==
    /\ lockPc[p] = "queue" /\ reclaimer' = p /\ LockGoto(p, "reopen")
    /\ UNCHANGED <<lockFile, alive, readOwner>>

\* runExclusive; without a coordinator the lock is busy.
EnterCoordinator(p) ==
    /\ lockPc[p] = "queue"
    /\ \/ reclaimer = NoOwner /\ reclaimer' = p /\ LockGoto(p, "reopen") /\ UNCHANGED <<alive, readOwner>>
       \/ LockStay(p, "idle")
    /\ UNCHANGED lockFile

\* Mutant: what the file holds is not checked.
ReadOwnerUnchecked(p) ==
    /\ lockPc[p] = "read" /\ LockGoto(p, "status")
    /\ readOwner' = [readOwner EXCEPT ![p] = lockFile] /\ UNCHANGED <<lockFile, alive, reclaimer>>

\* readOwner: a file that is gone or not written is an unverifiable owner.
ReadOwner(p) ==
    /\ lockPc[p] = "read" /\ UNCHANGED lockFile
    /\ IF lockFile \in Processes
       THEN LockGoto(p, "status") /\ readOwner' = [readOwner EXCEPT ![p] = lockFile] /\ UNCHANGED <<alive, reclaimer>>
       ELSE LockLeave(p, "idle")

\* Only an owner that is known to be dead is reclaimed; a live one may be "unknown", and so
\* may a dead one.
OwnerStatus(p) ==
    /\ lockPc[p] = "status" /\ UNCHANGED lockFile
    /\ \/ readOwner[p] \notin alive /\ LockStay(p, "verify")
       \/ LockLeave(p, "idle")

VerifyOwner(p) ==
    /\ lockPc[p] = "verify" /\ UNCHANGED lockFile
    /\ IF lockFile = readOwner[p] THEN LockStay(p, "unlink") ELSE LockLeave(p, "idle")

UnlinkDead(p) ==
    /\ lockPc[p] = "unlink"
    /\ IF lockFile = NoOwner THEN UNCHANGED lockFile /\ LockLeave(p, "idle")
       ELSE lockFile' = NoOwner /\ LockStay(p, "open again")

\* release: the file is removed if it still names this owner.
ReadOwn(p) ==
    /\ lockPc[p] = "held" /\ LockStay(p, IF lockFile = p THEN "release" ELSE "idle")
    /\ UNCHANGED lockFile

\* What the removal throws is dropped.
UnlinkOwn(p) == lockPc[p] = "release" /\ lockFile' \in {NoOwner, lockFile} /\ LockStay(p, "idle")

Die(p) ==
    /\ alive' = alive \ {p} /\ LockGoto(p, "idle")
    /\ reclaimer' = (IF reclaimer = p THEN NoOwner ELSE reclaimer)
    /\ UNCHANGED <<lockFile, readOwner>>

-----------------------------------------------------------------------------
LockStep(p) ==
    \/ OpenExclusive(p) \/ WriteOwner(p) \/ EnterCoordinator(p) \/ ReadOwner(p) \/ OwnerStatus(p)
    \/ VerifyOwner(p) \/ UnlinkDead(p) \/ ReadOwn(p) \/ UnlinkOwn(p)

LockNext == \E p \in alive : Acquire(p) \/ LockStep(p) \/ Die(p)

LockSpec == LockInit /\ [][LockNext]_lockVars

\* The lock file and the processes have their types.
LockTypeOK ==
    /\ lockFile \in Processes \cup {NoOwner, Torn} /\ alive \in SUBSET Processes
    /\ lockPc \in [Processes -> LockSteps]
    /\ reclaimer \in Processes \cup {NoOwner} /\ readOwner \in [Processes -> Processes \cup {NoOwner}]

\* The process that was told it has the lock is the one the file names, until it gives it
\* back: no reclamation, failed write or late release of another process takes it away, and
\* so never two live processes hold it.
HolderOwnsFile == \A p \in alive : lockPc[p] \in Holding => lockFile = p
=============================================================================
