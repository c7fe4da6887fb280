--------------------------- MODULE ResourceProofs -----------------------------
(***************************************************************************)
(* What the broker holds outside its own files, for every number of        *)
(* processes, clients, containers, certifications, requests, servers,      *)
(* repositories, crashes and failures: locks, container transactions,      *)
(* certifications, the egress gateway, the IPC endpoint and the host's     *)
(* installations.  The sandbox and the worktrees are in IsolationProofs.   *)
(*                                                                         *)
(* Each part has its types first (one lemma over its steps), then the      *)
(* conjunction of named parts that is inductive, then the theorems.  The   *)
(* last part puts them together: the components share no variable, so a    *)
(* behaviour of ResourcesSpec is a behaviour of each, and what each        *)
(* promises by itself holds of all of them.                                *)
(***************************************************************************)
EXTENDS MCResources, IsolationProofs, SequenceTheorems, FiniteSetTheorems, TLAPS

-----------------------------------------------------------------------------
(* The repository lock. *)

\* What a process has left to do inside the coordinator.
Coordinated == {"reopen", "read", "status", "verify", "unlink", "open again"}

\* A lock file is written only by the process that created it: no two live processes write
\* at a time, and the file is still unwritten.
OneWriter ==
    \A p \in alive : lockPc[p] = "write" =>
        lockFile = Torn /\ \A q \in alive : lockPc[q] = "write" => q = p

\* Everybody between the entry to the coordinator and its exit is the one inside.
Serialized == \A p \in alive : lockPc[p] \in Coordinated => reclaimer = p

\* The owner that is about to be reclaimed is dead, and from the second look at the file on
\* it is the one the file names.
ReclaimsTheDead ==
    \A p \in alive :
        /\ lockPc[p] = "status" => readOwner[p] \in Processes
        /\ lockPc[p] \in {"verify", "unlink"} => readOwner[p] \in Processes \ alive
        /\ lockPc[p] = "unlink" => lockFile = readOwner[p]

\* Every step keeps the types.
LEMMA LockTypeStep == LockTypeOK /\ [LockNext]_lockVars => LockTypeOK'
<1> SUFFICES ASSUME LockTypeOK, [LockNext]_lockVars PROVE LockTypeOK'  OBVIOUS
<1> USE DEF LockTypeOK, LockGoto, LockStay, LockLeave
<1>0. {"held", "release", "idle", "open", "write", "queue", "reopen", "read", "status", "verify", "unlink", "open again"} \subseteq LockSteps
    BY DEF LockSteps, Holding
<1>1. ASSUME NEW p \in alive, Acquire(p) PROVE LockTypeOK'
    BY <1>0, <1>1 DEF Acquire
<1>2. ASSUME NEW p \in alive, OpenExclusive(p) PROVE LockTypeOK'
    BY <1>0, <1>2 DEF OpenExclusive
<1>3. ASSUME NEW p \in alive, WriteOwner(p) PROVE LockTypeOK'
    BY <1>0, <1>3 DEF WriteOwner
<1>4. ASSUME NEW p \in alive, EnterCoordinator(p) PROVE LockTypeOK'
    BY <1>0, <1>4 DEF EnterCoordinator
<1>5. ASSUME NEW p \in alive, ReadOwner(p) PROVE LockTypeOK'
    BY <1>0, <1>5 DEF ReadOwner
<1>6. ASSUME NEW p \in alive, OwnerStatus(p) PROVE LockTypeOK'
    BY <1>0, <1>6 DEF OwnerStatus
<1>7. ASSUME NEW p \in alive, VerifyOwner(p) PROVE LockTypeOK'
    BY <1>0, <1>7 DEF VerifyOwner
<1>8. ASSUME NEW p \in alive, UnlinkDead(p) PROVE LockTypeOK'
    BY <1>0, <1>8 DEF UnlinkDead
<1>9. ASSUME NEW p \in alive, ReadOwn(p) PROVE LockTypeOK'
    BY <1>0, <1>9 DEF ReadOwn
<1>10. ASSUME NEW p \in alive, UnlinkOwn(p) PROVE LockTypeOK'
    BY <1>0, <1>10 DEF UnlinkOwn
<1>11. ASSUME NEW p \in alive, Die(p) PROVE LockTypeOK'
    BY <1>0, <1>11 DEF Die
<1>12. CASE UNCHANGED lockVars
    BY <1>12 DEF lockVars
<1> HIDE DEF LockTypeOK
<1> QED
    BY <1>1, <1>2, <1>3, <1>4, <1>5, <1>6, <1>7, <1>8, <1>9, <1>10, <1>11, <1>12 DEF LockNext, LockStep

\* The parts of the invariant beyond the types.
LockSafe == HolderOwnsFile /\ OneWriter /\ Serialized /\ ReclaimsTheDead

\* A process changes its own place, and leaves the coordinator to whoever else is in it.
LEMMA LockFrame ==
    ASSUME LockTypeOK, NEW p \in alive, Acquire(p) \/ LockStep(p) \/ Die(p)
    PROVE  /\ alive' \subseteq alive /\ alive \subseteq Processes
           /\ \A q \in Processes \ {p} : /\ lockPc'[q] = lockPc[q] /\ readOwner'[q] = readOwner[q]
                                         /\ reclaimer = q => reclaimer' = q
<1> USE LockSentinels DEF LockTypeOK, LockGoto, LockStay, LockLeave
<1>1. CASE Acquire(p)  BY <1>1 DEF Acquire
<1>2. CASE OpenExclusive(p)  BY <1>2 DEF OpenExclusive
<1>3. CASE WriteOwner(p)  BY <1>3 DEF WriteOwner
<1>4. CASE EnterCoordinator(p)  BY <1>4 DEF EnterCoordinator
<1>5. CASE ReadOwner(p)  BY <1>5 DEF ReadOwner
<1>6. CASE OwnerStatus(p)  BY <1>6 DEF OwnerStatus
<1>7. CASE VerifyOwner(p)  BY <1>7 DEF VerifyOwner
<1>8. CASE UnlinkDead(p)  BY <1>8 DEF UnlinkDead
<1>9. CASE ReadOwn(p)  BY <1>9 DEF ReadOwn
<1>10. CASE UnlinkOwn(p)  BY <1>10 DEF UnlinkOwn
<1>11. CASE Die(p)  BY <1>11 DEF Die
<1> QED  BY <1>1, <1>2, <1>3, <1>4, <1>5, <1>6, <1>7, <1>8, <1>9, <1>10, <1>11 DEF LockStep

\* Every step keeps the lock safe.
LEMMA LockStepSafe ==
    ASSUME LockTypeOK, LockSafe, NEW p \in alive, Acquire(p) \/ LockStep(p) \/ Die(p)
    PROVE  LockSafe'
<1> USE LockSentinels
<1>0. HolderOwnsFile /\ OneWriter /\ Serialized /\ ReclaimsTheDead  BY DEF LockSafe
<1>t. lockPc \in [Processes -> LockSteps] /\ readOwner \in [Processes -> Processes \cup {NoOwner}]
    BY DEF LockTypeOK
<1>f. /\ alive' \subseteq alive /\ alive \subseteq Processes
      /\ \A q \in Processes \ {p} : /\ lockPc'[q] = lockPc[q] /\ readOwner'[q] = readOwner[q]
                                    /\ reclaimer = q => reclaimer' = q
    BY LockFrame
<1>1. CASE Acquire(p)
    <2>a. lockPc'[p] = "open" /\ lockFile' = lockFile
        BY <1>f, <1>t, <1>1 DEF Acquire, LockGoto, LockStay, LockLeave
    <2>1. HolderOwnsFile'   BY <1>0, <1>f, <2>a DEF HolderOwnsFile, OneWriter, Holding
    <2>2. OneWriter'        BY <1>0, <1>f, <2>a DEF HolderOwnsFile, OneWriter, Holding
    <2>3. Serialized'       BY <1>0, <1>f, <2>a DEF Serialized, Coordinated
    <2>4. ReclaimsTheDead'  BY <1>0, <1>f, <2>a DEF HolderOwnsFile, ReclaimsTheDead, Serialized, Coordinated
    <2> QED  BY <2>1, <2>2, <2>3, <2>4 DEF LockSafe
<1>2. CASE OpenExclusive(p)
    <2>a. \/ lockFile = NoOwner /\ lockFile' = Torn /\ lockPc'[p] = "write"
          \/ lockFile' = lockFile /\ lockPc'[p] \in {"queue", "idle"}
          \/ lockFile' = lockFile /\ lockPc[p] = "reopen" /\ lockPc'[p] = "read" /\ reclaimer' = reclaimer
        BY <1>f, <1>t, <1>2 DEF OpenExclusive, LockGoto, LockStay, LockLeave
    <2>b. lockFile' = lockFile \/ \A q \in alive : lockPc[q] # "unlink"
        BY <1>0, <2>a DEF OneWriter, ReclaimsTheDead
    <2>1. HolderOwnsFile'   BY <1>0, <1>f, <2>a DEF HolderOwnsFile, OneWriter, Holding
    <2>2. OneWriter'        BY <1>0, <1>f, <2>a DEF HolderOwnsFile, OneWriter, Holding
    <2>3. Serialized'       BY <1>0, <1>f, <2>a DEF Serialized, Coordinated
    <2>4. ReclaimsTheDead'  BY <1>0, <1>f, <2>a, <2>b DEF HolderOwnsFile, ReclaimsTheDead, Serialized, Coordinated
    <2> QED  BY <2>1, <2>2, <2>3, <2>4 DEF LockSafe
<1>3. CASE WriteOwner(p)
    <2>a. /\ lockPc[p] = "write"
          /\ \/ lockFile' = p /\ lockPc'[p] = "held"
             \/ lockFile' \in {NoOwner, Torn} /\ lockPc'[p] = "idle"
        BY <1>f, <1>t, <1>3 DEF WriteOwner, LockGoto, LockStay, LockLeave
    <2>b. lockFile' = lockFile \/ \A q \in alive : lockPc[q] # "unlink"
        BY <1>0, <2>a DEF OneWriter, ReclaimsTheDead
    <2>1. HolderOwnsFile'   BY <1>0, <1>f, <2>a DEF HolderOwnsFile, OneWriter, Holding
    <2>2. OneWriter'        BY <1>0, <1>f, <2>a DEF HolderOwnsFile, OneWriter, Holding
    <2>3. Serialized'       BY <1>0, <1>f, <2>a DEF Serialized, Coordinated
    <2>4. ReclaimsTheDead'  BY <1>0, <1>f, <2>a, <2>b DEF HolderOwnsFile, ReclaimsTheDead, Serialized, Coordinated
    <2> QED  BY <2>1, <2>2, <2>3, <2>4 DEF LockSafe
<1>4. CASE EnterCoordinator(p)
    <2>a. /\ lockFile' = lockFile
          /\ lockPc'[p] = "idle" \/ (lockPc'[p] = "reopen" /\ reclaimer' = p)
        BY <1>f, <1>t, <1>4 DEF EnterCoordinator, LockGoto, LockStay, LockLeave
    <2>1. HolderOwnsFile'   BY <1>0, <1>f, <2>a DEF HolderOwnsFile, OneWriter, Holding
    <2>2. OneWriter'        BY <1>0, <1>f, <2>a DEF HolderOwnsFile, OneWriter, Holding
    <2>3. Serialized'       BY <1>0, <1>f, <2>a DEF Serialized, Coordinated
    <2>4. ReclaimsTheDead'  BY <1>0, <1>f, <2>a DEF HolderOwnsFile, ReclaimsTheDead, Serialized, Coordinated
    <2> QED  BY <2>1, <2>2, <2>3, <2>4 DEF LockSafe
<1>5. CASE ReadOwner(p)
    <2>a. /\ lockFile' = lockFile /\ lockPc[p] = "read"
          /\ \/ lockPc'[p] = "idle"
             \/ lockPc'[p] = "status" /\ readOwner'[p] \in Processes /\ reclaimer' = reclaimer
        BY <1>f, <1>t, <1>5 DEF ReadOwner, LockGoto, LockStay, LockLeave
    <2>1. HolderOwnsFile'   BY <1>0, <1>f, <2>a DEF HolderOwnsFile, OneWriter, Holding
    <2>2. OneWriter'        BY <1>0, <1>f, <2>a DEF HolderOwnsFile, OneWriter, Holding
    <2>3. Serialized'       BY <1>0, <1>f, <2>a DEF Serialized, Coordinated
    <2>4. ReclaimsTheDead'  BY <1>0, <1>f, <2>a DEF HolderOwnsFile, ReclaimsTheDead, Serialized, Coordinated
    <2> QED  BY <2>1, <2>2, <2>3, <2>4 DEF LockSafe
<1>6. CASE OwnerStatus(p)
    <2>a. /\ lockFile' = lockFile /\ lockPc[p] = "status"
          /\ \/ lockPc'[p] = "idle"
             \/ /\ lockPc'[p] = "verify" /\ readOwner'[p] = readOwner[p] /\ reclaimer' = reclaimer
                /\ readOwner[p] \notin alive
        BY <1>f, <1>t, <1>6 DEF OwnerStatus, LockGoto, LockStay, LockLeave
    <2>1. HolderOwnsFile'   BY <1>0, <1>f, <2>a DEF HolderOwnsFile, OneWriter, Holding
    <2>2. OneWriter'        BY <1>0, <1>f, <2>a DEF HolderOwnsFile, OneWriter, Holding
    <2>3. Serialized'       BY <1>0, <1>f, <2>a DEF Serialized, Coordinated
    <2>4. ReclaimsTheDead'  BY <1>0, <1>f, <2>a DEF HolderOwnsFile, ReclaimsTheDead, Serialized, Coordinated
    <2> QED  BY <2>1, <2>2, <2>3, <2>4 DEF LockSafe
<1>7. CASE VerifyOwner(p)
    <2>a. /\ lockFile' = lockFile /\ lockPc[p] = "verify"
          /\ \/ lockPc'[p] = "idle"
             \/ /\ lockPc'[p] = "unlink" /\ readOwner'[p] = readOwner[p] /\ reclaimer' = reclaimer
                /\ lockFile = readOwner[p]
        BY <1>f, <1>t, <1>7 DEF VerifyOwner, LockGoto, LockStay, LockLeave
    <2>1. HolderOwnsFile'   BY <1>0, <1>f, <2>a DEF HolderOwnsFile, OneWriter, Holding
    <2>2. OneWriter'        BY <1>0, <1>f, <2>a DEF HolderOwnsFile, OneWriter, Holding
    <2>3. Serialized'       BY <1>0, <1>f, <2>a DEF Serialized, Coordinated
    <2>4. ReclaimsTheDead'  BY <1>0, <1>f, <2>a DEF HolderOwnsFile, ReclaimsTheDead, Serialized, Coordinated
    <2> QED  BY <2>1, <2>2, <2>3, <2>4 DEF LockSafe
<1>8. CASE UnlinkDead(p)
    <2>a. /\ lockFile' = NoOwner /\ lockPc[p] = "unlink" /\ lockFile \in Processes \ alive
          /\ lockPc'[p] = "idle" \/ (lockPc'[p] = "open again" /\ reclaimer' = reclaimer)
        BY <1>f, <1>t, <1>0, <1>8 DEF UnlinkDead, LockGoto, LockStay, LockLeave, ReclaimsTheDead
    <2>1. HolderOwnsFile'   BY <1>0, <1>f, <2>a DEF HolderOwnsFile, OneWriter, Holding
    <2>2. OneWriter'        BY <1>0, <1>f, <2>a DEF HolderOwnsFile, OneWriter, Holding
    <2>3. Serialized'       BY <1>0, <1>f, <2>a DEF Serialized, Coordinated
    <2>4. ReclaimsTheDead'  BY <1>0, <1>f, <2>a DEF HolderOwnsFile, ReclaimsTheDead, Serialized, Coordinated
    <2> QED  BY <2>1, <2>2, <2>3, <2>4 DEF LockSafe
<1>9. CASE ReadOwn(p)
    <2>a. /\ lockFile' = lockFile /\ lockPc[p] = "held"
          /\ lockPc'[p] \in {"release", "idle"}
        BY <1>f, <1>t, <1>9 DEF ReadOwn, LockGoto, LockStay, LockLeave
    <2>1. HolderOwnsFile'   BY <1>0, <1>f, <2>a DEF HolderOwnsFile, OneWriter, Holding
    <2>2. OneWriter'        BY <1>0, <1>f, <2>a DEF HolderOwnsFile, OneWriter, Holding
    <2>3. Serialized'       BY <1>0, <1>f, <2>a DEF Serialized, Coordinated
    <2>4. ReclaimsTheDead'  BY <1>0, <1>f, <2>a DEF HolderOwnsFile, ReclaimsTheDead, Serialized, Coordinated
    <2> QED  BY <2>1, <2>2, <2>3, <2>4 DEF LockSafe
<1>10. CASE UnlinkOwn(p)
    <2>a. /\ lockFile' \in {NoOwner, lockFile} /\ lockFile = p
          /\ lockPc'[p] = "idle"
        BY <1>f, <1>t, <1>0, <1>10 DEF UnlinkOwn, LockGoto, LockStay, LockLeave, HolderOwnsFile, Holding
    <2>1. HolderOwnsFile'   BY <1>0, <1>f, <2>a DEF HolderOwnsFile, OneWriter, Holding
    <2>2. OneWriter'        BY <1>0, <1>f, <2>a DEF HolderOwnsFile, OneWriter, Holding
    <2>3. Serialized'       BY <1>0, <1>f, <2>a DEF Serialized, Coordinated
    <2>4. ReclaimsTheDead'  BY <1>0, <1>f, <2>a DEF HolderOwnsFile, ReclaimsTheDead, Serialized, Coordinated, Holding
    <2> QED  BY <2>1, <2>2, <2>3, <2>4 DEF LockSafe
<1>11. CASE Die(p)
    <2>a. lockFile' = lockFile /\ alive' = alive \ {p}
        BY <1>f, <1>t, <1>11 DEF Die, LockGoto, LockStay, LockLeave
    <2>1. HolderOwnsFile'   BY <1>0, <1>f, <2>a DEF HolderOwnsFile, OneWriter, Holding
    <2>2. OneWriter'        BY <1>0, <1>f, <2>a DEF HolderOwnsFile, OneWriter, Holding
    <2>3. Serialized'       BY <1>0, <1>f, <2>a DEF Serialized, Coordinated
    <2>4. ReclaimsTheDead'  BY <1>0, <1>f, <2>a DEF HolderOwnsFile, ReclaimsTheDead, Serialized, Coordinated
    <2> QED  BY <2>1, <2>2, <2>3, <2>4 DEF LockSafe
<1> QED  BY <1>1, <1>2, <1>3, <1>4, <1>5, <1>6, <1>7, <1>8, <1>9, <1>10, <1>11 DEF LockStep

\* The types hold in every reachable state (acquireRepositoryLockV4 and its release).
THEOREM LockTyped == LockSpec => []LockTypeOK
<1>1. LockInit => LockTypeOK
    BY DEF LockInit, LockTypeOK, LockSteps, Holding
<1> QED  BY <1>1, LockTypeStep, PTL DEF LockSpec

\* Mutual exclusion, for every number of processes: whoever acquireRepositoryLockV4 told that
\* it holds the lock is named by the file until it releases it.  No reclamation of a dead
\* owner, failed write or late release of another process takes it away.
THEOREM LockExcludes == LockSpec => []HolderOwnsFile
<1>1. LockInit => LockSafe
    BY DEF LockInit, LockSafe, HolderOwnsFile, OneWriter, Serialized, ReclaimsTheDead, Holding, Coordinated
<1>2. LockTypeOK /\ LockSafe /\ [LockNext]_lockVars => LockSafe'
    <2>1. ASSUME LockTypeOK, LockSafe, LockNext PROVE LockSafe'
        BY <2>1, LockStepSafe DEF LockNext
    <2>2. ASSUME LockSafe, UNCHANGED lockVars PROVE LockSafe'
        BY <2>2 DEF lockVars, LockSafe, HolderOwnsFile, OneWriter, Serialized, ReclaimsTheDead
    <2> QED  BY <2>1, <2>2
<1>3. LockSafe => HolderOwnsFile  BY DEF LockSafe
<1> QED  BY <1>1, <1>2, <1>3, LockTyped, PTL DEF LockSpec

-----------------------------------------------------------------------------
(* A certification. *)

\* Every step of a certification, a crash or a late create keeps the types.
LEMMA CertTypedStep == CertTypeOK /\ [CertNext]_certVars => CertTypeOK'
<1> SUFFICES ASSUME CertTypeOK, [CertNext]_certVars PROVE CertTypeOK'  OBVIOUS
<1> USE CertSizes DEF CertTypeOK, StageIs, Advance, Networks, Verdicts
<1>s. {"idle", "retry", "process", "timeout", "certificate", "internal", "internal lost", "outbound",
       "outbound lost", "fixture", "gateway", "executor", "verdict", "finally", "certified", "unavailable"} \subseteq Stages
    BY DEF Stages
<1>k. \A c \in CertRuns : /\ \A k \in Kinds : <<c, k>> \in Nets
                          /\ \A part \in {"fixture", "gateway", "executor"} : <<c, part>> \in Parts
    BY DEF Nets, Parts
<1>1. ASSUME NEW c \in CertRuns, BeginCertification(c) PROVE CertTypeOK'
    BY <1>s, <1>k, <1>1 DEF BeginCertification
<1>2. ASSUME NEW c \in CertRuns, RetryCleanup(c) PROVE CertTypeOK'
    <2>1. stage' \in [CertRuns -> Stages]  BY <1>s, <1>2 DEF RetryCleanup
    <2>2. net' \in [Nets -> {"none", "up", "gone"}] /\ retained' \in SUBSET Nets
        BY <1>2 DEF RetryCleanup, Removes
    <2>3. sweep' \in [CertRuns -> SUBSET Nets]  BY <1>2 DEF RetryCleanup
    <2> QED  BY <1>2, <2>1, <2>2, <2>3 DEF RetryCleanup
<1>3. ASSUME NEW c \in CertRuns, RunIsolated(c) PROVE CertTypeOK'
    BY <1>s, <1>k, <1>3 DEF RunIsolated
<1>4. ASSUME NEW c \in CertRuns, CreateNetwork(c) PROVE CertTypeOK'
    <2>0. PICK k \in Kinds : CreateNetwork(c)!(k)  BY <1>4 DEF CreateNetwork
    <2>1. stage' \in [CertRuns -> Stages]
        <3>1. Lost(k) \in Stages /\ CreateNext(k) \in Stages  BY <1>s DEF Lost, CreateNext
        <3> QED  BY <1>s, <2>0, <3>1
    <2>2. <<c, k>> \in Nets  BY <1>k
    <2>3. net' \in [Nets -> {"none", "up", "gone"}]  BY <2>0, <2>2
    <2>4. retained' \in SUBSET Nets /\ known' \in SUBSET Nets /\ laggard' \in SUBSET Nets  BY <2>0, <2>2
    <2> QED  BY <2>0, <2>1, <2>3, <2>4
<1>5. ASSUME NEW c \in CertRuns, RecoverNetwork(c) PROVE CertTypeOK'
    <2>0. PICK k \in Kinds : RecoverNetwork(c)!(k)  BY <1>5 DEF RecoverNetwork
    <2>1. stage' \in [CertRuns -> Stages]  BY <1>s, <2>0
    <2>2. <<c, k>> \in Nets  BY <1>k
    <2>3. net' \in [Nets -> {"none", "up", "gone"}]  BY <2>0, <2>2
    <2>4. retained' \in SUBSET Nets /\ known' \in SUBSET Nets /\ laggard' \in SUBSET Nets  BY <2>0, <2>2
    <2> QED  BY <2>0, <2>1, <2>3, <2>4
<1>6. ASSUME NEW c \in CertRuns, StartPart(c) PROVE CertTypeOK'
    BY <1>s, <1>k, <1>6 DEF StartPart
<1>7. ASSUME NEW c \in CertRuns, StartExecutor(c) PROVE CertTypeOK'
    BY <1>s, <1>k, <1>7 DEF StartExecutor
<1>8. ASSUME NEW c \in CertRuns, ExecutorEnds(c) PROVE CertTypeOK'
    BY <1>s, <1>k, <1>8 DEF ExecutorEnds
<1>9. ASSUME NEW c \in CertRuns, Judge(c) PROVE CertTypeOK'
    BY <1>s, <1>k, <1>9 DEF Judge
<1>10. ASSUME NEW c \in CertRuns, CleanPart(c) PROVE CertTypeOK'
    <2>1. parts' \in [Parts -> {"none", "up", "gone", "left"}]  BY <1>10 DEF CleanPart, PartsUp
    <2>2. dirty' \in SUBSET CertRuns /\ certFaults' \in 0..MaxCertFaults  BY <1>10 DEF CleanPart
    <2> QED  BY <1>10, <2>1, <2>2 DEF CleanPart
<1>11. ASSUME NEW c \in CertRuns, CleanNetwork(c) PROVE CertTypeOK'
    <2>1. known' \in SUBSET Nets /\ dirty' \in SUBSET CertRuns  BY <1>11 DEF CleanNetwork
    <2>2. certFaults' \in 0..MaxCertFaults  BY <1>11 DEF CleanNetwork
    <2>3. net' \in [Nets -> {"none", "up", "gone"}] /\ retained' \in SUBSET Nets
        BY <1>11 DEF CleanNetwork, Removes, NetsUp
    <2> QED  BY <1>11, <2>1, <2>2, <2>3 DEF CleanNetwork
<1>12. ASSUME NEW c \in CertRuns, EndCertification(c) PROVE CertTypeOK'
    BY <1>s, <1>k, <1>12 DEF EndCertification
<1>13. ASSUME NEW c \in CertRuns, StageFails(c) PROVE CertTypeOK'
    <2>1. stage' \in [CertRuns -> Stages]  BY <1>s, <1>13 DEF StageFails
    <2>2. certFaults' \in 0..MaxCertFaults  BY <1>13 DEF StageFails
    <2> QED  BY <1>13, <2>1, <2>2 DEF StageFails
<1>14. ASSUME NEW n \in Nets, LateNetwork(n) PROVE CertTypeOK'
    BY <1>14 DEF LateNetwork
<1>15. ASSUME NEW c \in CertRuns, RecoverFails(c) PROVE CertTypeOK'
    <2>0. PICK k \in Kinds : RecoverFails(c)!(k)  BY <1>15 DEF RecoverFails
    <2>1. stage' \in [CertRuns -> Stages]  BY <1>s, <2>0
    <2>2. <<c, k>> \in Nets  BY <1>k
    <2>3. stray' \in SUBSET Nets /\ certFaults' \in 0..MaxCertFaults  BY <2>0, <2>2
    <2> QED  BY <2>0, <2>1, <2>3
<1>16. CASE UNCHANGED certVars
    BY <1>16 DEF certVars
<1> HIDE DEF CertTypeOK
<1> QED
    BY <1>1, <1>2, <1>3, <1>4, <1>5, <1>6, <1>7, <1>8, <1>9, <1>10, <1>11, <1>12, <1>13, <1>14, <1>15,
       <1>16 DEF CertNext, CertStep

\* None of a certification's networks is forgotten by any step.
LEMMA NetworksStep ==
    ASSUME CertTypeOK, NoNetworkForgotten, [CertNext]_certVars PROVE NoNetworkForgotten'
<1> USE DEF NoNetworkForgotten, StageIs, Advance, Networks, Verdicts
<1>t. /\ stage \in [CertRuns -> Stages] /\ net \in [Nets -> {"none", "up", "gone"}]
      /\ \A n \in Nets : n[1] \in CertRuns /\ n[2] \in Kinds
    BY DEF CertTypeOK, Nets
<1>k. \A n \in Nets, k \in Kinds : n = <<n[1], k>> <=> n[2] = k  BY DEF Nets
<1>j. \A j, k \in Kinds : Lost(j) = Lost(k) => j = k  BY DEF Lost, Kinds
<1>l. Lost("internal") = "internal lost" /\ Lost("outbound") = "outbound lost" /\ Kinds = {"internal", "outbound"}
    BY DEF Lost, Kinds
<1>1. ASSUME NEW c \in CertRuns, BeginCertification(c) PROVE NoNetworkForgotten'
    <2>1. net' = net /\ retained' = retained /\ stray' = stray  BY <1>1 DEF BeginCertification
    <2>2. \A n \in Nets : stage[n[1]] = Lost(n[2]) => stage'[n[1]] = stage[n[1]]
        BY <1>t, <1>l, <1>1 DEF BeginCertification
    <2> QED  BY <2>1, <2>2
<1>2. ASSUME NEW c \in CertRuns, RunIsolated(c) PROVE NoNetworkForgotten'
    <2>1. net' = net /\ retained' = retained /\ stray' = stray  BY <1>2 DEF RunIsolated
    <2>2. \A n \in Nets : stage[n[1]] = Lost(n[2]) => stage'[n[1]] = stage[n[1]]
        BY <1>t, <1>l, <1>2 DEF RunIsolated
    <2> QED  BY <2>1, <2>2
<1>3. ASSUME NEW c \in CertRuns, StartPart(c) PROVE NoNetworkForgotten'
    <2>1. net' = net /\ retained' = retained /\ stray' = stray  BY <1>3 DEF StartPart
    <2>2. \A n \in Nets : stage[n[1]] = Lost(n[2]) => stage'[n[1]] = stage[n[1]]
        BY <1>t, <1>l, <1>3 DEF StartPart
    <2> QED  BY <2>1, <2>2
<1>4. ASSUME NEW c \in CertRuns, StartExecutor(c) PROVE NoNetworkForgotten'
    <2>1. net' = net /\ retained' = retained /\ stray' = stray  BY <1>4 DEF StartExecutor
    <2>2. \A n \in Nets : stage[n[1]] = Lost(n[2]) => stage'[n[1]] = stage[n[1]]
        BY <1>t, <1>l, <1>4 DEF StartExecutor
    <2> QED  BY <2>1, <2>2
<1>5. ASSUME NEW c \in CertRuns, ExecutorEnds(c) PROVE NoNetworkForgotten'
    <2>1. net' = net /\ retained' = retained /\ stray' = stray  BY <1>5 DEF ExecutorEnds
    <2>2. \A n \in Nets : stage[n[1]] = Lost(n[2]) => stage'[n[1]] = stage[n[1]]
        BY <1>t, <1>l, <1>5 DEF ExecutorEnds
    <2> QED  BY <2>1, <2>2
<1>6. ASSUME NEW c \in CertRuns, Judge(c) PROVE NoNetworkForgotten'
    <2>1. net' = net /\ retained' = retained /\ stray' = stray  BY <1>6 DEF Judge
    <2>2. \A n \in Nets : stage[n[1]] = Lost(n[2]) => stage'[n[1]] = stage[n[1]]
        BY <1>t, <1>l, <1>6 DEF Judge
    <2> QED  BY <2>1, <2>2
<1>7. ASSUME NEW c \in CertRuns, CleanPart(c) PROVE NoNetworkForgotten'
    <2>1. net' = net /\ retained' = retained /\ stray' = stray  BY <1>7 DEF CleanPart
    <2>2. \A n \in Nets : stage[n[1]] = Lost(n[2]) => stage'[n[1]] = stage[n[1]]
        BY <1>t, <1>l, <1>7 DEF CleanPart
    <2> QED  BY <2>1, <2>2
<1>8. ASSUME NEW c \in CertRuns, EndCertification(c) PROVE NoNetworkForgotten'
    <2>1. net' = net /\ retained' = retained /\ stray' = stray  BY <1>8 DEF EndCertification
    <2>2. \A n \in Nets : stage[n[1]] = Lost(n[2]) => stage'[n[1]] = stage[n[1]]
        BY <1>t, <1>l, <1>8 DEF EndCertification
    <2> QED  BY <2>1, <2>2
<1>9. ASSUME NEW c \in CertRuns, StageFails(c) PROVE NoNetworkForgotten'
    <2>1. net' = net /\ retained' = retained /\ stray' = stray  BY <1>9 DEF StageFails
    <2>2. \A n \in Nets : stage[n[1]] = Lost(n[2]) => stage'[n[1]] = stage[n[1]]
        BY <1>t, <1>l, <1>9 DEF StageFails
    <2> QED  BY <2>1, <2>2
<1>10. ASSUME NEW c \in CertRuns, RetryCleanup(c) \/ CleanNetwork(c) PROVE NoNetworkForgotten'
    <2>1. \A n \in Nets : net'[n] = "gone" \/ (net'[n] = net[n] /\ (n \in retained => n \in retained'))
        BY <1>t, <1>10 DEF RetryCleanup, CleanNetwork, Removes
    <2>2. stray' = stray  BY <1>10 DEF RetryCleanup, CleanNetwork
    <2>3. \A n \in Nets : stage[n[1]] = Lost(n[2]) => stage'[n[1]] = stage[n[1]]
        BY <1>t, <1>l, <1>10 DEF RetryCleanup, CleanNetwork
    <2> QED  BY <2>1, <2>2, <2>3
<1>11. ASSUME NEW c \in CertRuns, CreateNetwork(c) PROVE NoNetworkForgotten'
    <2>1. PICK k \in Kinds : CreateNetwork(c)!(k)  BY <1>11 DEF CreateNetwork
    <2>2. stray' = stray /\ retained \subseteq retained' /\ stage[c] = k  BY <2>1
    <2>3. \A n \in Nets : n # <<c, k>> => net'[n] = net[n]  BY <1>t, <2>1
    <2>4. \A n \in Nets : n[1] # c => stage'[n[1]] = stage[n[1]]  BY <1>t, <2>1
    <2>5. \A n \in Nets : stage[c] # Lost(n[2])  BY <1>t, <1>l, <2>2
    <2>6. <<c, k>> \in Nets /\ <<c, k>>[1] = c /\ <<c, k>>[2] = k  BY DEF Nets
    <2>7. net'[<<c, k>>] = "up" => <<c, k>> \in retained' \/ stage'[c] = Lost(k) \/ <<c, k>> \in stray'
        <3>1. net'[<<c, k>>] = net[<<c, k>>] \/ <<c, k>> \in retained' \/ stage'[c] = Lost(k)
            BY <1>t, <2>1, <2>6
        <3>2. net[<<c, k>>] = "up" => <<c, k>> \in retained \/ <<c, k>> \in stray
            BY <2>5, <2>6
        <3>3. stray' = stray /\ (<<c, k>> \in retained => <<c, k>> \in retained')  BY <2>2
        <3> QED  BY <3>1, <3>2, <3>3
    <2> QED  BY <2>2, <2>3, <2>4, <2>5, <2>6, <2>7
<1>12. ASSUME NEW c \in CertRuns, RecoverNetwork(c) PROVE NoNetworkForgotten'
    <2>1. PICK k \in Kinds : RecoverNetwork(c)!(k)  BY <1>12 DEF RecoverNetwork
    <2>2. stray' = stray /\ stage[c] = Lost(k)  BY <2>1
    <2>3. \A n \in Nets : n # <<c, k>> => net'[n] = net[n] /\ (n \in retained => n \in retained')  BY <1>t, <2>1
    <2>4. \A n \in Nets : n[1] # c => stage'[n[1]] = stage[n[1]]  BY <1>t, <2>1
    <2>5. \A n \in Nets : n[1] = c /\ n # <<c, k>> => stage[c] # Lost(n[2])
        <3>1. \A n \in Nets : n[1] = c /\ n # <<c, k>> => n[2] # k  BY <1>k
        <3> QED  BY <1>t, <1>j, <2>2, <3>1
    <2>6. <<c, k>> \in Nets  BY DEF Nets
    <2>7. net'[<<c, k>>] = "up" => <<c, k>> \in retained'  BY <1>t, <2>1, <2>6
    <2> QED  BY <2>2, <2>3, <2>4, <2>5, <2>6, <2>7
<1>13. ASSUME NEW n \in Nets, LateNetwork(n) PROVE NoNetworkForgotten'
    <2>1. stage' = stage /\ retained' = retained /\ stray \subseteq stray'  BY <1>13 DEF LateNetwork
    <2>2. \A m \in Nets : m # n => net'[m] = net[m]  BY <1>t, <1>13 DEF LateNetwork
    <2>3. net'[n] = net[n] \/ stage[n[1]] = Lost(n[2]) \/ n \in stray'  BY <1>13 DEF LateNetwork
    <2> QED  BY <2>1, <2>2, <2>3
<1>14. ASSUME NEW c \in CertRuns, RecoverFails(c) PROVE NoNetworkForgotten'
    <2>1. PICK k \in Kinds : RecoverFails(c)!(k)  BY <1>14 DEF RecoverFails
    <2>2. net' = net /\ retained' = retained /\ stray \subseteq stray' /\ stage[c] = Lost(k)  BY <2>1
    <2>3. \A n \in Nets : n[1] # c => stage'[n[1]] = stage[n[1]]  BY <1>t, <2>1
    <2>4. \A n \in Nets : n[1] = c /\ n # <<c, k>> => stage[c] # Lost(n[2])
        <3>1. \A n \in Nets : n[1] = c /\ n # <<c, k>> => n[2] # k  BY <1>k
        <3> QED  BY <1>t, <1>j, <2>2, <3>1
    <2>5. net[<<c, k>>] = "up" => <<c, k>> \in retained \/ <<c, k>> \in stray'  BY <2>1
    <2> QED  BY <2>2, <2>3, <2>4, <2>5
<1>15. CASE UNCHANGED certVars  BY <1>15 DEF certVars
<1> QED
    BY <1>1, <1>2, <1>3, <1>4, <1>5, <1>6, <1>7, <1>8, <1>9, <1>10, <1>11, <1>12, <1>13, <1>14, <1>15 DEF CertNext, CertStep

-----------------------------------------------------------------------------
\* Where the networks and containers of a certification are as long as it goes well, and
\* what is true of one that passed.
NetworksKnown(c) ==
    /\ stage[c] \in {"outbound", "fixture", "gateway", "executor", "verdict"} => <<c, "internal">> \in known
    /\ stage[c] \in {"fixture", "gateway", "executor", "verdict"} => <<c, "outbound">> \in known

PartsStarted(c) ==
    /\ stage[c] \in {"gateway", "executor", "verdict"} => parts[<<c, "fixture">>] = "up"
    /\ stage[c] \in {"executor", "verdict"} => parts[<<c, "gateway">>] = "up"

NothingLate(c) ==
    <<c, "internal">> \in laggard \/ <<c, "outbound">> \in laggard =>
        stage[c] \in {"internal lost", "outbound lost", "finally", "unavailable"} /\ c \notin passed

PassedIsTidy(c) ==
    c \in passed =>
        /\ stage[c] \in {"finally", "certified", "unavailable"} /\ parts[<<c, "executor">>] = "gone"
        /\ c \notin dirty => /\ parts[<<c, "fixture">>] \in {"up", "gone"}
                             /\ parts[<<c, "gateway">>] \in {"up", "gone"}
                             /\ <<c, "internal">> \in known \/ net[<<c, "internal">>] = "gone"
                             /\ <<c, "outbound">> \in known \/ net[<<c, "outbound">>] = "gone"

CertifiedIsDone(c) ==
    stage[c] = "certified" =>
        /\ c \in passed /\ c \notin dirty /\ <<c, "internal">> \notin known /\ <<c, "outbound">> \notin known
        /\ parts[<<c, "fixture">>] # "up" /\ parts[<<c, "gateway">>] # "up"

CertOK(c) == NetworksKnown(c) /\ PartsStarted(c) /\ NothingLate(c) /\ PassedIsTidy(c) /\ CertifiedIsDone(c)

\* A step of one certification leaves another one's state alone, except that it may remove
\* networks of it.
Apart(d) ==
    /\ stage'[d] = stage[d] /\ (d \in dirty' <=> d \in dirty) /\ (d \in passed' <=> d \in passed)
    /\ \A x \in {"fixture", "gateway", "executor"} : parts'[<<d, x>>] = parts[<<d, x>>]
    /\ \A k \in Kinds : /\ <<d, k>> \in known' <=> <<d, k>> \in known
                        /\ <<d, k>> \in laggard' <=> <<d, k>> \in laggard
                        /\ net'[<<d, k>>] \in {net[<<d, k>>], "gone"}

\* What a certification does leaves the others apart.
LEMMA CertApart ==
    ASSUME CertTypeOK, NEW c \in CertRuns, BeginCertification(c) \/ CertStep(c) \/ RecoverFails(c) \/ StageFails(c),
           NEW d \in CertRuns \ {c}
    PROVE  Apart(d)
<1> USE DEF Apart, StageIs, Advance, Networks, Verdicts
<1>t. /\ stage \in [CertRuns -> Stages] /\ net \in [Nets -> {"none", "up", "gone"}]
      /\ parts \in [Parts -> {"none", "up", "gone", "left"}] /\ known \subseteq Nets
    BY DEF CertTypeOK
<1>n. /\ \A k \in Kinds : <<d, k>> \in Nets /\ <<c, k>> \in Nets
      /\ \A x \in {"fixture", "gateway", "executor"} : <<d, x>> \in Parts /\ <<c, x>> \in Parts
    BY DEF Nets, Parts
<1>1. CASE BeginCertification(c)
    BY <1>t, <1>n, <1>1 DEF BeginCertification
<1>2. CASE RetryCleanup(c)
    BY <1>t, <1>n, <1>2 DEF RetryCleanup, Removes
<1>3. CASE RunIsolated(c)
    BY <1>t, <1>n, <1>3 DEF RunIsolated
<1>4. CASE CreateNetwork(c)
    BY <1>t, <1>n, <1>4 DEF CreateNetwork, CreateNext, Lost
<1>5. CASE RecoverNetwork(c)
    <2>1. PICK k \in Kinds : RecoverNetwork(c)!(k)  BY <1>5 DEF RecoverNetwork
    <2>2. \A j \in Kinds : <<d, j>> # <<c, k>>  OBVIOUS
    <2> QED  BY <1>t, <1>n, <2>1, <2>2
<1>6. CASE StartPart(c)
    BY <1>t, <1>n, <1>6 DEF StartPart
<1>7. CASE StartExecutor(c)
    BY <1>t, <1>n, <1>7 DEF StartExecutor
<1>8. CASE ExecutorEnds(c)
    BY <1>t, <1>n, <1>8 DEF ExecutorEnds
<1>9. CASE Judge(c)
    BY <1>t, <1>n, <1>9 DEF Judge
<1>10. CASE CleanPart(c)
    BY <1>t, <1>n, <1>10 DEF CleanPart, PartsUp
<1>11. CASE CleanNetwork(c)
    <2>1. PICK n \in known : /\ n[1] = c /\ known' = known \ {n} /\ dirty' \in {dirty, dirty \cup {c}}
                             /\ net' \in {net, [net EXCEPT ![n] = "gone"]}
        BY <1>11 DEF CleanNetwork, Removes, NetsUp
    <2>2. \A k \in Kinds : <<d, k>> # n  BY <2>1
    <2>3. UNCHANGED <<stage, laggard, parts, passed>>  BY <1>11 DEF CleanNetwork
    <2> QED  BY <1>t, <1>n, <2>1, <2>2, <2>3
<1>12. CASE EndCertification(c)
    BY <1>t, <1>n, <1>12 DEF EndCertification
<1>13. CASE StageFails(c)
    BY <1>t, <1>n, <1>13 DEF StageFails
<1>14. CASE RecoverFails(c)
    BY <1>t, <1>n, <1>14 DEF RecoverFails
<1> QED  BY <1>1, <1>2, <1>3, <1>4, <1>5, <1>6, <1>7, <1>8, <1>9, <1>10, <1>11, <1>12, <1>13, <1>14 DEF CertStep

\* What leaves a certification apart keeps what holds of it.
LEMMA CertOKApart ==
    ASSUME NEW d \in CertRuns, CertOK(d), Apart(d) PROVE CertOK(d)'
<1>k. "internal" \in Kinds /\ "outbound" \in Kinds  BY DEF Kinds
<1>1. NetworksKnown(d)'   BY <1>k DEF CertOK, Apart, NetworksKnown
<1>2. PartsStarted(d)'    BY DEF CertOK, Apart, PartsStarted
<1>3. NothingLate(d)'     BY <1>k DEF CertOK, Apart, NothingLate
<1>4. PassedIsTidy(d)'    BY <1>k DEF CertOK, Apart, PassedIsTidy
<1>5. CertifiedIsDone(d)' BY <1>k DEF CertOK, Apart, CertifiedIsDone
<1> QED  BY <1>1, <1>2, <1>3, <1>4, <1>5 DEF CertOK

\* A certification keeps what holds of itself.
LEMMA CertOKOwn ==
    ASSUME CertTypeOK, NEW c \in CertRuns, BeginCertification(c) \/ CertStep(c) \/ RecoverFails(c) \/ StageFails(c), CertOK(c)
    PROVE  CertOK(c)'
<1> USE DEF StageIs, Advance, Networks, Verdicts
<1>t. /\ stage \in [CertRuns -> Stages] /\ net \in [Nets -> {"none", "up", "gone"}]
      /\ parts \in [Parts -> {"none", "up", "gone", "left"}]
    BY DEF CertTypeOK
<1>n. /\ <<c, "internal">> \in Nets /\ <<c, "outbound">> \in Nets
      /\ <<c, "fixture">> \in Parts /\ <<c, "gateway">> \in Parts /\ <<c, "executor">> \in Parts
      /\ Kinds = {"internal", "outbound"} /\ Lost("internal") = "internal lost" /\ Lost("outbound") = "outbound lost"
    BY DEF Nets, Parts, Kinds, Lost
<1>o. NetworksKnown(c) /\ PartsStarted(c) /\ NothingLate(c) /\ PassedIsTidy(c) /\ CertifiedIsDone(c)  BY DEF CertOK
<1>1. CASE BeginCertification(c)
    <2>1. NetworksKnown(c)'    BY <1>t, <1>n, <1>o, <1>1 DEF BeginCertification, NetworksKnown
    <2>2. PartsStarted(c)'     BY <1>t, <1>n, <1>o, <1>1 DEF BeginCertification, PartsStarted
    <2>3. NothingLate(c)'      BY <1>t, <1>n, <1>o, <1>1 DEF BeginCertification, NothingLate, PassedIsTidy
    <2>4. PassedIsTidy(c)'     BY <1>t, <1>n, <1>o, <1>1 DEF BeginCertification, PassedIsTidy, NetworksKnown, PartsStarted
    <2>5. CertifiedIsDone(c)'  BY <1>t, <1>n, <1>o, <1>1 DEF BeginCertification, CertifiedIsDone, PassedIsTidy
    <2> QED  BY <2>1, <2>2, <2>3, <2>4, <2>5 DEF CertOK
<1>2. CASE RetryCleanup(c)
    <2>1. NetworksKnown(c)'    BY <1>t, <1>n, <1>o, <1>2 DEF RetryCleanup, Removes, NetworksKnown
    <2>2. PartsStarted(c)'     BY <1>t, <1>n, <1>o, <1>2 DEF RetryCleanup, Removes, PartsStarted
    <2>3. NothingLate(c)'      BY <1>t, <1>n, <1>o, <1>2 DEF RetryCleanup, Removes, NothingLate, PassedIsTidy
    <2>4. PassedIsTidy(c)'     BY <1>t, <1>n, <1>o, <1>2 DEF RetryCleanup, Removes, PassedIsTidy, NetworksKnown, PartsStarted
    <2>5. CertifiedIsDone(c)'  BY <1>t, <1>n, <1>o, <1>2 DEF RetryCleanup, Removes, CertifiedIsDone, PassedIsTidy
    <2> QED  BY <2>1, <2>2, <2>3, <2>4, <2>5 DEF CertOK
<1>3. CASE RunIsolated(c)
    <2>1. NetworksKnown(c)'    BY <1>t, <1>n, <1>o, <1>3 DEF RunIsolated, NetworksKnown
    <2>2. PartsStarted(c)'     BY <1>t, <1>n, <1>o, <1>3 DEF RunIsolated, PartsStarted
    <2>3. NothingLate(c)'      BY <1>t, <1>n, <1>o, <1>3 DEF RunIsolated, NothingLate, PassedIsTidy
    <2>4. PassedIsTidy(c)'     BY <1>t, <1>n, <1>o, <1>3 DEF RunIsolated, PassedIsTidy, NetworksKnown, PartsStarted
    <2>5. CertifiedIsDone(c)'  BY <1>t, <1>n, <1>o, <1>3 DEF RunIsolated, CertifiedIsDone, PassedIsTidy
    <2> QED  BY <2>1, <2>2, <2>3, <2>4, <2>5 DEF CertOK
<1>4. CASE CreateNetwork(c)
    <2>1. NetworksKnown(c)'    BY <1>t, <1>n, <1>o, <1>4 DEF CreateNetwork, CreateNext, Lost, NetworksKnown
    <2>2. PartsStarted(c)'     BY <1>t, <1>n, <1>o, <1>4 DEF CreateNetwork, CreateNext, Lost, PartsStarted
    <2>3. NothingLate(c)'      BY <1>t, <1>n, <1>o, <1>4 DEF CreateNetwork, CreateNext, Lost, NothingLate, PassedIsTidy
    <2>4. PassedIsTidy(c)'     BY <1>t, <1>n, <1>o, <1>4 DEF CreateNetwork, CreateNext, Lost, PassedIsTidy, NetworksKnown, PartsStarted
    <2>5. CertifiedIsDone(c)'  BY <1>t, <1>n, <1>o, <1>4 DEF CreateNetwork, CreateNext, Lost, CertifiedIsDone, PassedIsTidy
    <2> QED  BY <2>1, <2>2, <2>3, <2>4, <2>5 DEF CertOK
<1>5. CASE RecoverNetwork(c)
    <2>1. NetworksKnown(c)'    BY <1>t, <1>n, <1>o, <1>5 DEF RecoverNetwork, Lost, NetworksKnown
    <2>2. PartsStarted(c)'     BY <1>t, <1>n, <1>o, <1>5 DEF RecoverNetwork, Lost, PartsStarted
    <2>3. NothingLate(c)'      BY <1>t, <1>n, <1>o, <1>5 DEF RecoverNetwork, Lost, NothingLate, PassedIsTidy
    <2>4. PassedIsTidy(c)'     BY <1>t, <1>n, <1>o, <1>5 DEF RecoverNetwork, Lost, PassedIsTidy, NetworksKnown, PartsStarted
    <2>5. CertifiedIsDone(c)'  BY <1>t, <1>n, <1>o, <1>5 DEF RecoverNetwork, Lost, CertifiedIsDone, PassedIsTidy
    <2> QED  BY <2>1, <2>2, <2>3, <2>4, <2>5 DEF CertOK
<1>6. CASE StartPart(c)
    <2>1. NetworksKnown(c)'    BY <1>t, <1>n, <1>o, <1>6 DEF StartPart, NetworksKnown
    <2>2. PartsStarted(c)'     BY <1>t, <1>n, <1>o, <1>6 DEF StartPart, PartsStarted
    <2>3. NothingLate(c)'      BY <1>t, <1>n, <1>o, <1>6 DEF StartPart, NothingLate, PassedIsTidy
    <2>4. PassedIsTidy(c)'     BY <1>t, <1>n, <1>o, <1>6 DEF StartPart, PassedIsTidy, NetworksKnown, PartsStarted
    <2>5. CertifiedIsDone(c)'  BY <1>t, <1>n, <1>o, <1>6 DEF StartPart, CertifiedIsDone, PassedIsTidy
    <2> QED  BY <2>1, <2>2, <2>3, <2>4, <2>5 DEF CertOK
<1>7. CASE StartExecutor(c)
    <2>1. NetworksKnown(c)'    BY <1>t, <1>n, <1>o, <1>7 DEF StartExecutor, NetworksKnown
    <2>2. PartsStarted(c)'     BY <1>t, <1>n, <1>o, <1>7 DEF StartExecutor, PartsStarted
    <2>3. NothingLate(c)'      BY <1>t, <1>n, <1>o, <1>7 DEF StartExecutor, NothingLate, PassedIsTidy
    <2>4. PassedIsTidy(c)'     BY <1>t, <1>n, <1>o, <1>7 DEF StartExecutor, PassedIsTidy, NetworksKnown, PartsStarted
    <2>5. CertifiedIsDone(c)'  BY <1>t, <1>n, <1>o, <1>7 DEF StartExecutor, CertifiedIsDone, PassedIsTidy
    <2> QED  BY <2>1, <2>2, <2>3, <2>4, <2>5 DEF CertOK
<1>8. CASE ExecutorEnds(c)
    <2>1. NetworksKnown(c)'    BY <1>t, <1>n, <1>o, <1>8 DEF ExecutorEnds, NetworksKnown
    <2>2. PartsStarted(c)'     BY <1>t, <1>n, <1>o, <1>8 DEF ExecutorEnds, PartsStarted
    <2>3. NothingLate(c)'      BY <1>t, <1>n, <1>o, <1>8 DEF ExecutorEnds, NothingLate, PassedIsTidy
    <2>4. PassedIsTidy(c)'     BY <1>t, <1>n, <1>o, <1>8 DEF ExecutorEnds, PassedIsTidy, NetworksKnown, PartsStarted
    <2>5. CertifiedIsDone(c)'  BY <1>t, <1>n, <1>o, <1>8 DEF ExecutorEnds, CertifiedIsDone, PassedIsTidy
    <2> QED  BY <2>1, <2>2, <2>3, <2>4, <2>5 DEF CertOK
<1>9. CASE Judge(c)
    <2>1. NetworksKnown(c)'    BY <1>t, <1>n, <1>o, <1>9 DEF Judge, NetworksKnown
    <2>2. PartsStarted(c)'     BY <1>t, <1>n, <1>o, <1>9 DEF Judge, PartsStarted
    <2>3. NothingLate(c)'      BY <1>t, <1>n, <1>o, <1>9 DEF Judge, NothingLate, PassedIsTidy
    <2>4. PassedIsTidy(c)'     BY <1>t, <1>n, <1>o, <1>9 DEF Judge, PassedIsTidy, NetworksKnown, PartsStarted
    <2>5. CertifiedIsDone(c)'  BY <1>t, <1>n, <1>o, <1>9 DEF Judge, CertifiedIsDone, PassedIsTidy
    <2> QED  BY <2>1, <2>2, <2>3, <2>4, <2>5 DEF CertOK
<1>10. CASE CleanPart(c)
    <2>1. NetworksKnown(c)'    BY <1>t, <1>n, <1>o, <1>10 DEF CleanPart, PartsUp, NetworksKnown
    <2>2. PartsStarted(c)'     BY <1>t, <1>n, <1>o, <1>10 DEF CleanPart, PartsUp, PartsStarted
    <2>3. NothingLate(c)'      BY <1>t, <1>n, <1>o, <1>10 DEF CleanPart, PartsUp, NothingLate, PassedIsTidy
    <2>4. PassedIsTidy(c)'     BY <1>t, <1>n, <1>o, <1>10 DEF CleanPart, PartsUp, PassedIsTidy, NetworksKnown, PartsStarted
    <2>5. CertifiedIsDone(c)'  BY <1>t, <1>n, <1>o, <1>10 DEF CleanPart, PartsUp, CertifiedIsDone, PassedIsTidy
    <2> QED  BY <2>1, <2>2, <2>3, <2>4, <2>5 DEF CertOK
<1>11. CASE CleanNetwork(c)
    <2>1. NetworksKnown(c)'    BY <1>t, <1>n, <1>o, <1>11 DEF CleanNetwork, Removes, NetsUp, NetworksKnown
    <2>2. PartsStarted(c)'     BY <1>t, <1>n, <1>o, <1>11 DEF CleanNetwork, Removes, NetsUp, PartsStarted
    <2>3. NothingLate(c)'      BY <1>t, <1>n, <1>o, <1>11 DEF CleanNetwork, Removes, NetsUp, NothingLate, PassedIsTidy
    <2>4. PassedIsTidy(c)'     BY <1>t, <1>n, <1>o, <1>11 DEF CleanNetwork, Removes, NetsUp, PassedIsTidy, NetworksKnown, PartsStarted
    <2>5. CertifiedIsDone(c)'  BY <1>t, <1>n, <1>o, <1>11 DEF CleanNetwork, Removes, NetsUp, CertifiedIsDone, PassedIsTidy
    <2> QED  BY <2>1, <2>2, <2>3, <2>4, <2>5 DEF CertOK
<1>12. CASE EndCertification(c)
    <2>1. NetworksKnown(c)'    BY <1>t, <1>n, <1>o, <1>12 DEF EndCertification, NetworksKnown
    <2>2. PartsStarted(c)'     BY <1>t, <1>n, <1>o, <1>12 DEF EndCertification, PartsStarted
    <2>3. NothingLate(c)'      BY <1>t, <1>n, <1>o, <1>12 DEF EndCertification, NothingLate, PassedIsTidy
    <2>4. PassedIsTidy(c)'     BY <1>t, <1>n, <1>o, <1>12 DEF EndCertification, PassedIsTidy, NetworksKnown, PartsStarted
    <2>5. CertifiedIsDone(c)'
        <3>1. stage'[c] = "certified" => c \in passed /\ c \notin dirty  BY <1>t, <1>12 DEF EndCertification
        <3>2. <<c, "internal">> \notin known /\ <<c, "outbound">> \notin known
            BY <1>12 DEF EndCertification, NetsUp
        <3>3. parts[<<c, "fixture">>] # "up" /\ parts[<<c, "gateway">>] # "up"
            <4>1. <<c, "fixture">> \notin PartsUp(c) /\ <<c, "gateway">> \notin PartsUp(c)
                BY <1>12 DEF EndCertification
            <4> QED  BY <1>n, <4>1 DEF PartsUp
        <3> QED  BY <1>12, <3>1, <3>2, <3>3 DEF EndCertification, CertifiedIsDone
    <2> QED  BY <2>1, <2>2, <2>3, <2>4, <2>5 DEF CertOK
<1>13. CASE StageFails(c)
    <2>1. NetworksKnown(c)'    BY <1>t, <1>n, <1>o, <1>13 DEF StageFails, NetworksKnown
    <2>2. PartsStarted(c)'     BY <1>t, <1>n, <1>o, <1>13 DEF StageFails, PartsStarted
    <2>3. NothingLate(c)'      BY <1>t, <1>n, <1>o, <1>13 DEF StageFails, NothingLate, PassedIsTidy
    <2>4. PassedIsTidy(c)'     BY <1>t, <1>n, <1>o, <1>13 DEF StageFails, PassedIsTidy, NetworksKnown, PartsStarted
    <2>5. CertifiedIsDone(c)'  BY <1>t, <1>n, <1>o, <1>13 DEF StageFails, CertifiedIsDone, PassedIsTidy
    <2> QED  BY <2>1, <2>2, <2>3, <2>4, <2>5 DEF CertOK
<1>14. CASE RecoverFails(c)
    <2>1. NetworksKnown(c)'    BY <1>t, <1>n, <1>o, <1>14 DEF RecoverFails, NetworksKnown
    <2>2. PartsStarted(c)'     BY <1>t, <1>n, <1>o, <1>14 DEF RecoverFails, PartsStarted
    <2>3. NothingLate(c)'      BY <1>t, <1>n, <1>o, <1>14 DEF RecoverFails, NothingLate, PassedIsTidy
    <2>4. PassedIsTidy(c)'     BY <1>t, <1>n, <1>o, <1>14 DEF RecoverFails, PassedIsTidy, NetworksKnown, PartsStarted
    <2>5. CertifiedIsDone(c)'  BY <1>t, <1>n, <1>o, <1>14 DEF RecoverFails, CertifiedIsDone, PassedIsTidy
    <2> QED  BY <2>1, <2>2, <2>3, <2>4, <2>5 DEF CertOK
<1> QED  BY <1>1, <1>2, <1>3, <1>4, <1>5, <1>6, <1>7, <1>8, <1>9, <1>10, <1>11, <1>12, <1>13, <1>14 DEF CertStep

\* A create that the daemon finishes late belongs to no certification that passed.
LEMMA CertOKLate ==
    ASSUME CertTypeOK, NEW n \in Nets, LateNetwork(n), NEW c \in CertRuns, CertOK(c)
    PROVE  CertOK(c)'
<1>t. net \in [Nets -> {"none", "up", "gone"}]  BY DEF CertTypeOK
<1>n. \A k \in Kinds : <<c, k>> \in Nets  BY DEF Nets
<1>k. Kinds = {"internal", "outbound"}  BY DEF Kinds
<1>1. /\ UNCHANGED <<stage, known, parts, dirty, passed>> /\ laggard' \subseteq laggard
      /\ n \in laggard /\ (net' = net \/ net' = [net EXCEPT ![n] = "up"])
    BY DEF LateNetwork, Verdicts
<1>2. \A k \in Kinds : net'[<<c, k>>] = net[<<c, k>>] \/ <<c, k>> \in laggard  BY <1>1, <1>n, <1>t
<1>3. NetworksKnown(c)' /\ PartsStarted(c)' /\ CertifiedIsDone(c)' /\ NothingLate(c)'
    BY <1>1 DEF CertOK, NetworksKnown, PartsStarted, CertifiedIsDone, NothingLate
<1>4. PassedIsTidy(c)'
    BY <1>1, <1>2, <1>k DEF CertOK, PassedIsTidy, NothingLate
<1> QED  BY <1>3, <1>4 DEF CertOK

\* Stages, networks and parts of certifications keep their types.
THEOREM CertificationTyped == CertSpec => []CertTypeOK
<1>1. CertInit => CertTypeOK  BY CertSizes DEF CertInit, CertTypeOK, Stages, Nets, Parts
<1> QED  BY <1>1, CertTypedStep, PTL DEF CertSpec

\* A network of a certification that is up is one the process still knows of, whatever stage
\* failed (createCertificationNetworkV4, the finally, the map of retained networks); only one
\* whose create gave no identifier escapes, when the recovery that looks for it by label
\* failed or came before the daemon had created it.
THEOREM NetworksRemembered == CertSpec => []NoNetworkForgotten
<1>1. CertInit => NoNetworkForgotten  BY DEF CertInit, NoNetworkForgotten
<1> QED  BY <1>1, NetworksStep, CertificationTyped, PTL DEF CertSpec

\* A certification that reports success has left no network and no container behind.
THEOREM CertificationLeavesNothing == CertSpec => []CertifiedLeavesNothing
<1> DEFINE AllOK == \A c \in CertRuns : CertOK(c)
<1>1. CertInit => AllOK
    BY DEF CertInit, CertOK, NetworksKnown, PartsStarted, NothingLate, PassedIsTidy, CertifiedIsDone
<1>2. CertTypeOK /\ AllOK /\ [CertNext]_certVars => AllOK'
    <2> SUFFICES ASSUME CertTypeOK, AllOK, [CertNext]_certVars, NEW d \in CertRuns PROVE CertOK(d)'
        OBVIOUS
    <2>1. ASSUME NEW c \in CertRuns, BeginCertification(c) \/ CertStep(c) \/ RecoverFails(c) \/ StageFails(c) PROVE CertOK(d)'
        <3>1. CASE d = c  BY <2>1, <3>1, CertOKOwn
        <3>2. CASE d # c
            <4>1. Apart(d)  BY <2>1, <3>2, CertApart
            <4> QED  BY <4>1, CertOKApart
        <3> QED  BY <3>1, <3>2
    <2>2. ASSUME NEW n \in Nets, LateNetwork(n) PROVE CertOK(d)'
        BY <2>2, CertOKLate
    <2>3. CASE UNCHANGED certVars
        BY <2>3 DEF certVars, CertOK, NetworksKnown, PartsStarted, NothingLate, PassedIsTidy, CertifiedIsDone
    <2> QED  BY <2>1, <2>2, <2>3 DEF CertNext
<1>3. CertTypeOK /\ AllOK => CertifiedLeavesNothing
    <2> SUFFICES ASSUME CertTypeOK, AllOK, NEW c \in CertRuns, stage[c] = "certified"
                 PROVE  /\ \A n \in Nets  : n[1] = c => net[n] = "gone"
                        /\ \A p \in Parts : p[1] = c => parts[p] = "gone"
        BY DEF CertifiedLeavesNothing
    <2>1. PassedIsTidy(c) /\ CertifiedIsDone(c)  BY DEF CertOK
    <2>2. net[<<c, "internal">>] = "gone" /\ net[<<c, "outbound">>] = "gone"
        BY <2>1 DEF PassedIsTidy, CertifiedIsDone
    <2>3. parts[<<c, "fixture">>] = "gone" /\ parts[<<c, "gateway">>] = "gone" /\ parts[<<c, "executor">>] = "gone"
        BY <2>1 DEF PassedIsTidy, CertifiedIsDone
    <2>4. \A n \in Nets : n[1] = c => n \in {<<c, "internal">>, <<c, "outbound">>}
        BY DEF Nets, Kinds
    <2>5. \A p \in Parts : p[1] = c => p \in {<<c, "fixture">>, <<c, "gateway">>, <<c, "executor">>}
        BY DEF Parts
    <2> QED  BY <2>2, <2>3, <2>4, <2>5
<1> QED  BY <1>1, <1>2, <1>3, CertificationTyped, PTL DEF CertSpec

-----------------------------------------------------------------------------
(* Container transactions. *)

Calls    == [step : TxSteps, on : Creates, direct : BOOLEAN]
Pendings == [Creates -> {"absent", "intent", "id"}]

\* A call stays a call when it turns to another record.
LEMMA CallOn ==
    ASSUME NEW r \in Calls, NEW k \in Creates, NEW l \in TxSteps PROVE [r EXCEPT !.on = k, !.step = l] \in Calls
BY DEF Calls

\* A call stays a call when it asks the daemon itself.
LEMMA CallDirect ==
    ASSUME NEW r \in Calls, NEW l \in TxSteps PROVE [r EXCEPT !.step = l, !.direct = TRUE] \in Calls
BY DEF Calls

\* Every step keeps the types.
LEMMA TxTypedStep == TxTypeOK /\ [TxNext]_txVars => TxTypeOK'
<1> SUFFICES ASSUME TxTypeOK, [TxNext]_txVars PROVE TxTypeOK'  OBVIOUS
<1> USE BrokersAssumption DEF TxAt, TxGoto, On, disk, memory, docker
<1>t. /\ rec \in [Creates -> {"none", "torn", "intent", "id"}] /\ box \in [Creates -> {"none", "up", "gone"}]
      /\ temps \in SUBSET Creates /\ asked \in SUBSET Creates /\ missed \in SUBSET Creates
      /\ live \in SUBSET Creates /\ up \in SUBSET Brokers
      /\ ran \in [Creates -> Brokers \cup {NoBroker}] /\ txFaults \in 0..MaxTxFaults
    BY DEF TxTypeOK
<1>x. external \in [Brokers -> SUBSET Creates]  BY DEF TxTypeOK
<1>p. pending \in [Brokers -> Pendings]  BY DEF TxTypeOK, Pendings
<1>c. tx \in [Creates -> Calls]  BY DEF TxTypeOK, Calls
<1>o. \A c \in Creates : tx[c].on \in Creates /\ tx[c].direct \in BOOLEAN  BY <1>c DEF Calls
<1>s. \A l : l \in {"none", "load", "pick", "recover", "temp", "rename", "remove", "clear", "reject", "intent",
                    "intended", "ask", "answer", "inspect", "held", "ended"} => l \in TxSteps
    BY DEF TxSteps
<1>e1. \A c \in Creates, l \in TxSteps : [tx EXCEPT ![c].step = l] \in [Creates -> Calls]
    BY <1>c DEF Calls
<1>e2. ASSUME NEW c \in Creates, NEW k \in Creates, NEW l \in TxSteps
       PROVE  [tx EXCEPT ![c].on = k, ![c].step = l] \in [Creates -> Calls]
    <2>1. [tx[c] EXCEPT !.on = k, !.step = l] \in Calls  BY <1>c, CallOn
    <2>2. [tx EXCEPT ![c].on = k, ![c].step = l] = [tx EXCEPT ![c] = [tx[c] EXCEPT !.on = k, !.step = l]]
        BY <1>c DEF Calls
    <2> QED  BY <1>c, <2>1, <2>2
<1>e3. ASSUME NEW c \in Creates, NEW l \in TxSteps
       PROVE  [tx EXCEPT ![c].step = l, ![c].direct = TRUE] \in [Creates -> Calls]
    <2>1. [tx[c] EXCEPT !.step = l, !.direct = TRUE] \in Calls  BY <1>c, CallDirect
    <2>2. [tx EXCEPT ![c].step = l, ![c].direct = TRUE] = [tx EXCEPT ![c] = [tx[c] EXCEPT !.step = l, !.direct = TRUE]]
        BY <1>c DEF Calls
    <2> QED  BY <1>c, <2>1, <2>2
<1>f. \A b \in Brokers, k \in Creates, v \in {"absent", "intent", "id"} :
          [pending EXCEPT ![b][k] = v] \in [Brokers -> Pendings]
    BY <1>p DEF Pendings
<1>q. ASSUME rec' \in [Creates -> {"none", "torn", "intent", "id"}], box' \in [Creates -> {"none", "up", "gone"}],
             temps' \in SUBSET Creates, asked' \in SUBSET Creates, missed' \in SUBSET Creates,
             live' \in SUBSET Creates, up' \in SUBSET Brokers, external' \in [Brokers -> SUBSET Creates],
             ran' \in [Creates -> Brokers \cup {NoBroker}], txFaults' \in 0..MaxTxFaults,
             pending' \in [Brokers -> Pendings], tx' \in [Creates -> Calls]
      PROVE  TxTypeOK'
    BY <1>q DEF TxTypeOK, Calls, Pendings
<1>1. ASSUME NEW c \in Creates, LoadDurablePending(c) PROVE TxTypeOK'
    <2>0. ran[c] \in Brokers /\ tx[c].on \in Creates  BY <1>t, <1>o, <1>1 DEF LoadDurablePending
    <2>1. \E l \in TxSteps : tx' = [tx EXCEPT ![c].step = l]  BY <1>s, <1>1 DEF LoadDurablePending
    <2>3. tx' \in [Creates -> Calls]  BY <1>e1, <2>1
    <2>4. pending' \in [Brokers -> Pendings]  BY <1>p, <1>f, <1>t, <1>1, <2>0 DEF LoadDurablePending, Pendings
    <2>5. external' \in [Brokers -> SUBSET Creates]  BY <1>x, <1>1, <2>0 DEF LoadDurablePending
    <2> QED  BY <1>q, <1>t, <1>x, <1>p, <1>c, <1>1, <2>0, <2>3, <2>4, <2>5 DEF LoadDurablePending
<1>2. ASSUME NEW c \in Creates, PickPending(c) PROVE TxTypeOK'
    <2>0. ran[c] \in Brokers /\ tx[c].on \in Creates  BY <1>t, <1>o, <1>2 DEF PickPending
    <2>1. \/ \E l \in TxSteps : tx' = [tx EXCEPT ![c].step = l]
          \/ \E k \in Creates, l \in TxSteps : tx' = [tx EXCEPT ![c].on = k, ![c].step = l]
        BY <1>s, <1>2 DEF PickPending
    <2>3. tx' \in [Creates -> Calls]
        <3>1. CASE \E l \in TxSteps : tx' = [tx EXCEPT ![c].step = l]  BY <1>e1, <3>1
        <3>2. CASE \E k \in Creates, l \in TxSteps : tx' = [tx EXCEPT ![c].on = k, ![c].step = l]
            <4>1. PICK k \in Creates, l \in TxSteps : tx' = [tx EXCEPT ![c].on = k, ![c].step = l]  BY <3>2
            <4>2. [tx EXCEPT ![c].on = k, ![c].step = l] \in [Creates -> Calls]  BY <1>e2
            <4> QED  BY <4>1, <4>2
        <3> QED  BY <2>1, <3>1, <3>2
    <2>4. external' \in [Brokers -> SUBSET Creates]  BY <1>x, <1>2, <2>0 DEF PickPending
    <2> QED  BY <1>q, <1>t, <1>x, <1>p, <1>c, <1>2, <2>0, <2>3, <2>4 DEF PickPending
<1>3. ASSUME NEW c \in Creates, Recover(c) PROVE TxTypeOK'
    <2>0. ran[c] \in Brokers /\ tx[c].on \in Creates  BY <1>t, <1>o, <1>3 DEF Recover
    <2>1. \E l \in TxSteps : tx' = [tx EXCEPT ![c].step = l]  BY <1>s, <1>3 DEF Recover
    <2>3. tx' \in [Creates -> Calls]  BY <1>e1, <2>1
    <2>4. pending' \in [Brokers -> Pendings]
        <3>1. pending' = pending \/ \E k \in Creates : pending' = [pending EXCEPT ![ran[c]][k] = "id"]
            BY <1>3, <2>0 DEF Recover
        <3>2. \A k \in Creates : [pending EXCEPT ![ran[c]][k] = "id"] \in [Brokers -> Pendings]
            BY <1>p, <2>0 DEF Pendings
        <3> QED  BY <1>p, <3>1, <3>2
    <2> QED  BY <1>q, <1>t, <1>x, <1>p, <1>c, <1>3, <2>0, <2>3, <2>4 DEF Recover
<1>4. ASSUME NEW c \in Creates, WriteTemporary(c) PROVE TxTypeOK'
    <2>0. ran[c] \in Brokers /\ tx[c].on \in Creates  BY <1>t, <1>o, <1>4 DEF WriteTemporary
    <2>3. tx' \in [Creates -> Calls]  BY <1>s, <1>o, <1>e1, <1>4 DEF WriteTemporary
    <2> QED  BY <1>q, <1>t, <1>x, <1>p, <1>c, <1>4, <2>0, <2>3 DEF WriteTemporary
<1>5. ASSUME NEW c \in Creates, RenameRecord(c) PROVE TxTypeOK'
    <2>0. ran[c] \in Brokers /\ tx[c].on \in Creates  BY <1>t, <1>o, <1>5 DEF RenameRecord
    <2>3. tx' \in [Creates -> Calls]  BY <1>s, <1>o, <1>e1, <1>5 DEF RenameRecord
    <2> QED  BY <1>q, <1>t, <1>x, <1>p, <1>c, <1>5, <2>0, <2>3 DEF RenameRecord
<1>6. ASSUME NEW c \in Creates, RemoveContainer(c) PROVE TxTypeOK'
    <2>0. ran[c] \in Brokers /\ tx[c].on \in Creates  BY <1>t, <1>o, <1>6 DEF RemoveContainer
    <2>3. tx' \in [Creates -> Calls]  BY <1>s, <1>o, <1>e1, <1>6 DEF RemoveContainer
    <2> QED  BY <1>q, <1>t, <1>x, <1>p, <1>c, <1>6, <2>0, <2>3 DEF RemoveContainer
<1>7. ASSUME NEW c \in Creates, ClearPending(c) PROVE TxTypeOK'
    <2>0. ran[c] \in Brokers /\ tx[c].on \in Creates  BY <1>t, <1>o, <1>7 DEF ClearPending, Forget
    <2>3. tx' \in [Creates -> Calls]  BY <1>s, <1>o, <1>e2, <1>7 DEF ClearPending, Forget
    <2>4. pending' \in [Brokers -> Pendings]  BY <1>p, <1>f, <1>t, <1>7, <2>0 DEF ClearPending, Forget
    <2>5. external' \in [Brokers -> SUBSET Creates]  BY <1>x, <1>7, <2>0 DEF ClearPending, Forget
    <2> QED  BY <1>q, <1>t, <1>x, <1>p, <1>c, <1>7, <2>0, <2>3, <2>4, <2>5 DEF ClearPending, Forget
<1>8. ASSUME NEW c \in Creates, RejectUnknown(c) PROVE TxTypeOK'
    <2>0. ran[c] \in Brokers /\ tx[c].on \in Creates  BY <1>t, <1>o, <1>8 DEF RejectUnknown
    <2>1. \E l \in TxSteps : tx' = [tx EXCEPT ![c].step = l]  BY <1>s, <1>8 DEF RejectUnknown
    <2>3. tx' \in [Creates -> Calls]  BY <1>e1, <2>1
    <2> QED  BY <1>q, <1>t, <1>x, <1>p, <1>c, <1>8, <2>0, <2>3 DEF RejectUnknown
<1>9. ASSUME NEW c \in Creates, WriteIntent(c) PROVE TxTypeOK'
    <2>0. ran[c] \in Brokers /\ tx[c].on \in Creates  BY <1>t, <1>o, <1>9 DEF WriteIntent
    <2>3. tx' \in [Creates -> Calls]  BY <1>s, <1>o, <1>e1, <1>9 DEF WriteIntent
    <2> QED  BY <1>q, <1>t, <1>x, <1>p, <1>c, <1>9, <2>0, <2>3 DEF WriteIntent
<1>10. ASSUME NEW c \in Creates, EndIntent(c) PROVE TxTypeOK'
    <2>0. ran[c] \in Brokers /\ tx[c].on \in Creates  BY <1>t, <1>o, <1>10 DEF EndIntent
    <2>3. tx' \in [Creates -> Calls]  BY <1>s, <1>o, <1>e1, <1>10 DEF EndIntent
    <2>4. pending' \in [Brokers -> Pendings]  BY <1>p, <1>f, <1>t, <1>10, <2>0 DEF EndIntent
    <2> QED  BY <1>q, <1>t, <1>x, <1>p, <1>c, <1>10, <2>0, <2>3, <2>4 DEF EndIntent
<1>11. ASSUME NEW c \in Creates, AskDocker(c) PROVE TxTypeOK'
    <2>0. ran[c] \in Brokers /\ tx[c].on \in Creates  BY <1>t, <1>o, <1>11 DEF AskDocker
    <2>3. tx' \in [Creates -> Calls]  BY <1>s, <1>o, <1>e1, <1>11 DEF AskDocker
    <2> QED  BY <1>q, <1>t, <1>x, <1>p, <1>c, <1>11, <2>0, <2>3 DEF AskDocker
<1>12. ASSUME NEW c \in Creates, CreateAnswers(c) PROVE TxTypeOK'
    <2>0. ran[c] \in Brokers /\ tx[c].on \in Creates  BY <1>t, <1>o, <1>12 DEF CreateAnswers
    <2>1. \/ tx' = [tx EXCEPT ![c].step = "temp", ![c].direct = TRUE]
          \/ tx' = [tx EXCEPT ![c].step = "recover"]
        BY <1>12 DEF CreateAnswers
    <2>2. "temp" \in TxSteps /\ "recover" \in TxSteps  BY <1>s
    <2>3. tx' \in [Creates -> Calls]
        <3>1. [tx EXCEPT ![c].step = "temp", ![c].direct = TRUE] \in [Creates -> Calls]  BY <1>e3, <2>2
        <3>2. [tx EXCEPT ![c].step = "recover"] \in [Creates -> Calls]  BY <1>e1, <2>2
        <3> QED  BY <2>1, <3>1, <3>2
    <2>4. pending' \in [Brokers -> Pendings]
        <3>1. pending' = pending \/ \E k \in Creates : pending' = [pending EXCEPT ![ran[c]][k] = "id"]
            BY <1>12, <2>0 DEF CreateAnswers
        <3>2. \A k \in Creates : [pending EXCEPT ![ran[c]][k] = "id"] \in [Brokers -> Pendings]
            BY <1>p, <2>0 DEF Pendings
        <3> QED  BY <1>p, <3>1, <3>2
    <2> QED  BY <1>q, <1>t, <1>x, <1>p, <1>c, <1>12, <2>0, <2>3, <2>4 DEF CreateAnswers
<1>13. ASSUME NEW c \in Creates, InspectOwned(c) PROVE TxTypeOK'
    <2>0. ran[c] \in Brokers /\ tx[c].on \in Creates  BY <1>t, <1>o, <1>13 DEF InspectOwned
    <2>1. \E l \in TxSteps : tx' = [tx EXCEPT ![c].step = l]  BY <1>s, <1>13 DEF InspectOwned
    <2>3. tx' \in [Creates -> Calls]  BY <1>e1, <2>1
    <2> QED  BY <1>q, <1>t, <1>x, <1>p, <1>c, <1>13, <2>0, <2>3 DEF InspectOwned
<1>14. ASSUME NEW c \in Creates, ReleaseContainer(c) PROVE TxTypeOK'
    <2>0. ran[c] \in Brokers /\ tx[c].on \in Creates  BY <1>t, <1>o, <1>14 DEF ReleaseContainer
    <2>3. tx' \in [Creates -> Calls]  BY <1>s, <1>o, <1>e1, <1>14 DEF ReleaseContainer
    <2> QED  BY <1>q, <1>t, <1>x, <1>p, <1>c, <1>14, <2>0, <2>3 DEF ReleaseContainer
<1>15. ASSUME NEW c \in Creates, DaemonCreates(c) PROVE TxTypeOK'
    BY <1>q, <1>t, <1>x, <1>p, <1>c, <1>15 DEF DaemonCreates
<1>16. ASSUME NEW c \in Creates, TxFault(c) PROVE TxTypeOK'
    <2>0. ran[c] \in Brokers /\ tx[c].on \in Creates  BY <1>t, <1>o, <1>16 DEF TxFault
    <2>1. tx' \in [Creates -> Calls]  BY <1>s, <1>e1, <1>16 DEF TxFault
    <2>2. pending' \in [Brokers -> Pendings] /\ live' \in SUBSET Creates
        <3>1. pending' = pending \/ pending' = [pending EXCEPT ![ran[c]][tx[c].on] = "absent"]
            BY <1>16 DEF TxFault, Forget
        <3>2. live' = live \/ live' = live \ {tx[c].on}  BY <1>16 DEF TxFault, Forget
        <3>3. [pending EXCEPT ![ran[c]][tx[c].on] = "absent"] \in [Brokers -> Pendings]
            BY <1>p, <2>0 DEF Pendings
        <3> QED  BY <1>p, <1>t, <3>1, <3>2, <3>3
    <2>3. external' \in [Brokers -> SUBSET Creates]  BY <1>x, <1>16, <2>0 DEF TxFault, Forget
    <2>4. txFaults' \in 0..MaxTxFaults  BY <1>t, <1>16, BrokersAssumption DEF TxFault
    <2> QED  BY <1>q, <1>t, <1>16, <2>1, <2>2, <2>3, <2>4 DEF TxFault
<1>17. ASSUME NEW c \in Creates, NEW b \in up, Begin(c, b) PROVE TxTypeOK'
    <2>1. tx' \in [Creates -> Calls]  BY <1>s, <1>e1, <1>17 DEF Begin
    <2> QED  BY <1>q, <1>t, <1>x, <1>p, <1>17, <2>1 DEF Begin
<1>18. ASSUME NEW b \in Brokers, BrokerDies(b) PROVE TxTypeOK'
    <2>1. txFaults' \in 0..MaxTxFaults  BY <1>t, <1>18, BrokersAssumption DEF BrokerDies
    <2> QED  BY <1>q, <1>t, <1>x, <1>p, <1>c, <1>18, <2>1 DEF BrokerDies
<1>19. CASE UNCHANGED txVars
    BY <1>q, <1>t, <1>x, <1>p, <1>c, <1>19 DEF txVars
<1> QED
    BY <1>1, <1>2, <1>3, <1>4, <1>5, <1>6, <1>7, <1>8, <1>9, <1>10, <1>11, <1>12, <1>13, <1>14, <1>15, <1>16, <1>17, <1>18, <1>19 DEF TxNext, TxCall

\* The steps in which a call works on a create: its own, or a pending one it reconciles.
Working == {"recover", "temp", "rename", "remove", "clear"}

\* A call whose create has no intent on record yet.
Young(c) ==
    \/ tx[c].step \in {"none", "load", "pick", "reject", "intent", "intended"}
    \/ tx[c].step \in Working /\ tx[c].on # c

\* A call that works on a create.
Works(c) == tx[c].step \in Working

\* Nobody knows of a young create: no record, container, request or memory of it.
YoungIsClean == \A c \in Creates : Young(c) => rec[c] \notin {"intent", "id"} /\ box[c] = "none" /\ c \notin asked

YoungIsForgotten == \A c \in Creates, b \in Brokers : Young(c) => pending[b][c] = "absent"

YoungIsLeft == \A c, d \in Creates : Young(c) /\ Works(d) => tx[d].on # c

\* A call works on its own create outside these steps, and so does one that holds a container.
OnOwn ==
    \A c \in Creates : /\ tx[c].step \notin Working \cup {"ended"} => tx[c].on = c
                       /\ c \in live => tx[c].step \in {"held", "remove", "clear", "ended"} /\ tx[c].on = c

\* The daemon is asked once, before there is a container.
AskedOnce ==
    \A c \in Creates : /\ c \in asked => box[c] = "none"
                       /\ tx[c].step = "ask" => box[c] = "none" /\ c \notin asked

\* An identifier, on record, in memory or in a call's hands, is of a container that was
\* created; a record is about to be cleared when the container is gone, or was not found.
IdIsReal ==
    /\ \A k \in Creates : rec[k] = "id" => box[k] # "none" \/ k \in missed
    /\ \A b \in Brokers, k \in Creates : pending[b][k] = "id" => box[k] # "none" \/ k \in missed
    /\ \A d \in Creates :
        /\ tx[d].step \in {"temp", "rename", "inspect", "held", "remove"} =>
               box[tx[d].on] # "none" \/ tx[d].on \in missed
        /\ tx[d].step = "clear" => box[tx[d].on] = "gone" \/ tx[d].on \in missed

\* What exists or may come to exist is on record.
Recorded ==
    \A c \in Creates : box[c] = "up" \/ c \in asked \/ tx[c].step = "ask" =>
        rec[c] \in {"intent", "id"} \/ c \in missed

\* A process remembers a create of another one as external, or that one is dead.
OthersAreExternal ==
    \A b \in Brokers, k \in Creates : pending[b][k] # "absent" => ran[k] = b \/ ran[k] \notin up \/ k \in external[b]

\* Only its own creates and those of the dead are worked on.
OthersAreDead == \A c \in Creates : Works(c) => ran[tx[c].on] = ran[c] \/ ran[tx[c].on] \notin up

TxSafe ==
    /\ YoungIsClean /\ YoungIsForgotten /\ YoungIsLeft /\ OnOwn /\ AskedOnce /\ IdIsReal /\ Recorded
    /\ OthersAreExternal /\ OthersAreDead

\* A step of one call, of the daemon or of a fault keeps all of it.
LEMMA TxSafeStep == TxTypeOK /\ TxSafe /\ [TxNext]_txVars => TxSafe'
<1> SUFFICES ASSUME TxTypeOK, TxSafe, [TxNext]_txVars PROVE TxSafe'  OBVIOUS
<1>t. /\ rec \in [Creates -> {"none", "torn", "intent", "id"}] /\ box \in [Creates -> {"none", "up", "gone"}]
      /\ up \in SUBSET Brokers /\ ran \in [Creates -> Brokers \cup {NoBroker}] /\ NoBroker \notin Brokers
      /\ external \in [Brokers -> SUBSET Creates]
    BY BrokersAssumption DEF TxTypeOK
<1>p. pending \in [Brokers -> Pendings]  BY DEF TxTypeOK, Pendings
<1>c. tx \in [Creates -> Calls]  BY DEF TxTypeOK, Calls
<1>o. \A c \in Creates : tx[c].on \in Creates  BY <1>c DEF Calls
<1>i. /\ YoungIsClean /\ YoungIsForgotten /\ YoungIsLeft /\ OnOwn /\ AskedOnce /\ IdIsReal /\ Recorded
      /\ OthersAreExternal /\ OthersAreDead
    BY DEF TxSafe
<1>1. ASSUME NEW c \in Creates, LoadDurablePending(c) PROVE TxSafe'
    <2>1. tx[c].step = "load" /\ ran[c] \in up /\ ran[c] \in Brokers /\ UNCHANGED <<rec, box, asked, ran, up, live, missed>>
        BY <1>t, <1>1 DEF LoadDurablePending, TxAt, TxGoto, On, disk, memory, docker
    <2>2. \A d \in Creates \ {c} : tx'[d] = tx[d]  BY <1>c, <1>1 DEF LoadDurablePending, TxAt, TxGoto, On, disk, memory, docker
    <2>3. tx'[c].step \in {"pick", "ended"} /\ tx'[c].on = tx[c].on
        BY <1>c, <1>p, <1>t, <1>o, <1>1, <2>1 DEF LoadDurablePending, TxAt, TxGoto, On, disk, memory, docker, Calls, Pendings
    <2>4. \A b \in Brokers, j \in Creates :
              /\ pending'[b][j] = pending[b][j] \/ (rec[j] \in {"intent", "id"} /\ pending'[b][j] = rec[j])
              /\ pending[b][j] = "absent" /\ pending'[b][j] # "absent" => ran[j] = b \/ ran[j] \notin up \/ j \in external'[b]
              /\ j \in external[b] => j \in external'[b]
        BY <1>c, <1>p, <1>t, <1>o, <1>1, <2>1 DEF LoadDurablePending, TxAt, TxGoto, On, disk, memory, docker, Calls, Pendings
    <2>m. \A d \in Creates : Young(d)' => Young(d)
        BY <1>i, <1>o, <2>1, <2>2, <2>3, <2>4 DEF Young, Working, OnOwn
    <2>w. \A d \in Creates : Works(d)' => (Works(d) /\ tx'[d].on = tx[d].on) \/ (tx'[d].on = d /\ ~Young(d))
        BY <1>i, <1>o, <2>1, <2>2, <2>3, <2>4 DEF Works, Working, OnOwn, Young
    <2>g0. YoungIsClean'  BY <1>i, <2>m, <2>1, <2>2, <2>3, <2>4 DEF YoungIsClean
    <2>g1. YoungIsForgotten'  BY <1>i, <2>m, <2>1, <2>4 DEF YoungIsForgotten, YoungIsClean
    <2>g2. YoungIsLeft'  BY <1>i, <1>o, <2>m, <2>w, <2>1, <2>2, <2>3, <2>4 DEF YoungIsLeft
    <2>g3. OnOwn'  BY <1>i, <1>o, <2>1, <2>2, <2>3, <2>4 DEF OnOwn, Working
    <2>g4. AskedOnce'  BY <1>i, <2>m, <2>1, <2>2, <2>3, <2>4 DEF AskedOnce, YoungIsClean
    <2>g5. IdIsReal'  BY <1>i, <1>o, <1>t, <2>1, <2>2, <2>3, <2>4 DEF IdIsReal, OnOwn, AskedOnce, Working
    <2>g6. Recorded'  BY <1>i, <1>o, <1>t, <2>1, <2>2, <2>3, <2>4 DEF Recorded, IdIsReal, AskedOnce
    <2>g7. OthersAreExternal'  BY <1>i, <1>o, <1>t, <2>1, <2>2, <2>3, <2>4 DEF OthersAreExternal
    <2>g8. OthersAreDead'  BY <1>i, <1>o, <1>t, <2>w, <2>1, <2>2, <2>3, <2>4 DEF OthersAreDead
    <2> QED  BY <2>g0, <2>g1, <2>g2, <2>g3, <2>g4, <2>g5, <2>g6, <2>g7, <2>g8 DEF TxSafe
<1>2. ASSUME NEW c \in Creates, PickPending(c) PROVE TxSafe'
    <2>1. tx[c].step = "pick" /\ ran[c] \in up /\ ran[c] \in Brokers /\ UNCHANGED <<rec, box, asked, ran, up, pending, live, missed>>
        BY <1>t, <1>2 DEF PickPending, TxAt, TxGoto, On, disk, memory, docker
    <2>2. \A d \in Creates \ {c} : tx'[d] = tx[d]  BY <1>c, <1>2 DEF PickPending, TxAt, TxGoto, On, disk, memory, docker
    <2>3. \A b \in Brokers, j \in Creates : j \in external[b] => j \in external'[b] \/ ran[j] \notin up
        BY <1>c, <1>p, <1>t, <1>o, <1>2, <2>1 DEF PickPending, TxAt, TxGoto, On, disk, memory, docker, Calls, Pendings
    <2>4. \/ tx'[c].step = "reject" /\ tx'[c].on = tx[c].on
          \/ \E k \in Creates : /\ tx'[c].on = k /\ pending[ran[c]][k] # "absent"
                                /\ k \in external[ran[c]] => ran[k] \notin up
                                /\ \/ pending[ran[c]][k] = "id" /\ tx'[c].step = "remove"
                                   \/ tx'[c].step = "recover"
        <3>1. CASE TxGoto(c, "reject")  BY <1>c, <1>2, <3>1 DEF TxGoto, Calls
        <3>2. CASE ~TxGoto(c, "reject")
            <4>1. PICK k \in Creates :
                     /\ pending[ran[c]][k] # "absent" /\ (k \in external[ran[c]] => ran[k] \notin up)
                     /\ tx' = [tx EXCEPT ![c].on = k, ![c].step = IF pending[ran[c]][k] = "id" THEN "remove" ELSE "recover"]
                BY <1>2, <3>2 DEF PickPending
            <4>2. tx'[c].on = k /\ tx'[c].step = IF pending[ran[c]][k] = "id" THEN "remove" ELSE "recover"
                BY <1>c, <4>1 DEF Calls
            <4> QED  BY <4>1, <4>2
        <3> QED  BY <3>1, <3>2
    <2>m. \A d \in Creates : Young(d)' => Young(d)
        BY <1>i, <1>o, <2>1, <2>2, <2>3, <2>4 DEF Young, Working, OnOwn
    <2>w. \A d \in Creates : Works(d)' => (Works(d) /\ tx'[d].on = tx[d].on) \/ (tx'[d].on = d /\ ~Young(d)) \/ (d = c /\ tx'[c].on \in Creates /\ pending[ran[c]][tx'[c].on] # "absent")
        BY <1>i, <1>o, <2>1, <2>2, <2>3, <2>4 DEF Works, Working, OnOwn, Young
    <2>g0. YoungIsClean'  BY <1>i, <2>m, <2>1, <2>2, <2>3, <2>4 DEF YoungIsClean
    <2>g1. YoungIsForgotten'  BY <1>i, <2>m, <2>1, <2>2, <2>3, <2>4 DEF YoungIsForgotten
    <2>g2. YoungIsLeft'  BY <1>i, <1>t, <2>m, <2>w, <2>1 DEF YoungIsLeft, YoungIsForgotten
    <2>g3. OnOwn'  BY <1>i, <1>o, <2>1, <2>2, <2>3, <2>4 DEF OnOwn, Working
    <2>g4. AskedOnce'  BY <1>i, <2>m, <2>1, <2>2, <2>3, <2>4 DEF AskedOnce, YoungIsClean
    <2>g5. IdIsReal'  BY <1>i, <1>o, <1>t, <2>1, <2>2, <2>3, <2>4 DEF IdIsReal, OnOwn, AskedOnce, Working
    <2>g6. Recorded'  BY <1>i, <1>o, <1>t, <2>1, <2>2, <2>3, <2>4 DEF Recorded, IdIsReal, AskedOnce
    <2>g7. OthersAreExternal'  BY <1>i, <1>o, <1>t, <2>1, <2>2, <2>3, <2>4 DEF OthersAreExternal
    <2>g8. OthersAreDead'
        <3> SUFFICES ASSUME NEW d \in Creates, Works(d)' PROVE ran[tx'[d].on] = ran[d] \/ ran[tx'[d].on] \notin up
            BY <2>1 DEF OthersAreDead
        <3>1. CASE d # c  BY <1>i, <2>2, <3>1 DEF OthersAreDead, Works
        <3>2. CASE d = c  BY <1>i, <2>1, <2>4, <3>2 DEF OthersAreExternal, Works, Working
        <3> QED  BY <3>1, <3>2
    <2> QED  BY <2>g0, <2>g1, <2>g2, <2>g3, <2>g4, <2>g5, <2>g6, <2>g7, <2>g8 DEF TxSafe
<1>3. ASSUME NEW c \in Creates, Recover(c) PROVE TxSafe'
    <2>1. tx[c].step = "recover" /\ ran[c] \in up /\ ran[c] \in Brokers /\ UNCHANGED <<rec, box, asked, ran, up, live, external>>
        BY <1>t, <1>3 DEF Recover, TxAt, TxGoto, On, disk, memory, docker
    <2>2. \A d \in Creates \ {c} : tx'[d] = tx[d]  BY <1>c, <1>3 DEF Recover, TxAt, TxGoto, On, disk, memory, docker
    <2>3. \/ /\ box[tx[c].on] = "up" /\ tx'[c].step = "temp" /\ tx'[c].on = tx[c].on /\ missed' = missed
             /\ \A b \in Brokers, j \in Creates : pending'[b][j] = IF b = ran[c] /\ j = tx[c].on THEN "id" ELSE pending[b][j]
          \/ /\ tx'[c].step = "clear" /\ tx'[c].on = tx[c].on /\ missed' = missed \cup {tx[c].on} /\ pending' = pending
        BY <1>c, <1>p, <1>t, <1>o, <1>3, <2>1 DEF Recover, TxAt, TxGoto, On, disk, memory, docker, Calls, Pendings
    <2>m. \A d \in Creates : Young(d)' => Young(d)
        BY <1>i, <1>o, <2>1, <2>2, <2>3 DEF Young, Working, OnOwn
    <2>w. \A d \in Creates : Works(d)' => (Works(d) /\ tx'[d].on = tx[d].on) \/ (tx'[d].on = d /\ ~Young(d))
        BY <1>i, <1>o, <2>1, <2>2, <2>3 DEF Works, Working, OnOwn, Young
    <2>y. ~Young(tx[c].on)  BY <1>i, <1>o, <2>1 DEF YoungIsLeft, Works, Working
    <2>g0. YoungIsClean'  BY <1>i, <2>m, <2>y, <2>1, <2>2, <2>3 DEF YoungIsClean
    <2>g1. YoungIsForgotten'  BY <1>i, <2>m, <2>y, <2>1, <2>2, <2>3 DEF YoungIsForgotten
    <2>g2. YoungIsLeft'  BY <1>i, <1>o, <2>m, <2>w, <2>1, <2>2, <2>3 DEF YoungIsLeft
    <2>g3. OnOwn'  BY <1>i, <1>o, <2>1, <2>2, <2>3 DEF OnOwn, Working
    <2>g4. AskedOnce'  BY <1>i, <2>m, <2>1, <2>2, <2>3 DEF AskedOnce, YoungIsClean
    <2>g5. IdIsReal'  BY <1>i, <1>o, <1>t, <2>1, <2>2, <2>3 DEF IdIsReal, OnOwn, AskedOnce, Working
    <2>g6. Recorded'  BY <1>i, <1>o, <1>t, <2>1, <2>2, <2>3 DEF Recorded, IdIsReal, AskedOnce
    <2>g7. OthersAreExternal'
        <3>1. ran[tx[c].on] = ran[c] \/ ran[tx[c].on] \notin up  BY <1>i, <2>1 DEF OthersAreDead, Works, Working
        <3> QED  BY <1>i, <1>o, <2>1, <2>3, <3>1 DEF OthersAreExternal
    <2>g8. OthersAreDead'  BY <1>i, <1>o, <1>t, <2>w, <2>1, <2>2, <2>3 DEF OthersAreDead
    <2> QED  BY <2>g0, <2>g1, <2>g2, <2>g3, <2>g4, <2>g5, <2>g6, <2>g7, <2>g8 DEF TxSafe
<1>4. ASSUME NEW c \in Creates, WriteTemporary(c) PROVE TxSafe'
    <2>1. tx[c].step = "temp" /\ ran[c] \in up /\ ran[c] \in Brokers /\ UNCHANGED <<rec, box, asked, ran, up, pending, live, external, missed>>
        BY <1>t, <1>4 DEF WriteTemporary, TxAt, TxGoto, On, disk, memory, docker
    <2>2. \A d \in Creates \ {c} : tx'[d] = tx[d]  BY <1>c, <1>4 DEF WriteTemporary, TxAt, TxGoto, On, disk, memory, docker
    <2>3. tx'[c].step = "rename" /\ tx'[c].on = tx[c].on
        BY <1>c, <1>p, <1>t, <1>o, <1>4, <2>1 DEF WriteTemporary, TxAt, TxGoto, On, disk, memory, docker, Calls, Pendings
    <2>m. \A d \in Creates : Young(d)' => Young(d)
        BY <1>i, <1>o, <2>1, <2>2, <2>3 DEF Young, Working, OnOwn
    <2>w. \A d \in Creates : Works(d)' => (Works(d) /\ tx'[d].on = tx[d].on) \/ (tx'[d].on = d /\ ~Young(d))
        BY <1>i, <1>o, <2>1, <2>2, <2>3 DEF Works, Working, OnOwn, Young
    <2>y. ~Young(tx[c].on)  BY <1>i, <1>o, <2>1 DEF YoungIsLeft, Works, Working
    <2>g0. YoungIsClean'  BY <1>i, <2>m, <2>y, <2>1, <2>2, <2>3 DEF YoungIsClean
    <2>g1. YoungIsForgotten'  BY <1>i, <2>m, <2>y, <2>1, <2>2, <2>3 DEF YoungIsForgotten
    <2>g2. YoungIsLeft'  BY <1>i, <1>o, <2>m, <2>w, <2>1, <2>2, <2>3 DEF YoungIsLeft
    <2>g3. OnOwn'  BY <1>i, <1>o, <2>1, <2>2, <2>3 DEF OnOwn, Working
    <2>g4. AskedOnce'  BY <1>i, <2>m, <2>1, <2>2, <2>3 DEF AskedOnce, YoungIsClean
    <2>g5. IdIsReal'  BY <1>i, <1>o, <1>t, <2>1, <2>2, <2>3 DEF IdIsReal, OnOwn, AskedOnce, Working
    <2>g6. Recorded'  BY <1>i, <1>o, <1>t, <2>1, <2>2, <2>3 DEF Recorded, IdIsReal, AskedOnce
    <2>g7. OthersAreExternal'  BY <1>i, <1>o, <1>t, <2>1, <2>2, <2>3 DEF OthersAreExternal
    <2>g8. OthersAreDead'  BY <1>i, <1>o, <1>t, <2>w, <2>1, <2>2, <2>3 DEF OthersAreDead
    <2> QED  BY <2>g0, <2>g1, <2>g2, <2>g3, <2>g4, <2>g5, <2>g6, <2>g7, <2>g8 DEF TxSafe
<1>5. ASSUME NEW c \in Creates, RenameRecord(c) PROVE TxSafe'
    <2>1. tx[c].step = "rename" /\ ran[c] \in up /\ ran[c] \in Brokers /\ UNCHANGED <<box, asked, ran, up, pending, live, external, missed>>
        BY <1>t, <1>5 DEF RenameRecord, TxAt, TxGoto, On, disk, memory, docker
    <2>2. \A d \in Creates \ {c} : tx'[d] = tx[d]  BY <1>c, <1>5 DEF RenameRecord, TxAt, TxGoto, On, disk, memory, docker
    <2>3. tx'[c].step = (IF tx[c].on = c THEN "inspect" ELSE "remove") /\ tx'[c].on = tx[c].on
        BY <1>c, <1>p, <1>t, <1>o, <1>5, <2>1 DEF RenameRecord, TxAt, TxGoto, On, disk, memory, docker, Calls, Pendings
    <2>4. \A j \in Creates : rec'[j] = IF j = tx[c].on THEN "id" ELSE rec[j]
        BY <1>c, <1>p, <1>t, <1>o, <1>5, <2>1 DEF RenameRecord, TxAt, TxGoto, On, disk, memory, docker, Calls, Pendings
    <2>m. \A d \in Creates : Young(d)' => Young(d)
        BY <1>i, <1>o, <2>1, <2>2, <2>3, <2>4 DEF Young, Working, OnOwn
    <2>w. \A d \in Creates : Works(d)' => (Works(d) /\ tx'[d].on = tx[d].on) \/ (tx'[d].on = d /\ ~Young(d))
        BY <1>i, <1>o, <2>1, <2>2, <2>3, <2>4 DEF Works, Working, OnOwn, Young
    <2>y. ~Young(tx[c].on)  BY <1>i, <1>o, <2>1 DEF YoungIsLeft, Works, Working
    <2>g0. YoungIsClean'  BY <1>i, <2>m, <2>y, <2>1, <2>2, <2>3, <2>4 DEF YoungIsClean
    <2>g1. YoungIsForgotten'  BY <1>i, <2>m, <2>y, <2>1, <2>2, <2>3, <2>4 DEF YoungIsForgotten
    <2>g2. YoungIsLeft'  BY <1>i, <1>o, <2>m, <2>w, <2>1, <2>2, <2>3, <2>4 DEF YoungIsLeft
    <2>g3. OnOwn'  BY <1>i, <1>o, <2>1, <2>2, <2>3, <2>4 DEF OnOwn, Working
    <2>g4. AskedOnce'  BY <1>i, <2>m, <2>1, <2>2, <2>3, <2>4 DEF AskedOnce, YoungIsClean
    <2>g5. IdIsReal'  BY <1>i, <1>o, <1>t, <2>1, <2>2, <2>3, <2>4 DEF IdIsReal, OnOwn, AskedOnce, Working
    <2>g6. Recorded'  BY <1>i, <1>o, <1>t, <2>1, <2>2, <2>3, <2>4 DEF Recorded, IdIsReal, AskedOnce
    <2>g7. OthersAreExternal'  BY <1>i, <1>o, <1>t, <2>1, <2>2, <2>3, <2>4 DEF OthersAreExternal
    <2>g8. OthersAreDead'  BY <1>i, <1>o, <1>t, <2>w, <2>1, <2>2, <2>3, <2>4 DEF OthersAreDead
    <2> QED  BY <2>g0, <2>g1, <2>g2, <2>g3, <2>g4, <2>g5, <2>g6, <2>g7, <2>g8 DEF TxSafe
<1>6. ASSUME NEW c \in Creates, RemoveContainer(c) PROVE TxSafe'
    <2>1. tx[c].step = "remove" /\ ran[c] \in up /\ ran[c] \in Brokers /\ UNCHANGED <<rec, asked, ran, up, pending, live, external, missed>>
        BY <1>t, <1>6 DEF RemoveContainer, TxAt, TxGoto, On, disk, memory, docker
    <2>2. \A d \in Creates \ {c} : tx'[d] = tx[d]  BY <1>c, <1>6 DEF RemoveContainer, TxAt, TxGoto, On, disk, memory, docker
    <2>3. tx'[c].step = "clear" /\ tx'[c].on = tx[c].on
        BY <1>c, <1>p, <1>t, <1>o, <1>6, <2>1 DEF RemoveContainer, TxAt, TxGoto, On, disk, memory, docker, Calls, Pendings
    <2>4. \A j \in Creates : box'[j] = IF j = tx[c].on /\ box[j] = "up" THEN "gone" ELSE box[j]
        BY <1>c, <1>p, <1>t, <1>o, <1>6, <2>1 DEF RemoveContainer, TxAt, TxGoto, On, disk, memory, docker, Calls, Pendings
    <2>m. \A d \in Creates : Young(d)' => Young(d)
        BY <1>i, <1>o, <2>1, <2>2, <2>3, <2>4 DEF Young, Working, OnOwn
    <2>w. \A d \in Creates : Works(d)' => (Works(d) /\ tx'[d].on = tx[d].on) \/ (tx'[d].on = d /\ ~Young(d))
        BY <1>i, <1>o, <2>1, <2>2, <2>3, <2>4 DEF Works, Working, OnOwn, Young
    <2>y. ~Young(tx[c].on)  BY <1>i, <1>o, <2>1 DEF YoungIsLeft, Works, Working
    <2>g0. YoungIsClean'  BY <1>i, <2>m, <2>y, <2>1, <2>2, <2>3, <2>4 DEF YoungIsClean
    <2>g1. YoungIsForgotten'  BY <1>i, <2>m, <2>y, <2>1, <2>2, <2>3, <2>4 DEF YoungIsForgotten
    <2>g2. YoungIsLeft'  BY <1>i, <1>o, <2>m, <2>w, <2>1, <2>2, <2>3, <2>4 DEF YoungIsLeft
    <2>g3. OnOwn'  BY <1>i, <1>o, <2>1, <2>2, <2>3, <2>4 DEF OnOwn, Working
    <2>g4. AskedOnce'  BY <1>i, <2>m, <2>1, <2>2, <2>3, <2>4 DEF AskedOnce, YoungIsClean
    <2>g5. IdIsReal'  BY <1>i, <1>o, <1>t, <2>1, <2>2, <2>3, <2>4 DEF IdIsReal, OnOwn, AskedOnce, Working
    <2>g6. Recorded'  BY <1>i, <1>o, <1>t, <2>1, <2>2, <2>3, <2>4 DEF Recorded, IdIsReal, AskedOnce
    <2>g7. OthersAreExternal'  BY <1>i, <1>o, <1>t, <2>1, <2>2, <2>3, <2>4 DEF OthersAreExternal
    <2>g8. OthersAreDead'  BY <1>i, <1>o, <1>t, <2>w, <2>1, <2>2, <2>3, <2>4 DEF OthersAreDead
    <2> QED  BY <2>g0, <2>g1, <2>g2, <2>g3, <2>g4, <2>g5, <2>g6, <2>g7, <2>g8 DEF TxSafe
<1>7. ASSUME NEW c \in Creates, ClearPending(c) PROVE TxSafe'
    <2>1. tx[c].step = "clear" /\ ran[c] \in up /\ ran[c] \in Brokers /\ UNCHANGED <<box, asked, ran, up, missed>>
        BY <1>t, <1>7 DEF ClearPending, Forget, TxAt, TxGoto, On, disk, memory, docker
    <2>2. \A d \in Creates \ {c} : tx'[d] = tx[d]  BY <1>c, <1>7 DEF ClearPending, Forget, TxAt, TxGoto, On, disk, memory, docker
    <2>3. tx'[c].step = (IF tx[c].on = c THEN "ended" ELSE "pick") /\ tx'[c].on = c
        BY <1>c, <1>p, <1>t, <1>o, <1>7, <2>1 DEF ClearPending, Forget, TxAt, TxGoto, On, disk, memory, docker, Calls, Pendings
    <2>4. \A j \in Creates : rec'[j] = IF j = tx[c].on THEN "none" ELSE rec[j]
        BY <1>c, <1>p, <1>t, <1>o, <1>7, <2>1 DEF ClearPending, Forget, TxAt, TxGoto, On, disk, memory, docker, Calls, Pendings
    <2>5. \A b \in Brokers, j \in Creates : pending'[b][j] = IF b = ran[c] /\ j = tx[c].on THEN "absent" ELSE pending[b][j]
        BY <1>c, <1>p, <1>t, <1>o, <1>7, <2>1 DEF ClearPending, Forget, TxAt, TxGoto, On, disk, memory, docker, Calls, Pendings
    <2>6. live' \subseteq live
        BY <1>t, <1>o, <1>7 DEF ClearPending, Forget, On
    <2>7. \A b \in Brokers, j \in Creates : j \in external[b] => j \in external'[b] \/ (b = ran[c] /\ j = tx[c].on)
        BY <1>c, <1>p, <1>t, <1>o, <1>7, <2>1 DEF ClearPending, Forget, TxAt, TxGoto, On, disk, memory, docker, Calls, Pendings
    <2>m. \A d \in Creates : Young(d)' => Young(d)
        BY <1>i, <1>o, <2>1, <2>2, <2>3, <2>4, <2>5, <2>6, <2>7 DEF Young, Working, OnOwn
    <2>w. \A d \in Creates : Works(d)' => (Works(d) /\ tx'[d].on = tx[d].on) \/ (tx'[d].on = d /\ ~Young(d))
        BY <1>i, <1>o, <2>1, <2>2, <2>3, <2>4, <2>5, <2>6, <2>7 DEF Works, Working, OnOwn, Young
    <2>y. ~Young(tx[c].on)  BY <1>i, <1>o, <2>1 DEF YoungIsLeft, Works, Working
    <2>g0. YoungIsClean'  BY <1>i, <2>m, <2>y, <2>1, <2>2, <2>3, <2>4, <2>5, <2>6, <2>7 DEF YoungIsClean
    <2>g1. YoungIsForgotten'  BY <1>i, <2>m, <2>y, <2>1, <2>2, <2>3, <2>4, <2>5, <2>6, <2>7 DEF YoungIsForgotten
    <2>g2. YoungIsLeft'  BY <1>i, <1>o, <2>m, <2>w, <2>1, <2>2, <2>3, <2>4, <2>5, <2>6, <2>7 DEF YoungIsLeft
    <2>g3. OnOwn'  BY <1>i, <1>o, <2>1, <2>2, <2>3, <2>4, <2>5, <2>6, <2>7 DEF OnOwn, Working
    <2>g4. AskedOnce'  BY <1>i, <2>m, <2>1, <2>2, <2>3, <2>4, <2>5, <2>6, <2>7 DEF AskedOnce, YoungIsClean
    <2>g5. IdIsReal'  BY <1>i, <1>o, <1>t, <2>1, <2>2, <2>3, <2>4, <2>5, <2>6, <2>7 DEF IdIsReal, OnOwn, AskedOnce, Working
    <2>g6. Recorded'  BY <1>i, <1>o, <1>t, <2>1, <2>2, <2>3, <2>4, <2>5, <2>6, <2>7 DEF Recorded, IdIsReal, AskedOnce
    <2>g7. OthersAreExternal'  BY <1>i, <1>o, <1>t, <2>1, <2>2, <2>3, <2>4, <2>5, <2>6, <2>7 DEF OthersAreExternal
    <2>g8. OthersAreDead'  BY <1>i, <1>o, <1>t, <2>w, <2>1, <2>2, <2>3, <2>4, <2>5, <2>6, <2>7 DEF OthersAreDead
    <2> QED  BY <2>g0, <2>g1, <2>g2, <2>g3, <2>g4, <2>g5, <2>g6, <2>g7, <2>g8 DEF TxSafe
<1>8. ASSUME NEW c \in Creates, RejectUnknown(c) PROVE TxSafe'
    <2>1. tx[c].step = "reject" /\ ran[c] \in up /\ ran[c] \in Brokers /\ UNCHANGED <<rec, box, asked, ran, up, pending, live, external, missed>>
        BY <1>t, <1>8 DEF RejectUnknown, TxAt, TxGoto, On, disk, memory, docker
    <2>2. \A d \in Creates \ {c} : tx'[d] = tx[d]  BY <1>c, <1>8 DEF RejectUnknown, TxAt, TxGoto, On, disk, memory, docker
    <2>3. tx'[c].step \in {"intent", "load", "ended"} /\ tx'[c].on = tx[c].on
        BY <1>c, <1>p, <1>t, <1>o, <1>8, <2>1 DEF RejectUnknown, TxAt, TxGoto, On, disk, memory, docker, Calls, Pendings
    <2>m. \A d \in Creates : Young(d)' => Young(d)
        BY <1>i, <1>o, <2>1, <2>2, <2>3 DEF Young, Working, OnOwn
    <2>w. \A d \in Creates : Works(d)' => (Works(d) /\ tx'[d].on = tx[d].on) \/ (tx'[d].on = d /\ ~Young(d))
        BY <1>i, <1>o, <2>1, <2>2, <2>3 DEF Works, Working, OnOwn, Young
    <2>g0. YoungIsClean'  BY <1>i, <2>m, <2>1, <2>2, <2>3 DEF YoungIsClean
    <2>g1. YoungIsForgotten'  BY <1>i, <2>m, <2>1, <2>2, <2>3 DEF YoungIsForgotten
    <2>g2. YoungIsLeft'  BY <1>i, <1>o, <2>m, <2>w, <2>1, <2>2, <2>3 DEF YoungIsLeft
    <2>g3. OnOwn'  BY <1>i, <1>o, <2>1, <2>2, <2>3 DEF OnOwn, Working
    <2>g4. AskedOnce'  BY <1>i, <2>m, <2>1, <2>2, <2>3 DEF AskedOnce, YoungIsClean
    <2>g5. IdIsReal'  BY <1>i, <1>o, <1>t, <2>1, <2>2, <2>3 DEF IdIsReal, OnOwn, AskedOnce, Working
    <2>g6. Recorded'  BY <1>i, <1>o, <1>t, <2>1, <2>2, <2>3 DEF Recorded, IdIsReal, AskedOnce
    <2>g7. OthersAreExternal'  BY <1>i, <1>o, <1>t, <2>1, <2>2, <2>3 DEF OthersAreExternal
    <2>g8. OthersAreDead'  BY <1>i, <1>o, <1>t, <2>w, <2>1, <2>2, <2>3 DEF OthersAreDead
    <2> QED  BY <2>g0, <2>g1, <2>g2, <2>g3, <2>g4, <2>g5, <2>g6, <2>g7, <2>g8 DEF TxSafe
<1>9. ASSUME NEW c \in Creates, WriteIntent(c) PROVE TxSafe'
    <2>1. tx[c].step = "intent" /\ ran[c] \in up /\ ran[c] \in Brokers /\ UNCHANGED <<box, asked, ran, up, pending, live, external, missed>>
        BY <1>t, <1>9 DEF WriteIntent, TxAt, TxGoto, On, disk, memory, docker
    <2>2. \A d \in Creates \ {c} : tx'[d] = tx[d]  BY <1>c, <1>9 DEF WriteIntent, TxAt, TxGoto, On, disk, memory, docker
    <2>3. tx'[c].step = "intended" /\ tx'[c].on = tx[c].on
        BY <1>c, <1>p, <1>t, <1>o, <1>9, <2>1 DEF WriteIntent, TxAt, TxGoto, On, disk, memory, docker, Calls, Pendings
    <2>4. \A j \in Creates : rec'[j] = IF j = c THEN "torn" ELSE rec[j]
        BY <1>t, <1>o, <1>9 DEF WriteIntent, On
    <2>m. \A d \in Creates : Young(d)' => Young(d)
        BY <1>i, <1>o, <2>1, <2>2, <2>3, <2>4 DEF Young, Working, OnOwn
    <2>w. \A d \in Creates : Works(d)' => (Works(d) /\ tx'[d].on = tx[d].on) \/ (tx'[d].on = d /\ ~Young(d))
        BY <1>i, <1>o, <2>1, <2>2, <2>3, <2>4 DEF Works, Working, OnOwn, Young
    <2>g0. YoungIsClean'  BY <1>i, <2>m, <2>1, <2>2, <2>3, <2>4 DEF YoungIsClean
    <2>g1. YoungIsForgotten'  BY <1>i, <2>m, <2>1, <2>2, <2>3, <2>4 DEF YoungIsForgotten
    <2>g2. YoungIsLeft'  BY <1>i, <1>o, <2>m, <2>w, <2>1, <2>2, <2>3, <2>4 DEF YoungIsLeft
    <2>g3. OnOwn'  BY <1>i, <1>o, <2>1, <2>2, <2>3, <2>4 DEF OnOwn, Working
    <2>g4. AskedOnce'  BY <1>i, <2>m, <2>1, <2>2, <2>3, <2>4 DEF AskedOnce, YoungIsClean
    <2>g5. IdIsReal'  BY <1>i, <1>o, <1>t, <2>1, <2>2, <2>3, <2>4 DEF IdIsReal, OnOwn, AskedOnce, Working
    <2>g6. Recorded'
        <3>1. Young(c)  BY <2>1 DEF Young
        <3> QED  BY <1>i, <2>1, <2>2, <2>3, <2>4, <3>1 DEF Recorded, YoungIsClean
    <2>g7. OthersAreExternal'  BY <1>i, <1>o, <1>t, <2>1, <2>2, <2>3, <2>4 DEF OthersAreExternal
    <2>g8. OthersAreDead'  BY <1>i, <1>o, <1>t, <2>w, <2>1, <2>2, <2>3, <2>4 DEF OthersAreDead
    <2> QED  BY <2>g0, <2>g1, <2>g2, <2>g3, <2>g4, <2>g5, <2>g6, <2>g7, <2>g8 DEF TxSafe
<1>10. ASSUME NEW c \in Creates, EndIntent(c) PROVE TxSafe'
    <2>1. tx[c].step = "intended" /\ ran[c] \in up /\ ran[c] \in Brokers /\ UNCHANGED <<box, asked, ran, up, live, external, missed>>
        BY <1>t, <1>10 DEF EndIntent, TxAt, TxGoto, On, disk, memory, docker
    <2>2. \A d \in Creates \ {c} : tx'[d] = tx[d]  BY <1>c, <1>10 DEF EndIntent, TxAt, TxGoto, On, disk, memory, docker
    <2>3. tx'[c].step = "ask" /\ tx'[c].on = tx[c].on
        BY <1>c, <1>p, <1>t, <1>o, <1>10, <2>1 DEF EndIntent, TxAt, TxGoto, On, disk, memory, docker, Calls, Pendings
    <2>4. \A j \in Creates : rec'[j] = IF j = c THEN "intent" ELSE rec[j]
        BY <1>t, <1>o, <1>10 DEF EndIntent, On
    <2>5. \A b \in Brokers, j \in Creates : pending'[b][j] = IF b = ran[c] /\ j = c THEN "intent" ELSE pending[b][j]
        BY <1>c, <1>p, <1>t, <1>o, <1>10, <2>1 DEF EndIntent, TxAt, TxGoto, On, disk, memory, docker, Calls, Pendings
    <2>m. \A d \in Creates : Young(d)' => Young(d)
        BY <1>i, <1>o, <2>1, <2>2, <2>3, <2>4, <2>5 DEF Young, Working, OnOwn
    <2>w. \A d \in Creates : Works(d)' => (Works(d) /\ tx'[d].on = tx[d].on) \/ (tx'[d].on = d /\ ~Young(d))
        BY <1>i, <1>o, <2>1, <2>2, <2>3, <2>4, <2>5 DEF Works, Working, OnOwn, Young
    <2>y. ~Young(c)'  BY <1>i, <2>1, <2>2, <2>3, <2>4, <2>5 DEF Young, Working, OnOwn
    <2>g0. YoungIsClean'  BY <1>i, <2>m, <2>y, <2>1, <2>2, <2>3, <2>4, <2>5 DEF YoungIsClean
    <2>g1. YoungIsForgotten'  BY <1>i, <2>m, <2>y, <2>1, <2>2, <2>3, <2>4, <2>5 DEF YoungIsForgotten
    <2>g2. YoungIsLeft'  BY <1>i, <1>o, <2>m, <2>w, <2>1, <2>2, <2>3, <2>4, <2>5 DEF YoungIsLeft
    <2>g3. OnOwn'  BY <1>i, <1>o, <2>1, <2>2, <2>3, <2>4, <2>5 DEF OnOwn, Working
    <2>g4. AskedOnce'
        <3>1. Young(c)  BY <2>1 DEF Young
        <3> QED  BY <1>i, <2>1, <2>2, <2>3, <3>1 DEF AskedOnce, YoungIsClean
    <2>g5. IdIsReal'  BY <1>i, <1>o, <1>t, <2>1, <2>2, <2>3, <2>4, <2>5 DEF IdIsReal, OnOwn, AskedOnce, Working
    <2>g6. Recorded'  BY <1>i, <1>o, <1>t, <2>1, <2>2, <2>3, <2>4, <2>5 DEF Recorded, IdIsReal, AskedOnce
    <2>g7. OthersAreExternal'  BY <1>i, <1>o, <1>t, <2>1, <2>2, <2>3, <2>4, <2>5 DEF OthersAreExternal
    <2>g8. OthersAreDead'  BY <1>i, <1>o, <1>t, <2>w, <2>1, <2>2, <2>3, <2>4, <2>5 DEF OthersAreDead
    <2> QED  BY <2>g0, <2>g1, <2>g2, <2>g3, <2>g4, <2>g5, <2>g6, <2>g7, <2>g8 DEF TxSafe
<1>11. ASSUME NEW c \in Creates, AskDocker(c) PROVE TxSafe'
    <2>1. tx[c].step = "ask" /\ ran[c] \in up /\ ran[c] \in Brokers /\ UNCHANGED <<rec, box, ran, up, pending, live, external, missed>>
        BY <1>t, <1>11 DEF AskDocker, TxAt, TxGoto, On, disk, memory, docker
    <2>2. \A d \in Creates \ {c} : tx'[d] = tx[d]  BY <1>c, <1>11 DEF AskDocker, TxAt, TxGoto, On, disk, memory, docker
    <2>3. tx'[c].step = "answer" /\ tx'[c].on = tx[c].on
        BY <1>c, <1>p, <1>t, <1>o, <1>11, <2>1 DEF AskDocker, TxAt, TxGoto, On, disk, memory, docker, Calls, Pendings
    <2>4. asked' = asked \cup {c}
        BY <1>t, <1>o, <1>11 DEF AskDocker, On
    <2>m. \A d \in Creates : Young(d)' => Young(d)
        BY <1>i, <1>o, <2>1, <2>2, <2>3, <2>4 DEF Young, Working, OnOwn
    <2>w. \A d \in Creates : Works(d)' => (Works(d) /\ tx'[d].on = tx[d].on) \/ (tx'[d].on = d /\ ~Young(d))
        BY <1>i, <1>o, <2>1, <2>2, <2>3, <2>4 DEF Works, Working, OnOwn, Young
    <2>y. ~Young(c)'  BY <1>i, <2>1, <2>2, <2>3, <2>4 DEF Young, Working, OnOwn
    <2>g0. YoungIsClean'  BY <1>i, <2>m, <2>y, <2>1, <2>2, <2>3, <2>4 DEF YoungIsClean
    <2>g1. YoungIsForgotten'  BY <1>i, <2>m, <2>y, <2>1, <2>2, <2>3, <2>4 DEF YoungIsForgotten
    <2>g2. YoungIsLeft'  BY <1>i, <1>o, <2>m, <2>w, <2>1, <2>2, <2>3, <2>4 DEF YoungIsLeft
    <2>g3. OnOwn'  BY <1>i, <1>o, <2>1, <2>2, <2>3, <2>4 DEF OnOwn, Working
    <2>g4. AskedOnce'  BY <1>i, <2>m, <2>1, <2>2, <2>3, <2>4 DEF AskedOnce, YoungIsClean
    <2>g5. IdIsReal'  BY <1>i, <1>o, <1>t, <2>1, <2>2, <2>3, <2>4 DEF IdIsReal, OnOwn, AskedOnce, Working
    <2>g6. Recorded'  BY <1>i, <1>o, <1>t, <2>1, <2>2, <2>3, <2>4 DEF Recorded, IdIsReal, AskedOnce
    <2>g7. OthersAreExternal'  BY <1>i, <1>o, <1>t, <2>1, <2>2, <2>3, <2>4 DEF OthersAreExternal
    <2>g8. OthersAreDead'  BY <1>i, <1>o, <1>t, <2>w, <2>1, <2>2, <2>3, <2>4 DEF OthersAreDead
    <2> QED  BY <2>g0, <2>g1, <2>g2, <2>g3, <2>g4, <2>g5, <2>g6, <2>g7, <2>g8 DEF TxSafe
<1>12. ASSUME NEW c \in Creates, CreateAnswers(c) PROVE TxSafe'
    <2>1. tx[c].step = "answer" /\ ran[c] \in up /\ ran[c] \in Brokers /\ UNCHANGED <<rec, box, asked, ran, up, live, external, missed>>
        BY <1>t, <1>12 DEF CreateAnswers, TxAt, TxGoto, On, disk, memory, docker
    <2>2. \A d \in Creates \ {c} : tx'[d] = tx[d]  BY <1>c, <1>12 DEF CreateAnswers, TxAt, TxGoto, On, disk, memory, docker
    <2>3. \/ /\ box[c] # "none" /\ tx'[c].step = "temp" /\ tx'[c].on = tx[c].on
             /\ \A b \in Brokers, j \in Creates : pending'[b][j] = IF b = ran[c] /\ j = c THEN "id" ELSE pending[b][j]
          \/ tx'[c].step = "recover" /\ tx'[c].on = tx[c].on /\ pending' = pending
        BY <1>c, <1>p, <1>t, <1>o, <1>12, <2>1 DEF CreateAnswers, TxAt, TxGoto, On, disk, memory, docker, Calls, Pendings
    <2>m. \A d \in Creates : Young(d)' => Young(d)
        BY <1>i, <1>o, <2>1, <2>2, <2>3 DEF Young, Working, OnOwn
    <2>w. \A d \in Creates : Works(d)' => (Works(d) /\ tx'[d].on = tx[d].on) \/ (tx'[d].on = d /\ ~Young(d))
        BY <1>i, <1>o, <2>1, <2>2, <2>3 DEF Works, Working, OnOwn, Young
    <2>y. ~Young(c)'  BY <1>i, <2>1, <2>2, <2>3 DEF Young, Working, OnOwn
    <2>g0. YoungIsClean'  BY <1>i, <2>m, <2>y, <2>1, <2>2, <2>3 DEF YoungIsClean
    <2>g1. YoungIsForgotten'  BY <1>i, <2>m, <2>y, <2>1, <2>2, <2>3 DEF YoungIsForgotten
    <2>g2. YoungIsLeft'  BY <1>i, <1>o, <2>m, <2>w, <2>1, <2>2, <2>3 DEF YoungIsLeft
    <2>g3. OnOwn'  BY <1>i, <1>o, <2>1, <2>2, <2>3 DEF OnOwn, Working
    <2>g4. AskedOnce'  BY <1>i, <2>m, <2>1, <2>2, <2>3 DEF AskedOnce, YoungIsClean
    <2>g5. IdIsReal'  BY <1>i, <1>o, <1>t, <2>1, <2>2, <2>3 DEF IdIsReal, OnOwn, AskedOnce, Working
    <2>g6. Recorded'  BY <1>i, <1>o, <1>t, <2>1, <2>2, <2>3 DEF Recorded, IdIsReal, AskedOnce
    <2>g7. OthersAreExternal'  BY <1>i, <1>o, <1>t, <2>1, <2>2, <2>3 DEF OthersAreExternal
    <2>g8. OthersAreDead'  BY <1>i, <1>o, <1>t, <2>w, <2>1, <2>2, <2>3 DEF OthersAreDead
    <2> QED  BY <2>g0, <2>g1, <2>g2, <2>g3, <2>g4, <2>g5, <2>g6, <2>g7, <2>g8 DEF TxSafe
<1>13. ASSUME NEW c \in Creates, InspectOwned(c) PROVE TxSafe'
    <2>1. tx[c].step = "inspect" /\ ran[c] \in up /\ ran[c] \in Brokers /\ UNCHANGED <<rec, box, asked, ran, up, pending, external, missed>>
        BY <1>t, <1>13 DEF InspectOwned, TxAt, TxGoto, On, disk, memory, docker
    <2>2. \A d \in Creates \ {c} : tx'[d] = tx[d]  BY <1>c, <1>13 DEF InspectOwned, TxAt, TxGoto, On, disk, memory, docker
    <2>3. /\ tx'[c].on = tx[c].on
          /\ \/ tx'[c].step \in {"ended", "remove"} /\ live' = live
             \/ tx'[c].step = "held" /\ live' = live \cup {c}
        BY <1>c, <1>p, <1>t, <1>o, <1>13, <2>1 DEF InspectOwned, TxAt, TxGoto, On, disk, memory, docker, Calls, Pendings
    <2>m. \A d \in Creates : Young(d)' => Young(d)
        BY <1>i, <1>o, <2>1, <2>2, <2>3 DEF Young, Working, OnOwn
    <2>w. \A d \in Creates : Works(d)' => (Works(d) /\ tx'[d].on = tx[d].on) \/ (tx'[d].on = d /\ ~Young(d))
        BY <1>i, <1>o, <2>1, <2>2, <2>3 DEF Works, Working, OnOwn, Young
    <2>g0. YoungIsClean'  BY <1>i, <2>m, <2>1, <2>2, <2>3 DEF YoungIsClean
    <2>g1. YoungIsForgotten'  BY <1>i, <2>m, <2>1, <2>2, <2>3 DEF YoungIsForgotten
    <2>g2. YoungIsLeft'  BY <1>i, <1>o, <2>m, <2>w, <2>1, <2>2, <2>3 DEF YoungIsLeft
    <2>g3. OnOwn'  BY <1>i, <1>o, <2>1, <2>2, <2>3 DEF OnOwn, Working
    <2>g4. AskedOnce'  BY <1>i, <2>m, <2>1, <2>2, <2>3 DEF AskedOnce, YoungIsClean
    <2>g5. IdIsReal'  BY <1>i, <1>o, <1>t, <2>1, <2>2, <2>3 DEF IdIsReal, OnOwn, AskedOnce, Working
    <2>g6. Recorded'  BY <1>i, <1>o, <1>t, <2>1, <2>2, <2>3 DEF Recorded, IdIsReal, AskedOnce
    <2>g7. OthersAreExternal'  BY <1>i, <1>o, <1>t, <2>1, <2>2, <2>3 DEF OthersAreExternal
    <2>g8. OthersAreDead'  BY <1>i, <1>o, <1>t, <2>w, <2>1, <2>2, <2>3 DEF OthersAreDead
    <2> QED  BY <2>g0, <2>g1, <2>g2, <2>g3, <2>g4, <2>g5, <2>g6, <2>g7, <2>g8 DEF TxSafe
<1>14. ASSUME NEW c \in Creates, ReleaseContainer(c) PROVE TxSafe'
    <2>1. tx[c].step = "held" /\ ran[c] \in up /\ ran[c] \in Brokers /\ UNCHANGED <<rec, box, asked, ran, up, pending, live, external, missed>>
        BY <1>t, <1>14 DEF ReleaseContainer, TxAt, TxGoto, On, disk, memory, docker
    <2>2. \A d \in Creates \ {c} : tx'[d] = tx[d]  BY <1>c, <1>14 DEF ReleaseContainer, TxAt, TxGoto, On, disk, memory, docker
    <2>3. tx'[c].step = "remove" /\ tx'[c].on = tx[c].on
        BY <1>c, <1>p, <1>t, <1>o, <1>14, <2>1 DEF ReleaseContainer, TxAt, TxGoto, On, disk, memory, docker, Calls, Pendings
    <2>m. \A d \in Creates : Young(d)' => Young(d)
        BY <1>i, <1>o, <2>1, <2>2, <2>3 DEF Young, Working, OnOwn
    <2>w. \A d \in Creates : Works(d)' => (Works(d) /\ tx'[d].on = tx[d].on) \/ (tx'[d].on = d /\ ~Young(d))
        BY <1>i, <1>o, <2>1, <2>2, <2>3 DEF Works, Working, OnOwn, Young
    <2>g0. YoungIsClean'  BY <1>i, <2>m, <2>1, <2>2, <2>3 DEF YoungIsClean
    <2>g1. YoungIsForgotten'  BY <1>i, <2>m, <2>1, <2>2, <2>3 DEF YoungIsForgotten
    <2>g2. YoungIsLeft'  BY <1>i, <1>o, <2>m, <2>w, <2>1, <2>2, <2>3 DEF YoungIsLeft
    <2>g3. OnOwn'  BY <1>i, <1>o, <2>1, <2>2, <2>3 DEF OnOwn, Working
    <2>g4. AskedOnce'  BY <1>i, <2>m, <2>1, <2>2, <2>3 DEF AskedOnce, YoungIsClean
    <2>g5. IdIsReal'  BY <1>i, <1>o, <1>t, <2>1, <2>2, <2>3 DEF IdIsReal, OnOwn, AskedOnce, Working
    <2>g6. Recorded'  BY <1>i, <1>o, <1>t, <2>1, <2>2, <2>3 DEF Recorded, IdIsReal, AskedOnce
    <2>g7. OthersAreExternal'  BY <1>i, <1>o, <1>t, <2>1, <2>2, <2>3 DEF OthersAreExternal
    <2>g8. OthersAreDead'  BY <1>i, <1>o, <1>t, <2>w, <2>1, <2>2, <2>3 DEF OthersAreDead
    <2> QED  BY <2>g0, <2>g1, <2>g2, <2>g3, <2>g4, <2>g5, <2>g6, <2>g7, <2>g8 DEF TxSafe
<1>15. ASSUME NEW c \in Creates, DaemonCreates(c) PROVE TxSafe'
    <2>1. /\ c \in asked /\ asked' = asked \ {c} /\ UNCHANGED <<tx, rec, ran, up, pending, live, external, missed>>
          /\ \A j \in Creates : box'[j] = box[j] \/ (j = c /\ box'[j] = "up")
        BY <1>t, <1>15 DEF DaemonCreates, disk, memory, docker
    <2>m. \A d \in Creates : Young(d)' => Young(d)
        BY <1>i, <1>o, <2>1 DEF Young, Working, OnOwn
    <2>w. \A d \in Creates : Works(d)' => (Works(d) /\ tx'[d].on = tx[d].on) \/ (tx'[d].on = d /\ ~Young(d))
        BY <1>i, <1>o, <2>1 DEF Works, Working, OnOwn, Young
    <2>y. ~Young(c)  BY <1>i, <2>1 DEF YoungIsClean
    <2>g0. YoungIsClean'  BY <1>i, <2>m, <2>y, <2>1 DEF YoungIsClean
    <2>g1. YoungIsForgotten'  BY <1>i, <2>m, <2>y, <2>1 DEF YoungIsForgotten
    <2>g2. YoungIsLeft'  BY <1>i, <1>o, <2>m, <2>w, <2>1 DEF YoungIsLeft
    <2>g3. OnOwn'  BY <1>i, <1>o, <2>1 DEF OnOwn, Working
    <2>g4. AskedOnce'  BY <1>i, <2>m, <2>1 DEF AskedOnce, YoungIsClean
    <2>g5. IdIsReal'  BY <1>i, <1>o, <1>t, <2>1 DEF IdIsReal, OnOwn, AskedOnce, Working
    <2>g6. Recorded'  BY <1>i, <1>o, <1>t, <2>1 DEF Recorded, IdIsReal, AskedOnce
    <2>g7. OthersAreExternal'  BY <1>i, <1>o, <1>t, <2>1 DEF OthersAreExternal
    <2>g8. OthersAreDead'  BY <1>i, <1>o, <1>t, <2>w, <2>1 DEF OthersAreDead
    <2> QED  BY <2>g0, <2>g1, <2>g2, <2>g3, <2>g4, <2>g5, <2>g6, <2>g7, <2>g8 DEF TxSafe
<1>16. ASSUME NEW c \in Creates, TxFault(c) PROVE TxSafe'
    <2>1. /\ UNCHANGED <<rec, box, asked, ran, up, missed>> /\ ran[c] \in Brokers /\ ran[c] \in up
          /\ tx[c].step \notin {"none", "ended", "held", "answer"}
        BY <1>t, <1>16 DEF TxFault, docker
    <2>2. \A d \in Creates \ {c} : tx'[d] = tx[d]  BY <1>c, <1>16 DEF TxFault
    <2>3. /\ tx'[c].on = tx[c].on
          /\ \/ tx[c].step = "inspect" /\ tx'[c].step = "remove"
             \/ tx[c].step \in {"remove", "clear"} /\ c \in live /\ tx'[c].step = "held"
             \/ tx'[c].step = "ended"
        BY <1>c, <1>16 DEF TxFault, Calls
    <2>4. /\ live' \subseteq live
          /\ \A b \in Brokers, j \in Creates :
              /\ pending'[b][j] \in {pending[b][j], "absent"}
              /\ pending'[b][j] # "absent" /\ j \in external[b] => j \in external'[b]
        BY <1>c, <1>p, <1>t, <1>o, <1>16, <2>1 DEF TxFault, Forget, memory, Calls, Pendings, On
    <2>m. \A d \in Creates : Young(d)' => Young(d)
        BY <1>i, <1>o, <2>1, <2>2, <2>3, <2>4 DEF Young, Working, OnOwn, Works
    <2>w. \A d \in Creates : Works(d)' => (Works(d) /\ tx'[d].on = tx[d].on) \/ (tx'[d].on = d /\ ~Young(d))
        BY <1>i, <1>o, <2>1, <2>2, <2>3, <2>4 DEF Works, Working, OnOwn, Young
    <2>g0. YoungIsClean'  BY <1>i, <2>m, <2>1, <2>2, <2>3, <2>4 DEF YoungIsClean
    <2>g1. YoungIsForgotten'  BY <1>i, <2>m, <2>1, <2>2, <2>3, <2>4 DEF YoungIsForgotten
    <2>g2. YoungIsLeft'  BY <1>i, <1>o, <2>m, <2>w, <2>1, <2>2, <2>3, <2>4 DEF YoungIsLeft
    <2>g3. OnOwn'  BY <1>i, <1>o, <2>1, <2>2, <2>3, <2>4 DEF OnOwn, Working
    <2>g4. AskedOnce'  BY <1>i, <2>m, <2>1, <2>2, <2>3, <2>4 DEF AskedOnce, YoungIsClean
    <2>g5. IdIsReal'  BY <1>i, <1>o, <1>t, <2>1, <2>2, <2>3, <2>4 DEF IdIsReal, OnOwn, AskedOnce, Working
    <2>g6. Recorded'  BY <1>i, <1>o, <1>t, <2>1, <2>2, <2>3, <2>4 DEF Recorded, IdIsReal, AskedOnce
    <2>g7. OthersAreExternal'  BY <1>i, <1>o, <1>t, <2>1, <2>2, <2>3, <2>4 DEF OthersAreExternal
    <2>g8. OthersAreDead'  BY <1>i, <1>o, <1>t, <2>w, <2>1, <2>2, <2>3, <2>4 DEF OthersAreDead
    <2> QED  BY <2>g0, <2>g1, <2>g2, <2>g3, <2>g4, <2>g5, <2>g6, <2>g7, <2>g8 DEF TxSafe
<1>17. ASSUME NEW c \in Creates, NEW b \in up, Begin(c, b) PROVE TxSafe'
    <2>1. /\ tx[c].step = "none" /\ UNCHANGED <<rec, box, asked, up, pending, live, external, missed>>
          /\ tx'[c].step = "load" /\ tx'[c].on = tx[c].on
        BY <1>c, <1>17 DEF Begin, disk, memory, docker, Calls
    <2>2. \A d \in Creates \ {c} : tx'[d] = tx[d] /\ ran'[d] = ran[d]  BY <1>c, <1>t, <1>17 DEF Begin
    <2>m. \A d \in Creates : Young(d)' => Young(d)
        BY <1>i, <1>o, <2>1, <2>2 DEF Young, Working, OnOwn
    <2>w. \A d \in Creates : Works(d)' => (Works(d) /\ tx'[d].on = tx[d].on) \/ (tx'[d].on = d /\ ~Young(d))
        BY <1>i, <1>o, <2>1, <2>2 DEF Works, Working, OnOwn, Young
    <2>y. Young(c) /\ ~Works(c) /\ ~Works(c)'  BY <2>1 DEF Young, Works, Working
    <2>g0. YoungIsClean'  BY <1>i, <2>m, <2>y, <2>1, <2>2 DEF YoungIsClean
    <2>g1. YoungIsForgotten'  BY <1>i, <2>m, <2>y, <2>1, <2>2 DEF YoungIsForgotten
    <2>g2. YoungIsLeft'  BY <1>i, <1>o, <2>m, <2>w, <2>1, <2>2 DEF YoungIsLeft
    <2>g3. OnOwn'  BY <1>i, <1>o, <2>1, <2>2 DEF OnOwn, Working
    <2>g4. AskedOnce'  BY <1>i, <2>m, <2>1, <2>2 DEF AskedOnce, YoungIsClean
    <2>g5. IdIsReal'  BY <1>i, <1>o, <1>t, <2>1, <2>2 DEF IdIsReal, OnOwn, AskedOnce, Working
    <2>g6. Recorded'  BY <1>i, <1>o, <1>t, <2>1, <2>2 DEF Recorded, IdIsReal, AskedOnce
    <2>g7. OthersAreExternal'  BY <1>i, <1>t, <2>1, <2>2, <2>y DEF OthersAreExternal, YoungIsForgotten
    <2>g8. OthersAreDead'  BY <1>i, <1>o, <2>1, <2>2, <2>w, <2>y DEF OthersAreDead, YoungIsLeft
    <2> QED  BY <2>g0, <2>g1, <2>g2, <2>g3, <2>g4, <2>g5, <2>g6, <2>g7, <2>g8 DEF TxSafe
<1>18. ASSUME NEW b \in Brokers, BrokerDies(b) PROVE TxSafe'
    <2>1. /\ up' \subseteq up /\ UNCHANGED <<tx, rec, box, asked, ran, pending, live, external, missed>>
        BY <1>18 DEF BrokerDies, disk, memory, docker
    <2>m. \A d \in Creates : Young(d)' => Young(d)
        BY <1>i, <1>o, <2>1 DEF Young, Working, OnOwn
    <2>w. \A d \in Creates : Works(d)' => (Works(d) /\ tx'[d].on = tx[d].on) \/ (tx'[d].on = d /\ ~Young(d))
        BY <1>i, <1>o, <2>1 DEF Works, Working, OnOwn, Young
    <2>g0. YoungIsClean'  BY <1>i, <2>m, <2>1 DEF YoungIsClean
    <2>g1. YoungIsForgotten'  BY <1>i, <2>m, <2>1 DEF YoungIsForgotten
    <2>g2. YoungIsLeft'  BY <1>i, <1>o, <2>m, <2>w, <2>1 DEF YoungIsLeft
    <2>g3. OnOwn'  BY <1>i, <1>o, <2>1 DEF OnOwn, Working
    <2>g4. AskedOnce'  BY <1>i, <2>m, <2>1 DEF AskedOnce, YoungIsClean
    <2>g5. IdIsReal'  BY <1>i, <1>o, <1>t, <2>1 DEF IdIsReal, OnOwn, AskedOnce, Working
    <2>g6. Recorded'  BY <1>i, <1>o, <1>t, <2>1 DEF Recorded, IdIsReal, AskedOnce
    <2>g7. OthersAreExternal'  BY <1>i, <1>o, <1>t, <2>1 DEF OthersAreExternal
    <2>g8. OthersAreDead'  BY <1>i, <1>o, <1>t, <2>w, <2>1 DEF OthersAreDead
    <2> QED  BY <2>g0, <2>g1, <2>g2, <2>g3, <2>g4, <2>g5, <2>g6, <2>g7, <2>g8 DEF TxSafe
<1>19. CASE UNCHANGED txVars
    <2>1. UNCHANGED <<tx, rec, box, asked, ran, up, pending, live, external, missed>>  BY <1>19 DEF txVars
    <2>m. \A d \in Creates : Young(d)' => Young(d)
        BY <1>i, <1>o, <2>1 DEF Young, Working, OnOwn
    <2>w. \A d \in Creates : Works(d)' => (Works(d) /\ tx'[d].on = tx[d].on) \/ (tx'[d].on = d /\ ~Young(d))
        BY <1>i, <1>o, <2>1 DEF Works, Working, OnOwn, Young
    <2>g0. YoungIsClean'  BY <1>i, <2>m, <2>1 DEF YoungIsClean
    <2>g1. YoungIsForgotten'  BY <1>i, <2>m, <2>1 DEF YoungIsForgotten
    <2>g2. YoungIsLeft'  BY <1>i, <1>o, <2>m, <2>w, <2>1 DEF YoungIsLeft
    <2>g3. OnOwn'  BY <1>i, <1>o, <2>1 DEF OnOwn, Working
    <2>g4. AskedOnce'  BY <1>i, <2>m, <2>1 DEF AskedOnce, YoungIsClean
    <2>g5. IdIsReal'  BY <1>i, <1>o, <1>t, <2>1 DEF IdIsReal, OnOwn, AskedOnce, Working
    <2>g6. Recorded'  BY <1>i, <1>o, <1>t, <2>1 DEF Recorded, IdIsReal, AskedOnce
    <2>g7. OthersAreExternal'  BY <1>i, <1>o, <1>t, <2>1 DEF OthersAreExternal
    <2>g8. OthersAreDead'  BY <1>i, <1>o, <1>t, <2>w, <2>1 DEF OthersAreDead
    <2> QED  BY <2>g0, <2>g1, <2>g2, <2>g3, <2>g4, <2>g5, <2>g6, <2>g7, <2>g8 DEF TxSafe
<1> QED
    BY <1>1, <1>2, <1>3, <1>4, <1>5, <1>6, <1>7, <1>8, <1>9, <1>10, <1>11, <1>12, <1>13, <1>14, <1>15, <1>16, <1>17, <1>18, <1>19 DEF TxNext, TxCall

\* The initial state is one of no call and no record.
LEMMA TxSafeInit == TxInit => TxTypeOK /\ TxSafe
<1> SUFFICES ASSUME TxInit PROVE TxTypeOK /\ TxSafe  OBVIOUS
<1>1. \A c \in Creates : /\ tx[c].step = "none" /\ tx[c].on = c /\ rec[c] = "none" /\ box[c] = "none"
                         /\ \A b \in Brokers : pending[b][c] = "absent"
    BY DEF TxInit
<1>2. asked = {} /\ live = {}  BY DEF TxInit
<1>3. TxTypeOK  BY BrokersAssumption DEF TxInit, TxTypeOK, TxSteps
<1>4. YoungIsClean /\ YoungIsForgotten  BY <1>1, <1>2 DEF YoungIsClean, YoungIsForgotten
<1>5. \A c \in Creates : ~Works(c)  BY <1>1 DEF Works, Working
<1>6. YoungIsLeft /\ OthersAreDead  BY <1>5 DEF YoungIsLeft, OthersAreDead
<1>7. OnOwn  BY <1>1, <1>2 DEF OnOwn
<1>8. AskedOnce /\ Recorded  BY <1>1, <1>2 DEF AskedOnce, Recorded
<1>9. IdIsReal  BY <1>1 DEF IdIsReal
<1>10. OthersAreExternal  BY <1>1 DEF OthersAreExternal
<1> QED  BY <1>3, <1>4, <1>6, <1>7, <1>8, <1>9, <1>10 DEF TxSafe

\* Records, containers and calls keep their types, whatever dies or fails.
THEOREM TransactionsTyped == TxSpec => []TxTypeOK
BY TxSafeInit, TxTypedStep, PTL DEF TxSpec

\* Whatever dies in between, a container that exists has a record from which a later process
\* finds it, unless a recovery waited for it in vain: intents are written before the daemon
\* is asked, and only cleared when the container is gone.
THEOREM ContainersRecorded == TxSpec => []NoContainerWithoutRecord
<1>1. TxSafe => NoContainerWithoutRecord  BY DEF TxSafe, Recorded, NoContainerWithoutRecord
<1> QED  BY <1>1, TxSafeInit, TxTypedStep, TxSafeStep, PTL DEF TxSpec

\* Only the removal of a call's own step takes a container away, and a call comes to that
\* step with a container of its own process or of a dead one.
THEOREM ContainersOfOthersKept == TxSpec => OnlyOwnersRemove
<1> DEFINE A == \A c, k \in Creates :
                  box[k] = "up" /\ box'[k] = "gone" /\ tx[c].step = "remove" /\ tx'[c].step = "clear"
                      => ran[k] = ran[c] \/ ran[k] \notin up
<1>1. ASSUME TxTypeOK, TxSafe, [TxNext]_txVars PROVE [A]_txVars
    <2> SUFFICES ASSUME TxNext, NEW c \in Creates, NEW k \in Creates, box[k] = "up", box'[k] = "gone",
                        tx[c].step = "remove", tx'[c].step = "clear"
                 PROVE  ran[k] = ran[c] \/ ran[k] \notin up
        BY <1>1
    <2>b. box \in [Creates -> {"none", "up", "gone"}]  BY <1>1 DEF TxTypeOK
    <2>c. tx \in [Creates -> Calls]  BY <1>1 DEF TxTypeOK, Calls
    <2>1. PICK d \in Creates : RemoveContainer(d)
        <3>1. ASSUME NEW d \in Creates, TxCall(d), ~RemoveContainer(d) PROVE box' = box
            BY <3>1 DEF TxCall, LoadDurablePending, PickPending, Recover, WriteTemporary, RenameRecord, ClearPending,
                        RejectUnknown, WriteIntent, EndIntent, AskDocker, CreateAnswers, InspectOwned, docker
        <3>2. ASSUME NEW d \in Creates, ReleaseContainer(d) \/ TxFault(d) \/ \E b \in up : Begin(d, b) PROVE box' = box
            BY <3>2 DEF ReleaseContainer, TxFault, Begin, docker
        <3>3. ASSUME NEW b \in Brokers, BrokerDies(b) PROVE box' = box  BY <3>3 DEF BrokerDies, docker
        <3>4. ASSUME NEW d \in Creates, DaemonCreates(d) PROVE box'[k] \in {box[k], "up"}
            BY <2>b, <3>4 DEF DaemonCreates
        <3> QED  BY <3>1, <3>2, <3>3, <3>4 DEF TxNext
    <2>2. k = tx[d].on /\ Works(d)  BY <2>b, <2>1 DEF RemoveContainer, TxAt, On, Works, Working
    <2>3. d = c  BY <2>c, <2>1 DEF RemoveContainer, TxGoto
    <2> QED  BY <1>1, <2>2, <2>3 DEF TxSafe, OthersAreDead
<1> QED  BY <1>1, TxSafeInit, TxTypedStep, TxSafeStep, PTL DEF TxSpec, OnlyOwnersRemove

-----------------------------------------------------------------------------
(* The gateway. *)

\* An address is a sequence of four octets or of eight words.
Addresses == {a \in Seq(Nat) : Len(a) \in {4, 8}}

\* What PublicIpv4 lets pass is in no reserved block of the registry.
LEMMA PublicIsUnreserved ==
    ASSUME NEW a, \A i \in 1..3 : a[i] \in Nat, PublicIpv4(a)
    PROVE  \A b \in ReservedIpv4 : ~InBlock(a, b[1], b[2])
<1>p. 2^0 = 1 /\ 2^1 = 2 /\ 2^4 = 16 /\ 2^6 = 64  OBVIOUS
<1>a. a[1] \in Nat /\ a[2] \in Nat /\ a[3] \in Nat  OBVIOUS
<1>1. ~InBlock(a, <<0, 0, 0, 0>>, 8)
    <2> SUFFICES ASSUME InBlock(a, <<0, 0, 0, 0>>, 8) PROVE FALSE  OBVIOUS
    <2>1. a[1] \div 2^0 = 0 \div 2^0  BY DEF InBlock
    <2> QED  BY <1>p, <1>a, <2>1 DEF PublicIpv4
<1>2. ~InBlock(a, <<10, 0, 0, 0>>, 8)
    <2> SUFFICES ASSUME InBlock(a, <<10, 0, 0, 0>>, 8) PROVE FALSE  OBVIOUS
    <2>1. a[1] \div 2^0 = 10 \div 2^0  BY DEF InBlock
    <2> QED  BY <1>p, <1>a, <2>1 DEF PublicIpv4
<1>3. ~InBlock(a, <<100, 64, 0, 0>>, 10)
    <2> SUFFICES ASSUME InBlock(a, <<100, 64, 0, 0>>, 10) PROVE FALSE  OBVIOUS
    <2>1. a[1] \div 2^0 = 100 \div 2^0  BY DEF InBlock
    <2>2. a[2] \div 2^6 = 64 \div 2^6  BY DEF InBlock
    <2>3. a[1] = 100  BY <1>p, <1>a, <2>1
    <2>4. a[2] \in 64..127  BY <1>p, <1>a, <2>2
    <2> QED  BY <2>3, <2>4 DEF PublicIpv4
<1>4. ~InBlock(a, <<127, 0, 0, 0>>, 8)
    <2> SUFFICES ASSUME InBlock(a, <<127, 0, 0, 0>>, 8) PROVE FALSE  OBVIOUS
    <2>1. a[1] \div 2^0 = 127 \div 2^0  BY DEF InBlock
    <2> QED  BY <1>p, <1>a, <2>1 DEF PublicIpv4
<1>5. ~InBlock(a, <<169, 254, 0, 0>>, 16)
    <2> SUFFICES ASSUME InBlock(a, <<169, 254, 0, 0>>, 16) PROVE FALSE  OBVIOUS
    <2>1. a[1] \div 2^0 = 169 \div 2^0  BY DEF InBlock
    <2>2. a[2] \div 2^0 = 254 \div 2^0  BY DEF InBlock
    <2>3. a[1] = 169  BY <1>p, <1>a, <2>1
    <2>4. a[2] = 254  BY <1>p, <1>a, <2>2
    <2> QED  BY <2>3, <2>4 DEF PublicIpv4
<1>6. ~InBlock(a, <<172, 16, 0, 0>>, 12)
    <2> SUFFICES ASSUME InBlock(a, <<172, 16, 0, 0>>, 12) PROVE FALSE  OBVIOUS
    <2>1. a[1] \div 2^0 = 172 \div 2^0  BY DEF InBlock
    <2>2. a[2] \div 2^4 = 16 \div 2^4  BY DEF InBlock
    <2>3. a[1] = 172  BY <1>p, <1>a, <2>1
    <2>4. a[2] \in 16..31  BY <1>p, <1>a, <2>2
    <2> QED  BY <2>3, <2>4 DEF PublicIpv4
<1>7. ~InBlock(a, <<192, 0, 0, 0>>, 24)
    <2> SUFFICES ASSUME InBlock(a, <<192, 0, 0, 0>>, 24) PROVE FALSE  OBVIOUS
    <2>1. a[1] \div 2^0 = 192 \div 2^0  BY DEF InBlock
    <2>2. a[2] \div 2^0 = 0 \div 2^0  BY DEF InBlock
    <2>3. a[3] \div 2^0 = 0 \div 2^0  BY DEF InBlock
    <2>4. a[1] = 192  BY <1>p, <1>a, <2>1
    <2>5. a[2] = 0  BY <1>p, <1>a, <2>2
    <2>6. a[3] = 0  BY <1>p, <1>a, <2>3
    <2> QED  BY <2>4, <2>5, <2>6 DEF PublicIpv4
<1>8. ~InBlock(a, <<192, 0, 2, 0>>, 24)
    <2> SUFFICES ASSUME InBlock(a, <<192, 0, 2, 0>>, 24) PROVE FALSE  OBVIOUS
    <2>1. a[1] \div 2^0 = 192 \div 2^0  BY DEF InBlock
    <2>2. a[2] \div 2^0 = 0 \div 2^0  BY DEF InBlock
    <2>3. a[3] \div 2^0 = 2 \div 2^0  BY DEF InBlock
    <2>4. a[1] = 192  BY <1>p, <1>a, <2>1
    <2>5. a[2] = 0  BY <1>p, <1>a, <2>2
    <2>6. a[3] = 2  BY <1>p, <1>a, <2>3
    <2> QED  BY <2>4, <2>5, <2>6 DEF PublicIpv4
<1>9. ~InBlock(a, <<192, 88, 99, 0>>, 24)
    <2> SUFFICES ASSUME InBlock(a, <<192, 88, 99, 0>>, 24) PROVE FALSE  OBVIOUS
    <2>1. a[1] \div 2^0 = 192 \div 2^0  BY DEF InBlock
    <2>2. a[2] \div 2^0 = 88 \div 2^0  BY DEF InBlock
    <2>3. a[3] \div 2^0 = 99 \div 2^0  BY DEF InBlock
    <2>4. a[1] = 192  BY <1>p, <1>a, <2>1
    <2>5. a[2] = 88  BY <1>p, <1>a, <2>2
    <2>6. a[3] = 99  BY <1>p, <1>a, <2>3
    <2> QED  BY <2>4, <2>5, <2>6 DEF PublicIpv4
<1>10. ~InBlock(a, <<192, 168, 0, 0>>, 16)
    <2> SUFFICES ASSUME InBlock(a, <<192, 168, 0, 0>>, 16) PROVE FALSE  OBVIOUS
    <2>1. a[1] \div 2^0 = 192 \div 2^0  BY DEF InBlock
    <2>2. a[2] \div 2^0 = 168 \div 2^0  BY DEF InBlock
    <2>3. a[1] = 192  BY <1>p, <1>a, <2>1
    <2>4. a[2] = 168  BY <1>p, <1>a, <2>2
    <2> QED  BY <2>3, <2>4 DEF PublicIpv4
<1>11. ~InBlock(a, <<198, 18, 0, 0>>, 15)
    <2> SUFFICES ASSUME InBlock(a, <<198, 18, 0, 0>>, 15) PROVE FALSE  OBVIOUS
    <2>1. a[1] \div 2^0 = 198 \div 2^0  BY DEF InBlock
    <2>2. a[2] \div 2^1 = 18 \div 2^1  BY DEF InBlock
    <2>3. a[1] = 198  BY <1>p, <1>a, <2>1
    <2>4. a[2] \in 18..19  BY <1>p, <1>a, <2>2
    <2> QED  BY <2>3, <2>4 DEF PublicIpv4
<1>12. ~InBlock(a, <<198, 51, 100, 0>>, 24)
    <2> SUFFICES ASSUME InBlock(a, <<198, 51, 100, 0>>, 24) PROVE FALSE  OBVIOUS
    <2>1. a[1] \div 2^0 = 198 \div 2^0  BY DEF InBlock
    <2>2. a[2] \div 2^0 = 51 \div 2^0  BY DEF InBlock
    <2>3. a[3] \div 2^0 = 100 \div 2^0  BY DEF InBlock
    <2>4. a[1] = 198  BY <1>p, <1>a, <2>1
    <2>5. a[2] = 51  BY <1>p, <1>a, <2>2
    <2>6. a[3] = 100  BY <1>p, <1>a, <2>3
    <2> QED  BY <2>4, <2>5, <2>6 DEF PublicIpv4
<1>13. ~InBlock(a, <<203, 0, 113, 0>>, 24)
    <2> SUFFICES ASSUME InBlock(a, <<203, 0, 113, 0>>, 24) PROVE FALSE  OBVIOUS
    <2>1. a[1] \div 2^0 = 203 \div 2^0  BY DEF InBlock
    <2>2. a[2] \div 2^0 = 0 \div 2^0  BY DEF InBlock
    <2>3. a[3] \div 2^0 = 113 \div 2^0  BY DEF InBlock
    <2>4. a[1] = 203  BY <1>p, <1>a, <2>1
    <2>5. a[2] = 0  BY <1>p, <1>a, <2>2
    <2>6. a[3] = 113  BY <1>p, <1>a, <2>3
    <2> QED  BY <2>4, <2>5, <2>6 DEF PublicIpv4
<1>14. ~InBlock(a, <<224, 0, 0, 0>>, 4)
    <2> SUFFICES ASSUME InBlock(a, <<224, 0, 0, 0>>, 4) PROVE FALSE  OBVIOUS
    <2>1. a[1] \div 2^4 = 224 \div 2^4  BY DEF InBlock
    <2> QED  BY <1>p, <1>a, <2>1 DEF PublicIpv4
<1>15. ~InBlock(a, <<240, 0, 0, 0>>, 4)
    <2> SUFFICES ASSUME InBlock(a, <<240, 0, 0, 0>>, 4) PROVE FALSE  OBVIOUS
    <2>1. a[1] \div 2^4 = 240 \div 2^4  BY DEF InBlock
    <2> QED  BY <1>p, <1>a, <2>1 DEF PublicIpv4
<1> QED  BY <1>1, <1>2, <1>3, <1>4, <1>5, <1>6, <1>7, <1>8, <1>9, <1>10, <1>11, <1>12, <1>13, <1>14, <1>15 DEF ReservedIpv4

\* isProviderEgressAddressAllowedV4 lets no address pass that the registries reserve: not an
\* IPv4 address, not one mapped or embedded in an IPv6 address, and not an IPv6 address.
THEOREM AllowedIsGlobal == \A a \in Addresses : EgressAllowed(a) => Global(a)
<1> SUFFICES ASSUME NEW a \in Addresses, EgressAllowed(a) PROVE Global(a)  OBVIOUS
<1>l. Len(a) \in {4, 8} /\ a \in Seq(Nat)  BY DEF Addresses
<1>n. \A i \in 1..Len(a) : a[i] \in Nat  BY <1>l, ElementOfSeq
<1>1. CASE Len(a) = 4
    <2>1. \A i \in 1..3 : a[i] \in Nat  BY <1>1, <1>n
    <2>2. PublicIpv4(a)  BY <1>1 DEF EgressAllowed
    <2>3. UnreservedIpv4(a)  BY <2>1, <2>2, PublicIsUnreserved DEF UnreservedIpv4
    <2>4. CarriesIpv4(a)  BY <1>1 DEF CarriesIpv4
    <2> QED  BY <1>1, <2>3, <2>4 DEF Global
<1>2. CASE Len(a) = 8 /\ (\A i \in 1..5 : a[i] = 0) /\ a[6] \in {0, 65535}
    <2> DEFINE v == <<a[7] \div 256, a[7] % 256, a[8] \div 256, a[8] % 256>>
    <2>1. a[7] \in Nat /\ a[8] \in Nat  BY <1>2, <1>n
    <2>2. v[1] = a[7] \div 256 /\ v[2] = a[7] % 256 /\ v[3] = a[8] \div 256  OBVIOUS
    <2>3. \A i \in 1..3 : v[i] \in Nat  BY <2>1, <2>2
    <2>4. PublicIpv4(v)  BY <1>2 DEF EgressAllowed
    <2>5. CarriesIpv4(a) /\ Len(a) # 4  BY <1>2 DEF CarriesIpv4
    <2>6. Global(a) <=> UnreservedIpv4(v)  BY <2>5 DEF Global
    <2> HIDE DEF v
    <2>7. UnreservedIpv4(v)  BY <2>3, <2>4, PublicIsUnreserved DEF UnreservedIpv4
    <2> QED  BY <2>6, <2>7
<1>3. CASE Len(a) = 8 /\ ~((\A i \in 1..5 : a[i] = 0) /\ a[6] \in {0, 65535})
    <2>1. a[1] \in Nat /\ a[2] \in Nat  BY <1>3, <1>n
    <2>2. /\ a[1] \div 8192 = 1 /\ a[1] # 8194
          /\ ~(a[1] = 8193 /\ (a[2] \in {0, 3512} \/ a[2] \div 16 = 1))
        BY <1>3 DEF EgressAllowed
    <2>3. a[1] \in 8192..16383
        <3> DEFINE x == a[1]
        <3>1. x \in Nat /\ x \div 8192 = 1  BY <2>1, <2>2
        <3> HIDE DEF x
        <3>2. x \in 8192..16383  BY <3>1
        <3> QED  BY <3>2 DEF x
    <2>4. a[2] \in 16..31 => a[2] \div 16 = 1  BY <2>1
    <2>5. ~(a[1] = 8193 /\ a[2] \in {0, 3512} \cup (16..31))  BY <2>2, <2>4
    <2>6. GlobalIpv6(a)  BY <2>2, <2>3, <2>5 DEF GlobalIpv6
    <2>7. ~CarriesIpv4(a)  BY <1>3 DEF CarriesIpv4
    <2> QED  BY <2>6, <2>7 DEF Global
<1> QED  BY <1>l, <1>1, <1>2, <1>3

Targets  == (UNION Answers) \cup {Nowhere}
Requests == [step : ReqSteps, target : Targets]

\* A request goes on to its connection only with an address that was allowed.
PinnedIsAllowed ==
    \A r \in GwRequests : req[r].step = "connect" => req[r].target \in UNION Answers /\ EgressAllowed(req[r].target)

GwInv ==
    /\ GwTypeOK /\ req \in [GwRequests -> Requests] /\ LeaseIsServed /\ PinnedIsAllowed
    /\ \A a \in sentTo : EgressAllowed(a)
    /\ lease = "await" => wired = {"internal", "outbound"}

\* Before the gateway exists.
LEMMA GwInitInv == GwInit => GwInv
<1> SUFFICES ASSUME GwInit PROVE GwInv  OBVIOUS
<1>1. req \in [GwRequests -> Requests]
    <2>1. "none" \in ReqSteps /\ Nowhere \in Targets  BY DEF Targets, ReqSteps
    <2> QED  BY <2>1 DEF GwInit, Requests
<1>2. GwTypeOK  BY <1>1 DEF GwInit, GwTypeOK, LeaseSteps, Requests
<1> QED  BY <1>1, <1>2 DEF GwInit, GwInv, LeaseIsServed, PinnedIsAllowed

\* Every step of the lease and of its requests keeps the invariant.
LEMMA GwStepInv == GwInv /\ [GwNext]_gwVars => GwInv'
<1> SUFFICES ASSUME GwInv, [GwNext]_gwVars PROVE GwInv'  OBVIOUS
<1>l. \A r \in GwRequests : req[r].step \in ReqSteps  BY DEF GwInv, GwTypeOK
<1>t. /\ req \in [GwRequests -> Requests] /\ sentTo \in SUBSET UNION Answers
      /\ \A a \in sentTo : EgressAllowed(a)
    BY DEF GwInv, GwTypeOK
<1>1. CASE UNCHANGED Proxying /\ (StartGateway \/ CreateGateway \/ WireGateway \/ AttachGateway \/ BootGateway
                                  \/ GatewayListens \/ ReturnLease \/ StartFails \/ Revoke)
    <2>1. req' = req /\ sentTo' = sentTo  BY <1>1 DEF Proxying
    <2>2. GwTypeOK'
        BY <1>1, <2>1 DEF GwInv, GwTypeOK, StartGateway, CreateGateway, WireGateway, AttachGateway, BootGateway,
           GatewayListens, ReturnLease, StartFails, Revoke, Stage, LeaseSteps, Broker
    <2>3. LeaseIsServed' /\ (lease' = "await" => wired' = {"internal", "outbound"})
        BY <1>1 DEF GwInv, LeaseIsServed, StartGateway, CreateGateway, WireGateway, AttachGateway, BootGateway,
           GatewayListens, ReturnLease, StartFails, Revoke, Stage, Broker
    <2> QED  BY <2>1, <2>2, <2>3 DEF GwInv, PinnedIsAllowed
<1>2. CASE CleanupGateway
    <2>0. "dropped" \in ReqSteps  BY DEF ReqSteps
    <2>1. req' \in [GwRequests -> Requests]  BY <1>2, <1>t, <2>0 DEF CleanupGateway, Requests
    <2>2. \A r \in GwRequests : req'[r] = req[r] \/ req'[r].step = "dropped"
        BY <1>2, <1>t DEF CleanupGateway, Requests
    <2>3. PinnedIsAllowed'  BY <2>2 DEF GwInv, PinnedIsAllowed
    <2>4. GwTypeOK'
        BY <1>2, <2>1 DEF GwInv, GwTypeOK, CleanupGateway, Stage, LeaseSteps, Requests
    <2>5. LeaseIsServed' /\ (lease' = "await" => wired' = {"internal", "outbound"})
        BY <1>2 DEF GwInv, LeaseIsServed, CleanupGateway, Stage
    <2> QED  BY <1>2, <2>1, <2>3, <2>4, <2>5 DEF GwInv, CleanupGateway
<1>3. ASSUME NEW r \in GwRequests, Arrives(r) \/ CheckPolicy(r) \/ ReadBody(r) \/ Lookup(r) \/ ConnectUpstream(r) \/ UpstreamEnds(r)
      PROVE  GwInv'
    <2>1. UNCHANGED <<Broker, serving>>
        BY <1>3 DEF Arrives, CheckPolicy, ReadBody, Lookup, ConnectUpstream, UpstreamEnds, GwMove, Deny
    <2>e. \A l \in ReqSteps : [req EXCEPT ![r].step = l] \in [GwRequests -> Requests]
        BY <1>t DEF Requests
    <2>2. CASE Lookup(r)
        <3>1. CASE Deny(r)
            <4>1. req' = [req EXCEPT ![r].step = "denied"] /\ "denied" \in ReqSteps  BY <3>1 DEF Deny, GwMove, ReqSteps
            <4>2. req' \in [GwRequests -> Requests]  BY <2>e, <4>1
            <4>3. PinnedIsAllowed'  BY <1>t, <4>1 DEF GwInv, PinnedIsAllowed, Requests
            <4> QED  BY <2>1, <2>2, <4>2, <4>3 DEF GwInv, GwTypeOK, LeaseIsServed, Broker, Requests, Lookup
        <3>2. CASE ~Deny(r)
            <4>1. PICK a \in UNION Answers : EgressAllowed(a) /\ req' = [req EXCEPT ![r].step = "connect", ![r].target = a]
                BY <2>2, <3>2 DEF Lookup
            <4>2. "connect" \in ReqSteps  BY DEF ReqSteps
            <4>3. req' \in [GwRequests -> Requests]
                <5>1. a \in Targets  BY DEF Targets
                <5> QED  BY <1>t, <4>1, <4>2, <5>1 DEF Requests
            <4>4. PinnedIsAllowed'  BY <1>t, <4>1 DEF GwInv, PinnedIsAllowed, Requests
            <4> QED  BY <2>1, <2>2, <4>3, <4>4 DEF GwInv, GwTypeOK, LeaseIsServed, Broker, Requests, Lookup
        <3> QED  BY <3>1, <3>2
    <2>3. CASE ~Lookup(r)
        <3>1. PICK l \in ReqSteps \ {"connect"} : req' = [req EXCEPT ![r].step = l]
            BY <1>3, <2>3 DEF Arrives, CheckPolicy, ReadBody, ConnectUpstream, UpstreamEnds, GwMove, Deny, ReqSteps
        <3>2. req' \in [GwRequests -> Requests]  BY <2>e, <3>1
        <3>3. PinnedIsAllowed'  BY <1>t, <3>1 DEF GwInv, PinnedIsAllowed, Requests
        <3>4. sentTo' = sentTo \/ (req[r].step = "connect" /\ sentTo' = sentTo \cup {req[r].target})
            BY <1>3, <2>3 DEF Arrives, CheckPolicy, ReadBody, ConnectUpstream, UpstreamEnds
        <3>5. sentTo' \in SUBSET UNION Answers /\ \A a \in sentTo' : EgressAllowed(a)
            BY <1>t, <3>4 DEF GwInv, PinnedIsAllowed
        <3> QED  BY <2>1, <3>2, <3>3, <3>5 DEF GwInv, GwTypeOK, LeaseIsServed, Broker, Requests
    <2> QED  BY <2>2, <2>3
<1>4. CASE UNCHANGED gwVars
    BY <1>4 DEF gwVars, GwInv, GwTypeOK, LeaseIsServed, PinnedIsAllowed
<1> QED
    BY <1>1, <1>2, <1>3, <1>4 DEF GwNext, StartGateway, CreateGateway, WireGateway, AttachGateway, BootGateway,
       GatewayListens, ReturnLease, StartFails, Revoke

\* Every variable of the gateway has its type (startProviderEgressGatewayV4, its lease and
\* its requests).
THEOREM GatewayTyped == GwSpec => []GwTypeOK
<1>1. GwInv => GwTypeOK  BY DEF GwInv
<1> QED  BY <1>1, GwInitInv, GwStepInv, PTL DEF GwSpec

\* Whatever resolver answers, failures and revocations come in between, a request reaches only
\* addresses that isProviderEgressAddressAllowedV4 accepts, and the rest of GatewaySound.
THEOREM GatewayIsSound == GwSpec => []GatewaySound
<1>1. GwInv => GatewaySound
    <2> SUFFICES ASSUME GwInv PROVE GatewaySound  OBVIOUS
    <2>1. ASSUME NEW a \in sentTo PROVE Global(a)
        <3>1. a \in UNION Answers /\ EgressAllowed(a)  BY DEF GwInv, GwTypeOK
        <3>2. a \in Addresses  BY <3>1, AnswersAssumption DEF Addresses
        <3> QED  BY <3>1, <3>2, AllowedIsGlobal
    <2> QED  BY <2>1 DEF GwInv, GatewaySound, KeyStaysGlobal
<1> QED  BY <1>1, GwInitInv, GwStepInv, PTL DEF GwSpec

-----------------------------------------------------------------------------
(* The broker's endpoint. *)

EpSteps == {"off", "token", "write", "inspect", "listen", "adopt", "publish", "unwind", "serving", "closing"} \cup QSteps

\* The steps inside the coordinator's critical section, and those with a listener.
Inside    == {"token", "write", "inspect", "listen", "adopt", "publish", "closing"} \cup QSteps
Listening == {"adopt", "publish", "serving", "closing"}
BeforeMove == {"read", "reserve", "recheck", "move"}

\* One server at a time changes the directory.
OneInside == \A s \in EpServers : epPc[s] \in Inside => epCrit = s

\* Sockets are numbered as they are bound.
Numbered ==
    /\ epFile \in 0..epNext /\ \A s \in EpServers : epOwn[s] \in 0..epNext /\ epTarget[s] \in 0..epNext

\* A socket a server bound is its alone.
OwnAlone ==
    \A s \in EpServers : epOwn[s] # NoSocket =>
        epOwn[s] \notin epForeign /\ \A t \in EpServers \ {s} : epOwn[t] # epOwn[s]

\* A server that has its listener listens on its own socket, which nobody moved.
ListensOnOwn ==
    \A s \in EpServers : epPc[s] \in Listening =>
        epOwn[s] # NoSocket /\ epOwn[s] \in epLive /\ epOwn[s] \notin epSlots

\* What is moved away is the server's own, or was found stale; only an outsider can get
\* between the last check and the move.
MovesOnlyStale ==
    \A s \in EpServers :
        /\ epPc[s] \in BeforeMove => IF epWhy[s] = "reclaim" THEN epTarget[s] \notin epLive ELSE epTarget[s] = epOwn[s]
        /\ epPc[s] = "move" => epFile = epTarget[s] \/ epFile \in epForeign
        /\ epPc[s] = "verify" => epTarget[s] = NoSocket \/ epTarget[s] \in epSlots

\* Slots are set aside for what is moved now and for the endpoint to be published.
RoomAhead ==
    \A s \in EpServers :
        /\ epPc[s] = "move" => HasRoom(1, SlotsAfter(epWhy[s]))
        /\ epPc[s] = "verify" /\ epWhy[s] = "reclaim" => HasRoom(1, 0)
        /\ epPc[s] = "read" /\ epWhy[s] = "reclaim" => epFile # NoSocket
        /\ epPc[s] = "listen" => HasRoom(1, 0) \/ epFile # NoSocket
        /\ epPc[s] \in {"adopt", "publish"} => HasRoom(1, 0)

EpSafe ==
    /\ OneInside /\ Numbered /\ OwnAlone /\ ListensOnOwn /\ MovesOnlyStale /\ RoomAhead
    /\ ServingIsReachable /\ RoomToRetire /\ NothingUnlinked

\* Slots are counted, and one more of them counts for one at most.
LEMMA SlotsCounted ==
    ASSUME NEW n \in Nat, NEW S \in SUBSET (1..n)
    PROVE  /\ IsFiniteSet(S) /\ Cardinality(S) \in Nat
           /\ \A x : Cardinality(S \cup {x}) \in Nat /\ Cardinality(S \cup {x}) <= Cardinality(S) + 1
<1>1. IsFiniteSet(1..n)  BY FS_Interval
<1>2. IsFiniteSet(S) /\ Cardinality(S) \in Nat  BY <1>1, FS_Subset, FS_CardinalityType
<1>3. ASSUME NEW x PROVE Cardinality(S \cup {x}) \in Nat /\ Cardinality(S \cup {x}) <= Cardinality(S) + 1
    <2>1. Cardinality(S \cup {x}) = IF x \in S THEN Cardinality(S) ELSE Cardinality(S) + 1  BY <1>2, FS_AddElement
    <2> QED  BY <1>2, <2>1
<1> QED  BY <1>2, <1>3

\* Every step keeps the types.
LEMMA EpTypedStep == EpTypeOK /\ Numbered /\ MovesOnlyStale /\ [EpNext]_epVars => EpTypeOK'
<1> SUFFICES ASSUME EpTypeOK, Numbered, MovesOnlyStale, [EpNext]_epVars PROVE EpTypeOK'  OBVIOUS
<1>a. EndpointAssumption  BY EndpointAssumption
<1>t. /\ epFile \in 0..MaxSockets /\ epNext \in 0..MaxSockets /\ epSlots \subseteq 1..epNext /\ epLinked \subseteq epSlots
      /\ epLive \subseteq 1..epNext /\ epForeign \subseteq 1..epNext /\ epLost \subseteq 1..epNext
      /\ epToken \in {"absent", "torn", "valid"} /\ epCrit \in EpServers \cup {Nobody}
      /\ epFaults \in 0..MaxEpFaults /\ MaxSockets \in Nat /\ MaxEpFaults \in Nat
    BY EndpointAssumption DEF EpTypeOK
<1>p. epPc \in [EpServers -> EpSteps]  BY DEF EpTypeOK, EpSteps
<1>m. /\ epWhy \in [EpServers -> Purposes] /\ epOwn \in [EpServers -> 0..MaxSockets]
      /\ epTarget \in [EpServers -> 0..MaxSockets]
    BY DEF EpTypeOK
<1>n. epFile \in 0..epNext /\ \A s \in EpServers : epOwn[s] \in 0..epNext /\ epTarget[s] \in 0..epNext  BY DEF Numbered
<1>v. \A s \in EpServers : epPc[s] = "verify" => epTarget[s] = NoSocket \/ epTarget[s] \in epSlots  BY DEF MovesOnlyStale
<1>s. \A l : l \in {"off", "token", "write", "inspect", "listen", "adopt", "publish", "unwind", "serving", "closing",
                   "read", "reserve", "recheck", "move", "verify"} => l \in EpSteps
    BY DEF EpSteps, QSteps
<1>q. ASSUME epFile' \in 0..MaxSockets, epNext' \in 0..MaxSockets, epSlots' \subseteq 1..epNext', epLinked' \subseteq epSlots',
             epLive' \subseteq 1..epNext', epForeign' \subseteq 1..epNext', epLost' \subseteq 1..epNext',
             epToken' \in {"absent", "torn", "valid"}, epCrit' \in EpServers \cup {Nobody}, epFaults' \in 0..MaxEpFaults,
             epPc' \in [EpServers -> EpSteps], epWhy' \in [EpServers -> Purposes],
             epOwn' \in [EpServers -> 0..MaxSockets], epTarget' \in [EpServers -> 0..MaxSockets]
      PROVE  EpTypeOK'
    BY <1>q DEF EpTypeOK, EpSteps
<1>1. ASSUME NEW s \in EpServers, EnterStart(s) PROVE EpTypeOK'
    <2>1. \E l \in EpSteps : epPc' = [epPc EXCEPT ![s] = l]  BY <1>s, <1>m, <1>1 DEF EnterStart, EpGo, EpFault, StartQuarantine, AfterQuarantine, epDir, epBound, epMove, Purposes
    <2>2. epPc' \in [EpServers -> EpSteps]  BY <1>p, <2>1
    <2>3. /\ epWhy' \in [EpServers -> Purposes] /\ epOwn' \in [EpServers -> 0..MaxSockets]
          /\ epTarget' \in [EpServers -> 0..MaxSockets]
        BY <1>t, <1>m, <1>n, <1>1 DEF EnterStart, EpGo, EpFault, StartQuarantine, AfterQuarantine, epDir, epBound, epMove, Purposes, NoSocket
    <2>4. epCrit' \in EpServers \cup {Nobody} /\ epFaults' \in 0..MaxEpFaults /\ epToken' \in {"absent", "torn", "valid"}
        BY <1>t, <1>m, <1>1 DEF EnterStart, EpGo, EpFault, StartQuarantine, AfterQuarantine, epDir, epBound, epMove, Purposes
    <2>5. /\ epFile' \in 0..MaxSockets /\ epNext' \in 0..MaxSockets /\ epSlots' \subseteq 1..epNext' /\ epLinked' \subseteq epSlots'
          /\ epLive' \subseteq 1..epNext' /\ epForeign' \subseteq 1..epNext' /\ epLost' \subseteq 1..epNext'
        BY <1>t, <1>m, <1>n, <1>v, <1>1 DEF EnterStart, EpGo, EpFault, StartQuarantine, AfterQuarantine, epDir, epBound, epMove, NoSocket
    <2> QED  BY <1>q, <2>2, <2>3, <2>4, <2>5
<1>2. ASSUME NEW s \in EpServers, LoadToken(s) PROVE EpTypeOK'
    <2>1. \E l \in EpSteps : epPc' = [epPc EXCEPT ![s] = l]  BY <1>s, <1>m, <1>2 DEF LoadToken, EpGo, EpFault, StartQuarantine, AfterQuarantine, epDir, epBound, epMove, Purposes
    <2>2. epPc' \in [EpServers -> EpSteps]  BY <1>p, <2>1
    <2>3. /\ epWhy' \in [EpServers -> Purposes] /\ epOwn' \in [EpServers -> 0..MaxSockets]
          /\ epTarget' \in [EpServers -> 0..MaxSockets]
        BY <1>t, <1>m, <1>n, <1>2 DEF LoadToken, EpGo, EpFault, StartQuarantine, AfterQuarantine, epDir, epBound, epMove, Purposes, NoSocket
    <2>4. epCrit' \in EpServers \cup {Nobody} /\ epFaults' \in 0..MaxEpFaults /\ epToken' \in {"absent", "torn", "valid"}
        BY <1>t, <1>m, <1>2 DEF LoadToken, EpGo, EpFault, StartQuarantine, AfterQuarantine, epDir, epBound, epMove, Purposes
    <2>5. /\ epFile' \in 0..MaxSockets /\ epNext' \in 0..MaxSockets /\ epSlots' \subseteq 1..epNext' /\ epLinked' \subseteq epSlots'
          /\ epLive' \subseteq 1..epNext' /\ epForeign' \subseteq 1..epNext' /\ epLost' \subseteq 1..epNext'
        BY <1>t, <1>m, <1>n, <1>v, <1>2 DEF LoadToken, EpGo, EpFault, StartQuarantine, AfterQuarantine, epDir, epBound, epMove, NoSocket
    <2> QED  BY <1>q, <2>2, <2>3, <2>4, <2>5
<1>3. ASSUME NEW s \in EpServers, WriteToken(s) PROVE EpTypeOK'
    <2>1. \E l \in EpSteps : epPc' = [epPc EXCEPT ![s] = l]  BY <1>s, <1>m, <1>3 DEF WriteToken, EpGo, EpFault, StartQuarantine, AfterQuarantine, epDir, epBound, epMove, Purposes
    <2>2. epPc' \in [EpServers -> EpSteps]  BY <1>p, <2>1
    <2>3. /\ epWhy' \in [EpServers -> Purposes] /\ epOwn' \in [EpServers -> 0..MaxSockets]
          /\ epTarget' \in [EpServers -> 0..MaxSockets]
        BY <1>t, <1>m, <1>n, <1>3 DEF WriteToken, EpGo, EpFault, StartQuarantine, AfterQuarantine, epDir, epBound, epMove, Purposes, NoSocket
    <2>4. epCrit' \in EpServers \cup {Nobody} /\ epFaults' \in 0..MaxEpFaults /\ epToken' \in {"absent", "torn", "valid"}
        BY <1>t, <1>m, <1>3 DEF WriteToken, EpGo, EpFault, StartQuarantine, AfterQuarantine, epDir, epBound, epMove, Purposes
    <2>5. /\ epFile' \in 0..MaxSockets /\ epNext' \in 0..MaxSockets /\ epSlots' \subseteq 1..epNext' /\ epLinked' \subseteq epSlots'
          /\ epLive' \subseteq 1..epNext' /\ epForeign' \subseteq 1..epNext' /\ epLost' \subseteq 1..epNext'
        BY <1>t, <1>m, <1>n, <1>v, <1>3 DEF WriteToken, EpGo, EpFault, StartQuarantine, AfterQuarantine, epDir, epBound, epMove, NoSocket
    <2> QED  BY <1>q, <2>2, <2>3, <2>4, <2>5
<1>4. ASSUME NEW s \in EpServers, ReclaimBrokerSocket(s) PROVE EpTypeOK'
    <2>1. \E l \in EpSteps : epPc' = [epPc EXCEPT ![s] = l]  BY <1>s, <1>m, <1>4 DEF ReclaimBrokerSocket, EpGo, EpFault, StartQuarantine, AfterQuarantine, epDir, epBound, epMove, Purposes
    <2>2. epPc' \in [EpServers -> EpSteps]  BY <1>p, <2>1
    <2>3. /\ epWhy' \in [EpServers -> Purposes] /\ epOwn' \in [EpServers -> 0..MaxSockets]
          /\ epTarget' \in [EpServers -> 0..MaxSockets]
        BY <1>t, <1>m, <1>n, <1>4 DEF ReclaimBrokerSocket, EpGo, EpFault, StartQuarantine, AfterQuarantine, epDir, epBound, epMove, Purposes, NoSocket
    <2>4. epCrit' \in EpServers \cup {Nobody} /\ epFaults' \in 0..MaxEpFaults /\ epToken' \in {"absent", "torn", "valid"}
        BY <1>t, <1>m, <1>4 DEF ReclaimBrokerSocket, EpGo, EpFault, StartQuarantine, AfterQuarantine, epDir, epBound, epMove, Purposes
    <2>5. /\ epFile' \in 0..MaxSockets /\ epNext' \in 0..MaxSockets /\ epSlots' \subseteq 1..epNext' /\ epLinked' \subseteq epSlots'
          /\ epLive' \subseteq 1..epNext' /\ epForeign' \subseteq 1..epNext' /\ epLost' \subseteq 1..epNext'
        BY <1>t, <1>m, <1>n, <1>v, <1>4 DEF ReclaimBrokerSocket, EpGo, EpFault, StartQuarantine, AfterQuarantine, epDir, epBound, epMove, NoSocket
    <2> QED  BY <1>q, <2>2, <2>3, <2>4, <2>5
<1>5. ASSUME NEW s \in EpServers, QuarantineChecks(s) PROVE EpTypeOK'
    <2>1. \E l \in EpSteps : epPc' = [epPc EXCEPT ![s] = l]  BY <1>s, <1>m, <1>5 DEF QuarantineChecks, EpGo, EpFault, StartQuarantine, AfterQuarantine, epDir, epBound, epMove, Purposes
    <2>2. epPc' \in [EpServers -> EpSteps]  BY <1>p, <2>1
    <2>3. /\ epWhy' \in [EpServers -> Purposes] /\ epOwn' \in [EpServers -> 0..MaxSockets]
          /\ epTarget' \in [EpServers -> 0..MaxSockets]
        BY <1>t, <1>m, <1>n, <1>5 DEF QuarantineChecks, EpGo, EpFault, StartQuarantine, AfterQuarantine, epDir, epBound, epMove, Purposes, NoSocket
    <2>4. epCrit' \in EpServers \cup {Nobody} /\ epFaults' \in 0..MaxEpFaults /\ epToken' \in {"absent", "torn", "valid"}
        BY <1>t, <1>m, <1>5 DEF QuarantineChecks, EpGo, EpFault, StartQuarantine, AfterQuarantine, epDir, epBound, epMove, Purposes
    <2>5. /\ epFile' \in 0..MaxSockets /\ epNext' \in 0..MaxSockets /\ epSlots' \subseteq 1..epNext' /\ epLinked' \subseteq epSlots'
          /\ epLive' \subseteq 1..epNext' /\ epForeign' \subseteq 1..epNext' /\ epLost' \subseteq 1..epNext'
        BY <1>t, <1>m, <1>n, <1>v, <1>5 DEF QuarantineChecks, EpGo, EpFault, StartQuarantine, AfterQuarantine, epDir, epBound, epMove, NoSocket
    <2> QED  BY <1>q, <2>2, <2>3, <2>4, <2>5
<1>6. ASSUME NEW s \in EpServers, MoveBrokerSocket(s) PROVE EpTypeOK'
    <2>1. UNCHANGED <<epLinked, epLost, epForeign, epNext, epLive, epToken, epOwn, epWhy>>
        BY <1>6 DEF MoveBrokerSocket, epBound, epMove
    <2>2. /\ epCrit' \in {epCrit, Nobody} /\ epFaults' \in 0..MaxEpFaults
          /\ \E l \in EpSteps : epPc' = [epPc EXCEPT ![s] = l]
        <3>1. CASE epPc' = [epPc EXCEPT ![s] = "verify"] /\ UNCHANGED <<epCrit, epFaults>>  BY <1>s, <1>t, <3>1
        <3>2. CASE AfterQuarantine(s, FALSE) /\ (UNCHANGED epFaults \/ EpFault)
            <4>1. epFaults' \in 0..MaxEpFaults  BY <1>t, <3>2 DEF EpFault
            <4>2. epCrit' \in {epCrit, Nobody} /\ \E l \in EpSteps : epPc' = [epPc EXCEPT ![s] = l]
                BY <1>s, <1>m, <3>2 DEF AfterQuarantine, EpGo, Purposes
            <4> QED  BY <4>1, <4>2
        <3> QED  BY <1>6, <3>1, <3>2 DEF MoveBrokerSocket, EpGo
    <2>3. epPc' \in [EpServers -> EpSteps]  BY <1>p, <2>2
    <2>4. \/ /\ epSlots' = epSlots \cup {epFile} /\ epFile # 0 /\ epFile' = 0
             /\ epTarget' = [epTarget EXCEPT ![s] = IF epFile = epTarget[s] THEN 0 ELSE epFile]
          \/ UNCHANGED <<epSlots, epFile, epTarget>>
        BY <1>6 DEF MoveBrokerSocket, NoSocket, epMove
    <2>5. epTarget' \in [EpServers -> 0..MaxSockets]  BY <1>t, <1>m, <2>4
    <2>6. epSlots' \subseteq 1..epNext /\ epSlots \subseteq epSlots' /\ epFile' \in 0..MaxSockets
        <3>1. epFile # 0 => epFile \in 1..epNext  BY <1>t, <1>n
        <3>2. 0 \in 0..MaxSockets  BY <1>t
        <3> QED  BY <1>t, <2>4, <3>1, <3>2
    <2> QED  BY <1>q, <1>t, <1>m, <2>1, <2>2, <2>3, <2>5, <2>6
<1>7. ASSUME NEW s \in EpServers, VerifyMoved(s) PROVE EpTypeOK'
    <2>1. UNCHANGED <<epSlots, epLost, epForeign, epNext, epLive, epToken, epOwn, epFaults, epWhy>>
        BY <1>7 DEF VerifyMoved, epBound, epMove
    <2>2. epCrit' \in {epCrit, Nobody} /\ \E l \in EpSteps : epPc' = [epPc EXCEPT ![s] = l]
        <3>1. AfterQuarantine(s, TRUE) \/ AfterQuarantine(s, FALSE)  BY <1>7 DEF VerifyMoved
        <3> QED  BY <1>s, <1>m, <3>1 DEF AfterQuarantine, EpGo, Purposes
    <2>3. epPc' \in [EpServers -> EpSteps]  BY <1>p, <2>2
    <2>4. \/ UNCHANGED <<epFile, epLinked, epTarget>>
          \/ /\ epTarget[s] # 0 /\ epTarget' = [epTarget EXCEPT ![s] = 0] /\ epFile' \in {epFile, epTarget[s]}
             /\ epLinked' \in {epLinked, epLinked \cup {epTarget[s]}}
        BY <1>7 DEF VerifyMoved, NoSocket, epMove
    <2>5. epTarget[s] \in epSlots \/ epTarget[s] = 0  BY <1>v, <1>7 DEF VerifyMoved, NoSocket
    <2>6. epTarget' \in [EpServers -> 0..MaxSockets] /\ epFile' \in 0..MaxSockets  BY <1>t, <1>m, <2>4
    <2>7. epLinked' \subseteq epSlots  BY <1>t, <2>4, <2>5
    <2> QED  BY <1>q, <1>t, <1>m, <2>1, <2>2, <2>3, <2>6, <2>7
<1>8. ASSUME NEW s \in EpServers, ListenBrokerSocket(s) PROVE EpTypeOK'
    <2>1. \E l \in EpSteps : epPc' = [epPc EXCEPT ![s] = l]  BY <1>s, <1>m, <1>8 DEF ListenBrokerSocket, EpGo, EpFault, StartQuarantine, AfterQuarantine, epDir, epBound, epMove, Purposes
    <2>2. epPc' \in [EpServers -> EpSteps]  BY <1>p, <2>1
    <2>3. /\ epWhy' \in [EpServers -> Purposes] /\ epOwn' \in [EpServers -> 0..MaxSockets]
          /\ epTarget' \in [EpServers -> 0..MaxSockets]
        BY <1>t, <1>m, <1>n, <1>8 DEF ListenBrokerSocket, EpGo, EpFault, StartQuarantine, AfterQuarantine, epDir, epBound, epMove, Purposes, NoSocket
    <2>4. epCrit' \in EpServers \cup {Nobody} /\ epFaults' \in 0..MaxEpFaults /\ epToken' \in {"absent", "torn", "valid"}
        BY <1>t, <1>m, <1>8 DEF ListenBrokerSocket, EpGo, EpFault, StartQuarantine, AfterQuarantine, epDir, epBound, epMove, Purposes
    <2>5. /\ epFile' \in 0..MaxSockets /\ epNext' \in 0..MaxSockets /\ epSlots' \subseteq 1..epNext' /\ epLinked' \subseteq epSlots'
          /\ epLive' \subseteq 1..epNext' /\ epForeign' \subseteq 1..epNext' /\ epLost' \subseteq 1..epNext'
        <3>1. UNCHANGED <<epSlots, epLinked, epLost, epForeign>>  BY <1>8 DEF ListenBrokerSocket
        <3>2. \/ epNext < MaxSockets /\ epNext' = epNext + 1 /\ epFile' = epNext + 1 /\ epLive' \in {epLive, epLive \cup {epNext + 1}}
              \/ epNext' = epNext /\ epFile' = epFile /\ epLive' = epLive
            BY <1>8 DEF ListenBrokerSocket
        <3>3. epNext' \in 0..MaxSockets /\ epFile' \in 0..MaxSockets /\ 1..epNext \subseteq 1..epNext'  BY <1>t, <3>2
        <3>4. epLive' \subseteq 1..epNext'
            <4>1. epNext' = epNext + 1 => epNext + 1 \in 1..epNext'  BY <1>t
            <4>2. epLive \subseteq 1..epNext'  BY <1>t, <3>3
            <4> QED  BY <3>2, <4>1, <4>2
        <3> QED  BY <1>t, <3>1, <3>3, <3>4
    <2> QED  BY <1>q, <2>2, <2>3, <2>4, <2>5
<1>9. ASSUME NEW s \in EpServers, AdoptListener(s) PROVE EpTypeOK'
    <2>1. \E l \in EpSteps : epPc' = [epPc EXCEPT ![s] = l]  BY <1>s, <1>m, <1>9 DEF AdoptListener, EpGo, EpFault, StartQuarantine, AfterQuarantine, epDir, epBound, epMove, Purposes
    <2>2. epPc' \in [EpServers -> EpSteps]  BY <1>p, <2>1
    <2>3. /\ epWhy' \in [EpServers -> Purposes] /\ epOwn' \in [EpServers -> 0..MaxSockets]
          /\ epTarget' \in [EpServers -> 0..MaxSockets]
        BY <1>t, <1>m, <1>n, <1>9 DEF AdoptListener, EpGo, EpFault, StartQuarantine, AfterQuarantine, epDir, epBound, epMove, Purposes, NoSocket
    <2>4. epCrit' \in EpServers \cup {Nobody} /\ epFaults' \in 0..MaxEpFaults /\ epToken' \in {"absent", "torn", "valid"}
        BY <1>t, <1>m, <1>9 DEF AdoptListener, EpGo, EpFault, StartQuarantine, AfterQuarantine, epDir, epBound, epMove, Purposes
    <2>5. /\ epFile' \in 0..MaxSockets /\ epNext' \in 0..MaxSockets /\ epSlots' \subseteq 1..epNext' /\ epLinked' \subseteq epSlots'
          /\ epLive' \subseteq 1..epNext' /\ epForeign' \subseteq 1..epNext' /\ epLost' \subseteq 1..epNext'
        BY <1>t, <1>m, <1>n, <1>v, <1>9 DEF AdoptListener, EpGo, EpFault, StartQuarantine, AfterQuarantine, epDir, epBound, epMove, NoSocket
    <2> QED  BY <1>q, <2>2, <2>3, <2>4, <2>5
<1>10. ASSUME NEW s \in EpServers, PublishBrokerSocket(s) PROVE EpTypeOK'
    <2>1. \E l \in EpSteps : epPc' = [epPc EXCEPT ![s] = l]  BY <1>s, <1>m, <1>10 DEF PublishBrokerSocket, EpGo, EpFault, StartQuarantine, AfterQuarantine, epDir, epBound, epMove, Purposes
    <2>2. epPc' \in [EpServers -> EpSteps]  BY <1>p, <2>1
    <2>3. /\ epWhy' \in [EpServers -> Purposes] /\ epOwn' \in [EpServers -> 0..MaxSockets]
          /\ epTarget' \in [EpServers -> 0..MaxSockets]
        BY <1>t, <1>m, <1>n, <1>10 DEF PublishBrokerSocket, EpGo, EpFault, StartQuarantine, AfterQuarantine, epDir, epBound, epMove, Purposes, NoSocket
    <2>4. epCrit' \in EpServers \cup {Nobody} /\ epFaults' \in 0..MaxEpFaults /\ epToken' \in {"absent", "torn", "valid"}
        BY <1>t, <1>m, <1>10 DEF PublishBrokerSocket, EpGo, EpFault, StartQuarantine, AfterQuarantine, epDir, epBound, epMove, Purposes
    <2>5. /\ epFile' \in 0..MaxSockets /\ epNext' \in 0..MaxSockets /\ epSlots' \subseteq 1..epNext' /\ epLinked' \subseteq epSlots'
          /\ epLive' \subseteq 1..epNext' /\ epForeign' \subseteq 1..epNext' /\ epLost' \subseteq 1..epNext'
        BY <1>t, <1>m, <1>n, <1>v, <1>10 DEF PublishBrokerSocket, EpGo, EpFault, StartQuarantine, AfterQuarantine, epDir, epBound, epMove, NoSocket
    <2> QED  BY <1>q, <2>2, <2>3, <2>4, <2>5
<1>11. ASSUME NEW s \in EpServers, UnwindStart(s) PROVE EpTypeOK'
    <2>1. \E l \in EpSteps : epPc' = [epPc EXCEPT ![s] = l]  BY <1>s, <1>m, <1>11 DEF UnwindStart, EpGo, EpFault, StartQuarantine, AfterQuarantine, epDir, epBound, epMove, Purposes
    <2>2. epPc' \in [EpServers -> EpSteps]  BY <1>p, <2>1
    <2>3. /\ epWhy' \in [EpServers -> Purposes] /\ epOwn' \in [EpServers -> 0..MaxSockets]
          /\ epTarget' \in [EpServers -> 0..MaxSockets]
        BY <1>t, <1>m, <1>n, <1>11 DEF UnwindStart, EpGo, EpFault, StartQuarantine, AfterQuarantine, epDir, epBound, epMove, Purposes, NoSocket
    <2>4. epCrit' \in EpServers \cup {Nobody} /\ epFaults' \in 0..MaxEpFaults /\ epToken' \in {"absent", "torn", "valid"}
        BY <1>t, <1>m, <1>11 DEF UnwindStart, EpGo, EpFault, StartQuarantine, AfterQuarantine, epDir, epBound, epMove, Purposes
    <2>5. /\ epFile' \in 0..MaxSockets /\ epNext' \in 0..MaxSockets /\ epSlots' \subseteq 1..epNext' /\ epLinked' \subseteq epSlots'
          /\ epLive' \subseteq 1..epNext' /\ epForeign' \subseteq 1..epNext' /\ epLost' \subseteq 1..epNext'
        BY <1>t, <1>m, <1>n, <1>v, <1>11 DEF UnwindStart, EpGo, EpFault, StartQuarantine, AfterQuarantine, epDir, epBound, epMove, NoSocket
    <2> QED  BY <1>q, <2>2, <2>3, <2>4, <2>5
<1>12. ASSUME NEW s \in EpServers, EnterClose(s) PROVE EpTypeOK'
    <2>1. \E l \in EpSteps : epPc' = [epPc EXCEPT ![s] = l]  BY <1>s, <1>m, <1>12 DEF EnterClose, EpGo, EpFault, StartQuarantine, AfterQuarantine, epDir, epBound, epMove, Purposes
    <2>2. epPc' \in [EpServers -> EpSteps]  BY <1>p, <2>1
    <2>3. /\ epWhy' \in [EpServers -> Purposes] /\ epOwn' \in [EpServers -> 0..MaxSockets]
          /\ epTarget' \in [EpServers -> 0..MaxSockets]
        BY <1>t, <1>m, <1>n, <1>12 DEF EnterClose, EpGo, EpFault, StartQuarantine, AfterQuarantine, epDir, epBound, epMove, Purposes, NoSocket
    <2>4. epCrit' \in EpServers \cup {Nobody} /\ epFaults' \in 0..MaxEpFaults /\ epToken' \in {"absent", "torn", "valid"}
        BY <1>t, <1>m, <1>12 DEF EnterClose, EpGo, EpFault, StartQuarantine, AfterQuarantine, epDir, epBound, epMove, Purposes
    <2>5. /\ epFile' \in 0..MaxSockets /\ epNext' \in 0..MaxSockets /\ epSlots' \subseteq 1..epNext' /\ epLinked' \subseteq epSlots'
          /\ epLive' \subseteq 1..epNext' /\ epForeign' \subseteq 1..epNext' /\ epLost' \subseteq 1..epNext'
        BY <1>t, <1>m, <1>n, <1>v, <1>12 DEF EnterClose, EpGo, EpFault, StartQuarantine, AfterQuarantine, epDir, epBound, epMove, NoSocket
    <2> QED  BY <1>q, <2>2, <2>3, <2>4, <2>5
<1>13. ASSUME NEW s \in EpServers, CloseListener(s) PROVE EpTypeOK'
    <2>1. \E l \in EpSteps : epPc' = [epPc EXCEPT ![s] = l]  BY <1>s, <1>m, <1>13 DEF CloseListener, EpGo, EpFault, StartQuarantine, AfterQuarantine, epDir, epBound, epMove, Purposes
    <2>2. epPc' \in [EpServers -> EpSteps]  BY <1>p, <2>1
    <2>3. /\ epWhy' \in [EpServers -> Purposes] /\ epOwn' \in [EpServers -> 0..MaxSockets]
          /\ epTarget' \in [EpServers -> 0..MaxSockets]
        BY <1>t, <1>m, <1>n, <1>13 DEF CloseListener, EpGo, EpFault, StartQuarantine, AfterQuarantine, epDir, epBound, epMove, Purposes, NoSocket
    <2>4. epCrit' \in EpServers \cup {Nobody} /\ epFaults' \in 0..MaxEpFaults /\ epToken' \in {"absent", "torn", "valid"}
        BY <1>t, <1>m, <1>13 DEF CloseListener, EpGo, EpFault, StartQuarantine, AfterQuarantine, epDir, epBound, epMove, Purposes
    <2>5. /\ epFile' \in 0..MaxSockets /\ epNext' \in 0..MaxSockets /\ epSlots' \subseteq 1..epNext' /\ epLinked' \subseteq epSlots'
          /\ epLive' \subseteq 1..epNext' /\ epForeign' \subseteq 1..epNext' /\ epLost' \subseteq 1..epNext'
        BY <1>t, <1>m, <1>n, <1>v, <1>13 DEF CloseListener, EpGo, EpFault, StartQuarantine, AfterQuarantine, epDir, epBound, epMove, NoSocket
    <2> QED  BY <1>q, <2>2, <2>3, <2>4, <2>5
<1>14. ASSUME NEW s \in EpServers, EpCrash(s) PROVE EpTypeOK'
    <2>1. \E l \in EpSteps : epPc' = [epPc EXCEPT ![s] = l]  BY <1>s, <1>m, <1>14 DEF EpCrash, EpGo, EpFault, StartQuarantine, AfterQuarantine, epDir, epBound, epMove, Purposes
    <2>2. epPc' \in [EpServers -> EpSteps]  BY <1>p, <2>1
    <2>3. /\ epWhy' \in [EpServers -> Purposes] /\ epOwn' \in [EpServers -> 0..MaxSockets]
          /\ epTarget' \in [EpServers -> 0..MaxSockets]
        BY <1>t, <1>m, <1>n, <1>14 DEF EpCrash, EpGo, EpFault, StartQuarantine, AfterQuarantine, epDir, epBound, epMove, Purposes, NoSocket
    <2>4. epCrit' \in EpServers \cup {Nobody} /\ epFaults' \in 0..MaxEpFaults /\ epToken' \in {"absent", "torn", "valid"}
        BY <1>t, <1>m, <1>14 DEF EpCrash, EpGo, EpFault, StartQuarantine, AfterQuarantine, epDir, epBound, epMove, Purposes
    <2>5. /\ epFile' \in 0..MaxSockets /\ epNext' \in 0..MaxSockets /\ epSlots' \subseteq 1..epNext' /\ epLinked' \subseteq epSlots'
          /\ epLive' \subseteq 1..epNext' /\ epForeign' \subseteq 1..epNext' /\ epLost' \subseteq 1..epNext'
        BY <1>t, <1>m, <1>n, <1>v, <1>14 DEF EpCrash, EpGo, EpFault, StartQuarantine, AfterQuarantine, epDir, epBound, epMove, NoSocket
    <2> QED  BY <1>q, <2>2, <2>3, <2>4, <2>5
<1>15. CASE Intrude
    <2>1. /\ epFile' \in 0..MaxSockets /\ epNext' \in 0..MaxSockets /\ epSlots' \subseteq 1..epNext' /\ epLinked' \subseteq epSlots'
          /\ epLive' \subseteq 1..epNext' /\ epForeign' \subseteq 1..epNext' /\ epLost' \subseteq 1..epNext'
        <3>1. /\ UNCHANGED <<epSlots, epLinked>> /\ epNext < MaxSockets /\ epNext' = epNext + 1 /\ epFile' = epNext + 1
              /\ epForeign' = epForeign \cup {epNext + 1} /\ epLive' = epLive \cup {epNext + 1}
              /\ epLost' \subseteq epLost \cup ({epFile} \ {0})
            BY <1>15 DEF Intrude, NoSocket
        <3>2. epNext' \in 0..MaxSockets /\ epFile' \in 0..MaxSockets /\ 1..epNext \subseteq 1..epNext'  BY <1>t, <3>1
        <3>3. epLive' \subseteq 1..epNext' /\ epForeign' \subseteq 1..epNext'  BY <1>t, <3>1
        <3>4. {epFile} \ {0} \subseteq 1..epNext  BY <1>t, <1>n
        <3>5. epLost' \subseteq 1..epNext'  BY <1>t, <3>1, <3>2, <3>4
        <3> QED  BY <1>t, <3>1, <3>2, <3>3, <3>5
    <2> QED  BY <1>q, <1>t, <1>p, <1>m, <1>15, <2>1 DEF Intrude, epMove
<1>16. ASSUME NEW i \in epForeign, ForeignStops(i) PROVE EpTypeOK'
    BY <1>q, <1>t, <1>p, <1>m, <1>16 DEF ForeignStops, epDir, epBound, epMove
<1>17. CASE UNCHANGED epVars  BY <1>q, <1>t, <1>p, <1>m, <1>17 DEF epVars
<1> QED
    BY <1>1, <1>2, <1>3, <1>4, <1>5, <1>6, <1>7, <1>8, <1>9, <1>10, <1>11, <1>12, <1>13, <1>14, <1>15, <1>16, <1>17 DEF EpNext, ServerStep

\* The directory starts empty.
LEMMA EpSafeInit == EpInit => EpTypeOK /\ EpSafe
<1> SUFFICES ASSUME EpInit PROVE EpTypeOK /\ EpSafe  OBVIOUS
<1>a. QuarantineLimit \in Nat \ {0} /\ MaxSockets \in Nat /\ MaxEpFaults \in Nat  BY EndpointAssumption
<1>1. EpTypeOK  BY <1>a DEF EpInit, EpTypeOK, NoSocket, Purposes
<1>2. \A s \in EpServers : epPc[s] = "off" /\ epOwn[s] = 0 /\ epTarget[s] = 0  BY DEF EpInit, NoSocket
<1>3. epFile = 0 /\ epNext = 0 /\ epSlots = {}  BY DEF EpInit, NoSocket
<1>4. OneInside /\ Numbered /\ OwnAlone  BY <1>2, <1>3 DEF OneInside, Numbered, OwnAlone, Inside, QSteps, NoSocket
<1>5. ListensOnOwn /\ MovesOnlyStale /\ RoomAhead /\ ServingIsReachable
    BY <1>2 DEF ListensOnOwn, MovesOnlyStale, RoomAhead, ServingIsReachable, Listening, BeforeMove
<1>6. RoomToRetire  BY <1>a, <1>2, <1>3, FS_EmptySet DEF RoomToRetire
<1>7. NothingUnlinked  BY <1>3 DEF NothingUnlinked
<1> QED  BY <1>1, <1>4, <1>5, <1>6, <1>7 DEF EpSafe

\* Every step of a server, a crash or an outsider keeps all of it.
LEMMA EpSafeStep == EpTypeOK /\ EpSafe /\ [EpNext]_epVars => EpSafe'
<1> SUFFICES ASSUME EpTypeOK, EpSafe, [EpNext]_epVars PROVE EpSafe'  OBVIOUS
<1>t. /\ epNext \in Nat /\ epSlots \in SUBSET (1..epNext) /\ epLive \subseteq 1..epNext /\ epForeign \subseteq 1..epNext
      /\ epLost \subseteq 1..epNext /\ QuarantineLimit \in Nat /\ Nobody \notin EpServers
    BY EndpointAssumption DEF EpTypeOK
<1>p. epPc \in [EpServers -> EpSteps]  BY DEF EpTypeOK, EpSteps
<1>m. /\ epWhy \in [EpServers -> Purposes] /\ epOwn \in [EpServers -> 0..MaxSockets]
      /\ epTarget \in [EpServers -> 0..MaxSockets]
    BY DEF EpTypeOK
<1>i. /\ OneInside /\ Numbered /\ OwnAlone /\ ListensOnOwn /\ MovesOnlyStale /\ RoomAhead
      /\ ServingIsReachable /\ RoomToRetire /\ NothingUnlinked
    BY DEF EpSafe
<1>k. /\ Cardinality(epSlots) \in Nat
      /\ \A x : Cardinality(epSlots \cup {x}) \in Nat /\ Cardinality(epSlots \cup {x}) <= Cardinality(epSlots) + 1
    BY <1>t, SlotsCounted
\* What is moved is not the socket of a server that listens.
<1>w. ASSUME NEW s \in EpServers, epPc[s] = "move" PROVE \A u \in EpServers : epPc[u] \in Listening => epOwn[u] # epFile
    <2> SUFFICES ASSUME NEW u \in EpServers, epPc[u] \in Listening, epFile = epOwn[u] PROVE FALSE
        OBVIOUS
    <2>1. epOwn[u] # NoSocket /\ epOwn[u] \in epLive  BY <1>i DEF ListensOnOwn
    <2>2. epOwn[u] \notin epForeign /\ \A t \in EpServers \ {u} : epOwn[t] # epOwn[u]  BY <1>i, <2>1 DEF OwnAlone
    <2>3. u # s  BY <1>w DEF Listening
    <2>4. epFile = epTarget[s]  BY <1>i, <1>w, <2>1, <2>2 DEF MovesOnlyStale
    <2> QED  BY <1>i, <1>w, <2>1, <2>2, <2>3, <2>4 DEF MovesOnlyStale, BeforeMove
<1>1. ASSUME NEW s \in EpServers, EnterStart(s) PROVE EpSafe'
    <2>1. epPc[s] = "off" /\ UNCHANGED <<epFile, epSlots, epLive, epForeign, epLost, epNext>>
        BY <1>1 DEF EnterStart, EpGo, EpFault, StartQuarantine, AfterQuarantine, epDir, epBound, epMove
    <2>2. \A t \in EpServers \ {s} : /\ epPc'[t] = epPc[t] /\ epOwn'[t] = epOwn[t]
                                    /\ epTarget'[t] = epTarget[t] /\ epWhy'[t] = epWhy[t]
        BY <1>p, <1>m, <1>1 DEF EnterStart, EpGo, EpFault, StartQuarantine, AfterQuarantine, epDir, epBound, epMove, Purposes
    <2>3. epCrit = Nobody /\ epCrit' = s /\ epPc'[s] = "token" /\ epOwn'[s] = epOwn[s] /\ epTarget'[s] = epTarget[s] /\ epWhy'[s] = epWhy[s]
        BY <1>p, <1>m, <1>1 DEF EnterStart, EpGo, EpFault, StartQuarantine, AfterQuarantine, epDir, epBound, epMove, Purposes
    <2>g0. OneInside'  BY <1>i, <1>t, <2>1, <2>2, <2>3 DEF OneInside, Inside, QSteps
    <2>g1. Numbered'  BY <1>i, <1>t, <2>1, <2>2, <2>3 DEF Numbered, NoSocket
    <2>g2. OwnAlone'  BY <1>i, <1>t, <2>1, <2>2, <2>3 DEF OwnAlone, Numbered, NoSocket
    <2>g3. ListensOnOwn'  BY <1>i, <1>t, <2>1, <2>2, <2>3 DEF ListensOnOwn, Listening, OwnAlone, Numbered
    <2>g4. MovesOnlyStale'  BY <1>i, <1>t, <2>1, <2>2, <2>3 DEF MovesOnlyStale, BeforeMove, Numbered
    <2>g5. RoomAhead'  BY <1>i, <1>t, <1>k, <2>1, <2>2, <2>3 DEF RoomAhead, HasRoom, SlotsAfter
    <2>g6. ServingIsReachable'  BY <1>i, <1>t, <2>1, <2>2, <2>3 DEF ServingIsReachable, ListensOnOwn, Listening
    <2>g7. RoomToRetire'  BY <1>i, <1>t, <1>k, <2>1, <2>2, <2>3 DEF RoomToRetire, HasRoom
    <2>g8. NothingUnlinked'  BY <1>i, <1>t, <2>1, <2>2, <2>3 DEF NothingUnlinked, Numbered, NoSocket
    <2> QED  BY <2>g0, <2>g1, <2>g2, <2>g3, <2>g4, <2>g5, <2>g6, <2>g7, <2>g8 DEF EpSafe
<1>2. ASSUME NEW s \in EpServers, LoadToken(s) PROVE EpSafe'
    <2>1. epPc[s] = "token" /\ UNCHANGED <<epFile, epSlots, epLive, epForeign, epLost, epNext>>
        BY <1>2 DEF LoadToken, EpGo, EpFault, StartQuarantine, AfterQuarantine, epDir, epBound, epMove
    <2>2. \A t \in EpServers \ {s} : /\ epPc'[t] = epPc[t] /\ epOwn'[t] = epOwn[t]
                                    /\ epTarget'[t] = epTarget[t] /\ epWhy'[t] = epWhy[t]
        BY <1>p, <1>m, <1>2 DEF LoadToken, EpGo, EpFault, StartQuarantine, AfterQuarantine, epDir, epBound, epMove, Purposes
    <2>3. (epPc'[s] \in {"write", "inspect"} /\ epCrit' = epCrit) \/ (epPc'[s] = "off" /\ epCrit' = Nobody)
        BY <1>p, <1>m, <1>2 DEF LoadToken, EpGo, EpFault, StartQuarantine, AfterQuarantine, epDir, epBound, epMove, Purposes
    <2>4. epOwn'[s] = epOwn[s] /\ epTarget'[s] = epTarget[s] /\ epWhy'[s] = epWhy[s]
        BY <1>p, <1>m, <1>2 DEF LoadToken, EpGo, EpFault, StartQuarantine, AfterQuarantine, epDir, epBound, epMove, Purposes
    <2>g0. OneInside'  BY <1>i, <1>t, <2>1, <2>2, <2>3, <2>4 DEF OneInside, Inside, QSteps
    <2>g1. Numbered'  BY <1>i, <1>t, <2>1, <2>2, <2>3, <2>4 DEF Numbered, NoSocket
    <2>g2. OwnAlone'  BY <1>i, <1>t, <2>1, <2>2, <2>3, <2>4 DEF OwnAlone, Numbered, NoSocket
    <2>g3. ListensOnOwn'  BY <1>i, <1>t, <2>1, <2>2, <2>3, <2>4 DEF ListensOnOwn, Listening, OwnAlone, Numbered
    <2>g4. MovesOnlyStale'  BY <1>i, <1>t, <2>1, <2>2, <2>3, <2>4 DEF MovesOnlyStale, BeforeMove, Numbered
    <2>g5. RoomAhead'  BY <1>i, <1>t, <1>k, <2>1, <2>2, <2>3, <2>4 DEF RoomAhead, HasRoom, SlotsAfter
    <2>g6. ServingIsReachable'  BY <1>i, <1>t, <2>1, <2>2, <2>3, <2>4 DEF ServingIsReachable, ListensOnOwn, Listening
    <2>g7. RoomToRetire'  BY <1>i, <1>t, <1>k, <2>1, <2>2, <2>3, <2>4 DEF RoomToRetire, HasRoom
    <2>g8. NothingUnlinked'  BY <1>i, <1>t, <2>1, <2>2, <2>3, <2>4 DEF NothingUnlinked, Numbered, NoSocket
    <2> QED  BY <2>g0, <2>g1, <2>g2, <2>g3, <2>g4, <2>g5, <2>g6, <2>g7, <2>g8 DEF EpSafe
<1>3. ASSUME NEW s \in EpServers, WriteToken(s) PROVE EpSafe'
    <2>1. epPc[s] = "write" /\ UNCHANGED <<epFile, epSlots, epLive, epForeign, epLost, epNext, epCrit>>
        BY <1>3 DEF WriteToken, EpGo, EpFault, StartQuarantine, AfterQuarantine, epDir, epBound, epMove
    <2>2. \A t \in EpServers \ {s} : /\ epPc'[t] = epPc[t] /\ epOwn'[t] = epOwn[t]
                                    /\ epTarget'[t] = epTarget[t] /\ epWhy'[t] = epWhy[t]
        BY <1>p, <1>m, <1>3 DEF WriteToken, EpGo, EpFault, StartQuarantine, AfterQuarantine, epDir, epBound, epMove, Purposes
    <2>3. epPc'[s] = "inspect" /\ epOwn'[s] = epOwn[s] /\ epTarget'[s] = epTarget[s] /\ epWhy'[s] = epWhy[s]
        BY <1>p, <1>m, <1>3 DEF WriteToken, EpGo, EpFault, StartQuarantine, AfterQuarantine, epDir, epBound, epMove, Purposes
    <2>g0. OneInside'  BY <1>i, <1>t, <2>1, <2>2, <2>3 DEF OneInside, Inside, QSteps
    <2>g1. Numbered'  BY <1>i, <1>t, <2>1, <2>2, <2>3 DEF Numbered, NoSocket
    <2>g2. OwnAlone'  BY <1>i, <1>t, <2>1, <2>2, <2>3 DEF OwnAlone, Numbered, NoSocket
    <2>g3. ListensOnOwn'  BY <1>i, <1>t, <2>1, <2>2, <2>3 DEF ListensOnOwn, Listening, OwnAlone, Numbered
    <2>g4. MovesOnlyStale'  BY <1>i, <1>t, <2>1, <2>2, <2>3 DEF MovesOnlyStale, BeforeMove, Numbered
    <2>g5. RoomAhead'  BY <1>i, <1>t, <1>k, <2>1, <2>2, <2>3 DEF RoomAhead, HasRoom, SlotsAfter
    <2>g6. ServingIsReachable'  BY <1>i, <1>t, <2>1, <2>2, <2>3 DEF ServingIsReachable, ListensOnOwn, Listening
    <2>g7. RoomToRetire'  BY <1>i, <1>t, <1>k, <2>1, <2>2, <2>3 DEF RoomToRetire, HasRoom
    <2>g8. NothingUnlinked'  BY <1>i, <1>t, <2>1, <2>2, <2>3 DEF NothingUnlinked, Numbered, NoSocket
    <2> QED  BY <2>g0, <2>g1, <2>g2, <2>g3, <2>g4, <2>g5, <2>g6, <2>g7, <2>g8 DEF EpSafe
<1>4. ASSUME NEW s \in EpServers, ReclaimBrokerSocket(s) PROVE EpSafe'
    <2>1. epPc[s] = "inspect" /\ UNCHANGED <<epFile, epSlots, epLive, epForeign, epLost, epNext>>
        BY <1>4 DEF ReclaimBrokerSocket, EpGo, EpFault, StartQuarantine, AfterQuarantine, epDir, epBound, epMove
    <2>2. \A t \in EpServers \ {s} : /\ epPc'[t] = epPc[t] /\ epOwn'[t] = epOwn[t]
                                    /\ epTarget'[t] = epTarget[t] /\ epWhy'[t] = epWhy[t]
        BY <1>p, <1>m, <1>4 DEF ReclaimBrokerSocket, EpGo, EpFault, StartQuarantine, AfterQuarantine, epDir, epBound, epMove, Purposes
    <2>3. \/ epPc'[s] = "listen" /\ epFile = NoSocket /\ HasRoom(1, 0) /\ epCrit' = epCrit
          \/ /\ epPc'[s] = "read" /\ epWhy'[s] = "reclaim" /\ epTarget'[s] = epFile /\ epFile # NoSocket
             /\ epFile \notin epLive /\ epCrit' = epCrit
          \/ epPc'[s] = "off" /\ epCrit' = Nobody
        BY <1>p, <1>m, <1>4 DEF ReclaimBrokerSocket, EpGo, EpFault, StartQuarantine, AfterQuarantine, epDir, epBound, epMove, Purposes
    <2>4. epOwn'[s] = epOwn[s] /\ epTarget'[s] \in {epTarget[s], epFile}
        BY <1>p, <1>m, <1>4 DEF ReclaimBrokerSocket, EpGo, EpFault, StartQuarantine, AfterQuarantine, epDir, epBound, epMove, Purposes
    <2>g0. OneInside'  BY <1>i, <1>t, <2>1, <2>2, <2>3, <2>4 DEF OneInside, Inside, QSteps
    <2>g1. Numbered'  BY <1>i, <1>t, <2>1, <2>2, <2>3, <2>4 DEF Numbered, NoSocket
    <2>g2. OwnAlone'  BY <1>i, <1>t, <2>1, <2>2, <2>3, <2>4 DEF OwnAlone, Numbered, NoSocket
    <2>g3. ListensOnOwn'  BY <1>i, <1>t, <2>1, <2>2, <2>3, <2>4 DEF ListensOnOwn, Listening, OwnAlone, Numbered
    <2>g4. MovesOnlyStale'  BY <1>i, <1>t, <2>1, <2>2, <2>3, <2>4 DEF MovesOnlyStale, BeforeMove, Numbered
    <2>g5. RoomAhead'  BY <1>i, <1>t, <1>k, <2>1, <2>2, <2>3, <2>4 DEF RoomAhead, HasRoom, SlotsAfter
    <2>g6. ServingIsReachable'  BY <1>i, <1>t, <2>1, <2>2, <2>3, <2>4 DEF ServingIsReachable, ListensOnOwn, Listening
    <2>g7. RoomToRetire'  BY <1>i, <1>t, <1>k, <2>1, <2>2, <2>3, <2>4 DEF RoomToRetire, HasRoom
    <2>g8. NothingUnlinked'  BY <1>i, <1>t, <2>1, <2>2, <2>3, <2>4 DEF NothingUnlinked, Numbered, NoSocket
    <2> QED  BY <2>g0, <2>g1, <2>g2, <2>g3, <2>g4, <2>g5, <2>g6, <2>g7, <2>g8 DEF EpSafe
<1>5. ASSUME NEW s \in EpServers, QuarantineChecks(s) PROVE EpSafe'
    <2>1. epPc[s] \in BeforeMove /\ UNCHANGED <<epFile, epSlots, epLive, epForeign, epLost, epNext>>
        BY <1>5 DEF QuarantineChecks, EpGo, EpFault, StartQuarantine, AfterQuarantine, epDir, epBound, epMove, BeforeMove
    <2>2. \A t \in EpServers \ {s} : /\ epPc'[t] = epPc[t] /\ epOwn'[t] = epOwn[t]
                                    /\ epTarget'[t] = epTarget[t] /\ epWhy'[t] = epWhy[t]
        BY <1>p, <1>m, <1>5 DEF QuarantineChecks, EpGo, EpFault, StartQuarantine, AfterQuarantine, epDir, epBound, epMove, Purposes
    <2>3. \/ epPc[s] \in {"read", "reserve"} /\ epPc'[s] \in {"reserve", "recheck"} /\ epCrit' = epCrit
          \/ /\ epPc[s] = "recheck" /\ epPc'[s] = "move" /\ epCrit' = epCrit
             /\ epFile = epTarget[s] /\ HasRoom(1, SlotsAfter(epWhy[s]))
          \/ epPc[s] = "read" /\ epWhy[s] = "reclaim" /\ epPc'[s] = "listen" /\ epCrit' = epCrit
          \/ epPc'[s] \in {"off", "unwind"} /\ epCrit' = Nobody
        BY <1>p, <1>m, <1>5 DEF QuarantineChecks, EpGo, EpFault, StartQuarantine, AfterQuarantine, epDir, epBound, epMove, Purposes
    <2>4. epOwn'[s] = epOwn[s] /\ epTarget'[s] = epTarget[s] /\ epWhy'[s] = epWhy[s]
        BY <1>p, <1>m, <1>5 DEF QuarantineChecks, EpGo, EpFault, StartQuarantine, AfterQuarantine, epDir, epBound, epMove, Purposes
    <2>g0. OneInside'  BY <1>i, <1>t, <2>1, <2>2, <2>3, <2>4 DEF OneInside, Inside, QSteps, BeforeMove
    <2>g1. Numbered'  BY <1>i, <1>t, <2>1, <2>2, <2>3, <2>4 DEF Numbered, NoSocket
    <2>g2. OwnAlone'  BY <1>i, <1>t, <2>1, <2>2, <2>3, <2>4 DEF OwnAlone, Numbered, NoSocket
    <2>g3. ListensOnOwn'  BY <1>i, <1>t, <2>1, <2>2, <2>3, <2>4 DEF ListensOnOwn, Listening, OwnAlone, Numbered
    <2>g4. MovesOnlyStale'  BY <1>i, <1>t, <2>1, <2>2, <2>3, <2>4 DEF MovesOnlyStale, BeforeMove, Numbered
    <2>g5. RoomAhead'  BY <1>i, <1>t, <1>k, <2>1, <2>2, <2>3, <2>4 DEF RoomAhead, HasRoom, SlotsAfter
    <2>g6. ServingIsReachable'  BY <1>i, <1>t, <2>1, <2>2, <2>3, <2>4 DEF ServingIsReachable, ListensOnOwn, Listening
    <2>g7. RoomToRetire'  BY <1>i, <1>t, <1>k, <2>1, <2>2, <2>3, <2>4 DEF RoomToRetire, HasRoom
    <2>g8. NothingUnlinked'  BY <1>i, <1>t, <2>1, <2>2, <2>3, <2>4 DEF NothingUnlinked, Numbered, NoSocket
    <2> QED  BY <2>g0, <2>g1, <2>g2, <2>g3, <2>g4, <2>g5, <2>g6, <2>g7, <2>g8 DEF EpSafe
<1>6. ASSUME NEW s \in EpServers, MoveBrokerSocket(s) PROVE EpSafe'
    <2>1. epPc[s] = "move" /\ UNCHANGED <<epLive, epForeign, epLost, epNext>>
        BY <1>6 DEF MoveBrokerSocket, EpGo, EpFault, StartQuarantine, AfterQuarantine, epDir, epBound, epMove
    <2>2. \A t \in EpServers \ {s} : /\ epPc'[t] = epPc[t] /\ epOwn'[t] = epOwn[t]
                                    /\ epTarget'[t] = epTarget[t] /\ epWhy'[t] = epWhy[t]
        BY <1>p, <1>m, <1>6 DEF MoveBrokerSocket, EpGo, EpFault, StartQuarantine, AfterQuarantine, epDir, epBound, epMove, Purposes
    <2>3. \/ /\ epFile # NoSocket /\ epSlots' = epSlots \cup {epFile} /\ epFile' = NoSocket /\ epPc'[s] = "verify"
             /\ epTarget'[s] \in {NoSocket, epFile} /\ epWhy'[s] = epWhy[s] /\ epCrit' = epCrit
          \/ epSlots' = epSlots /\ epFile' = epFile /\ epPc'[s] \in {"off", "unwind"} /\ epCrit' = Nobody /\ epTarget'[s] = epTarget[s] /\ epWhy'[s] = epWhy[s]
        BY <1>p, <1>m, <1>6 DEF MoveBrokerSocket, EpGo, EpFault, StartQuarantine, AfterQuarantine, epDir, epBound, epMove, Purposes
    <2>4. epOwn'[s] = epOwn[s]
        BY <1>p, <1>m, <1>6 DEF MoveBrokerSocket, EpGo, EpFault, StartQuarantine, AfterQuarantine, epDir, epBound, epMove, Purposes
    <2>g0. OneInside'  BY <1>i, <1>t, <2>1, <2>2, <2>3, <2>4 DEF OneInside, Inside, QSteps
    <2>g1. Numbered'  BY <1>i, <1>t, <2>1, <2>2, <2>3, <2>4 DEF Numbered, NoSocket
    <2>g2. OwnAlone'  BY <1>i, <1>t, <2>1, <2>2, <2>3, <2>4 DEF OwnAlone, Numbered, NoSocket
    <2>g3. ListensOnOwn'  BY <1>i, <1>t, <1>w, <2>1, <2>2, <2>3, <2>4 DEF ListensOnOwn, Listening
    <2>g4. MovesOnlyStale'
        <3>1. \A t \in EpServers \ {s} : epPc[t] \notin Inside  BY <1>i, <2>1 DEF OneInside, Inside, QSteps
        <3> QED  BY <1>i, <2>1, <2>2, <2>3, <2>4, <3>1 DEF MovesOnlyStale, BeforeMove, Inside, QSteps
    <2>g5. RoomAhead'
        <3>1. \A t \in EpServers \ {s} : epPc[t] \notin Inside  BY <1>i, <2>1 DEF OneInside, Inside, QSteps
        <3>2. HasRoom(1, SlotsAfter(epWhy[s]))  BY <1>i, <2>1 DEF RoomAhead
        <3>3. Cardinality(epSlots') \in Nat /\ Cardinality(epSlots') <= Cardinality(epSlots) + 1  BY <1>k, <2>3
        <3>4. epPc'[s] \in {"verify", "off", "unwind"} /\ epWhy'[s] = epWhy[s]  BY <2>3
        <3>5. epWhy[s] = "reclaim" => HasRoom(1, 0)'  BY <1>k, <1>t, <3>2, <3>3 DEF HasRoom, SlotsAfter
        <3> QED  BY <2>2, <3>1, <3>4, <3>5 DEF RoomAhead, Inside, QSteps
    <2>g6. ServingIsReachable'
        <3>1. \A u \in EpServers : epPc[u] \in {"serving", "closing"} => epOwn[u] \in epLost
            BY <1>i, <1>w, <2>1 DEF ServingIsReachable, Listening
        <3> QED  BY <2>1, <2>2, <2>3, <2>4, <3>1 DEF ServingIsReachable
    <2>g7. RoomToRetire'
        <3>1. \A u \in EpServers : epPc[u] \in {"serving", "closing"} => epOwn[u] \in epLost
            BY <1>i, <1>w, <2>1 DEF ServingIsReachable, Listening
        <3>2. Cardinality(epSlots) + 1 <= QuarantineLimit
            <4>1. HasRoom(1, SlotsAfter(epWhy[s]))  BY <1>i, <2>1 DEF RoomAhead
            <4> QED  BY <1>k, <1>t, <4>1 DEF HasRoom, SlotsAfter
        <3>3. Cardinality(epSlots') \in Nat /\ Cardinality(epSlots') <= Cardinality(epSlots) + 1  BY <1>k, <2>3
        <3>4. Cardinality(epSlots') <= QuarantineLimit  BY <1>k, <1>t, <3>2, <3>3
        <3> QED  BY <2>1, <2>2, <2>3, <2>4, <3>1, <3>4 DEF RoomToRetire
    <2>g8. NothingUnlinked'  BY <1>i, <1>t, <2>1, <2>2, <2>3, <2>4 DEF NothingUnlinked, Numbered, NoSocket
    <2> QED  BY <2>g0, <2>g1, <2>g2, <2>g3, <2>g4, <2>g5, <2>g6, <2>g7, <2>g8 DEF EpSafe
<1>7. ASSUME NEW s \in EpServers, VerifyMoved(s) PROVE EpSafe'
    <2>1. epPc[s] = "verify" /\ UNCHANGED <<epSlots, epLive, epForeign, epLost, epNext>>
        BY <1>7 DEF VerifyMoved, EpGo, EpFault, StartQuarantine, AfterQuarantine, epDir, epBound, epMove
    <2>2. \A t \in EpServers \ {s} : /\ epPc'[t] = epPc[t] /\ epOwn'[t] = epOwn[t]
                                    /\ epTarget'[t] = epTarget[t] /\ epWhy'[t] = epWhy[t]
        BY <1>p, <1>m, <1>7 DEF VerifyMoved, EpGo, EpFault, StartQuarantine, AfterQuarantine, epDir, epBound, epMove, Purposes
    <2>3. \/ epPc'[s] = "listen" /\ epWhy[s] = "reclaim" /\ epFile' = epFile /\ epCrit' = epCrit
          \/ epPc'[s] \in {"off", "unwind"} /\ epCrit' = Nobody /\ (epFile' = epFile \/ (epFile = NoSocket /\ epFile' = epTarget[s]))
        BY <1>p, <1>m, <1>7 DEF VerifyMoved, EpGo, EpFault, StartQuarantine, AfterQuarantine, epDir, epBound, epMove, Purposes
    <2>4. epOwn'[s] = epOwn[s] /\ epWhy'[s] = epWhy[s] /\ epTarget'[s] \in {NoSocket, epTarget[s]}
        BY <1>p, <1>m, <1>7 DEF VerifyMoved, EpGo, EpFault, StartQuarantine, AfterQuarantine, epDir, epBound, epMove, Purposes
    <2>g0. OneInside'  BY <1>i, <1>t, <2>1, <2>2, <2>3, <2>4 DEF OneInside, Inside, QSteps
    <2>g1. Numbered'  BY <1>i, <1>t, <2>1, <2>2, <2>3, <2>4 DEF Numbered, NoSocket
    <2>g2. OwnAlone'  BY <1>i, <1>t, <2>1, <2>2, <2>3, <2>4 DEF OwnAlone, Numbered, NoSocket
    <2>g3. ListensOnOwn'  BY <1>i, <1>t, <2>1, <2>2, <2>3, <2>4 DEF ListensOnOwn, Listening, OwnAlone, Numbered
    <2>g4. MovesOnlyStale'
        <3>1. \A t \in EpServers \ {s} : epPc[t] \notin Inside  BY <1>i, <2>1 DEF OneInside, Inside, QSteps
        <3> QED  BY <1>i, <1>t, <2>1, <2>2, <2>3, <2>4, <3>1 DEF MovesOnlyStale, BeforeMove, Inside, QSteps, Numbered
    <2>g5. RoomAhead'  BY <1>i, <1>t, <1>k, <2>1, <2>2, <2>3, <2>4 DEF RoomAhead, HasRoom, SlotsAfter
    <2>g6. ServingIsReachable'  BY <1>i, <1>t, <2>1, <2>2, <2>3, <2>4 DEF ServingIsReachable, ListensOnOwn, Listening
    <2>g7. RoomToRetire'  BY <1>i, <1>t, <1>k, <2>1, <2>2, <2>3, <2>4 DEF RoomToRetire, HasRoom
    <2>g8. NothingUnlinked'  BY <1>i, <1>t, <2>1, <2>2, <2>3, <2>4 DEF NothingUnlinked, Numbered, NoSocket
    <2> QED  BY <2>g0, <2>g1, <2>g2, <2>g3, <2>g4, <2>g5, <2>g6, <2>g7, <2>g8 DEF EpSafe
<1>8. ASSUME NEW s \in EpServers, ListenBrokerSocket(s) PROVE EpSafe'
    <2>1. epPc[s] = "listen" /\ UNCHANGED <<epSlots, epForeign, epLost>>
        BY <1>8 DEF ListenBrokerSocket, EpGo, EpFault, StartQuarantine, AfterQuarantine, epDir, epBound, epMove
    <2>2. \A t \in EpServers \ {s} : /\ epPc'[t] = epPc[t] /\ epOwn'[t] = epOwn[t]
                                    /\ epTarget'[t] = epTarget[t] /\ epWhy'[t] = epWhy[t]
        BY <1>p, <1>m, <1>8 DEF ListenBrokerSocket, EpGo, EpFault, StartQuarantine, AfterQuarantine, epDir, epBound, epMove, Purposes
    <2>3. \/ /\ epFile = NoSocket /\ epNext' = epNext + 1 /\ epFile' = epNext + 1
             /\ \/ /\ epLive' = epLive \cup {epNext + 1} /\ epOwn'[s] = epNext + 1 /\ epPc'[s] = "adopt" /\ epCrit' = epCrit
                \/ epLive' = epLive /\ epOwn'[s] = epOwn[s] /\ epPc'[s] = "off" /\ epCrit' = Nobody
          \/ /\ epNext' = epNext /\ epFile' = epFile /\ epLive' = epLive /\ epOwn'[s] = epOwn[s]
             /\ epPc'[s] = "off" /\ epCrit' = Nobody
        BY <1>p, <1>m, <1>8 DEF ListenBrokerSocket, EpGo, EpFault, StartQuarantine, AfterQuarantine, epDir, epBound, epMove, Purposes
    <2>4. epTarget'[s] = epTarget[s] /\ epWhy'[s] = epWhy[s]
        BY <1>p, <1>m, <1>8 DEF ListenBrokerSocket, EpGo, EpFault, StartQuarantine, AfterQuarantine, epDir, epBound, epMove, Purposes
    <2>g0. OneInside'  BY <1>i, <1>t, <2>1, <2>2, <2>3, <2>4 DEF OneInside, Inside, QSteps
    <2>g1. Numbered'  BY <1>i, <1>t, <2>1, <2>2, <2>3, <2>4 DEF Numbered, NoSocket
    <2>g2. OwnAlone'  BY <1>i, <1>t, <2>1, <2>2, <2>3, <2>4 DEF OwnAlone, Numbered, NoSocket
    <2>g3. ListensOnOwn'  BY <1>i, <1>t, <2>1, <2>2, <2>3, <2>4 DEF ListensOnOwn, Listening, OwnAlone, Numbered
    <2>g4. MovesOnlyStale'
        <3>1. \A t \in EpServers \ {s} : epPc[t] \notin Inside  BY <1>i, <2>1 DEF OneInside, Inside, QSteps
        <3> QED  BY <1>i, <1>t, <2>1, <2>2, <2>3, <2>4, <3>1 DEF MovesOnlyStale, BeforeMove, Inside, QSteps, Numbered
    <2>g5. RoomAhead'  BY <1>i, <1>t, <1>k, <2>1, <2>2, <2>3, <2>4 DEF RoomAhead, HasRoom, SlotsAfter
    <2>g6. ServingIsReachable'  BY <1>i, <1>t, <2>1, <2>2, <2>3, <2>4 DEF ServingIsReachable, ListensOnOwn, Listening
    <2>g7. RoomToRetire'  BY <1>i, <1>t, <1>k, <2>1, <2>2, <2>3, <2>4 DEF RoomToRetire, HasRoom
    <2>g8. NothingUnlinked'  BY <1>i, <1>t, <2>1, <2>2, <2>3, <2>4 DEF NothingUnlinked, Numbered, NoSocket
    <2> QED  BY <2>g0, <2>g1, <2>g2, <2>g3, <2>g4, <2>g5, <2>g6, <2>g7, <2>g8 DEF EpSafe
<1>9. ASSUME NEW s \in EpServers, AdoptListener(s) PROVE EpSafe'
    <2>1. epPc[s] = "adopt" /\ UNCHANGED <<epFile, epSlots, epForeign, epLost, epNext, epCrit>>
        BY <1>9 DEF AdoptListener, EpGo, EpFault, StartQuarantine, AfterQuarantine, epDir, epBound, epMove
    <2>2. \A t \in EpServers \ {s} : /\ epPc'[t] = epPc[t] /\ epOwn'[t] = epOwn[t]
                                    /\ epTarget'[t] = epTarget[t] /\ epWhy'[t] = epWhy[t]
        BY <1>p, <1>m, <1>9 DEF AdoptListener, EpGo, EpFault, StartQuarantine, AfterQuarantine, epDir, epBound, epMove, Purposes
    <2>3. \/ epPc'[s] = "publish" /\ epLive' = epLive
          \/ /\ epPc'[s] = "read" /\ epLive' = epLive \ {epOwn[s]}
             /\ epWhy'[s] = "unpublish" /\ epTarget'[s] = epOwn[s]
        BY <1>p, <1>m, <1>9 DEF AdoptListener, EpGo, EpFault, StartQuarantine, AfterQuarantine, epDir, epBound, epMove, Purposes
    <2>4. epOwn'[s] = epOwn[s] /\ epTarget'[s] \in {epTarget[s], epOwn[s]}
        BY <1>p, <1>m, <1>9 DEF AdoptListener, EpGo, EpFault, StartQuarantine, AfterQuarantine, epDir, epBound, epMove, Purposes
    <2>g0. OneInside'  BY <1>i, <1>t, <2>1, <2>2, <2>3, <2>4 DEF OneInside, Inside, QSteps
    <2>g1. Numbered'  BY <1>i, <1>t, <2>1, <2>2, <2>3, <2>4 DEF Numbered, NoSocket
    <2>g2. OwnAlone'  BY <1>i, <1>t, <2>1, <2>2, <2>3, <2>4 DEF OwnAlone, Numbered, NoSocket
    <2>g3. ListensOnOwn'  BY <1>i, <1>t, <2>1, <2>2, <2>3, <2>4 DEF ListensOnOwn, Listening, OwnAlone, Numbered
    <2>g4. MovesOnlyStale'  BY <1>i, <1>t, <2>1, <2>2, <2>3, <2>4 DEF MovesOnlyStale, BeforeMove, Numbered
    <2>g5. RoomAhead'  BY <1>i, <1>t, <1>k, <2>1, <2>2, <2>3, <2>4 DEF RoomAhead, HasRoom, SlotsAfter
    <2>g6. ServingIsReachable'  BY <1>i, <1>t, <2>1, <2>2, <2>3, <2>4 DEF ServingIsReachable, ListensOnOwn, Listening
    <2>g7. RoomToRetire'  BY <1>i, <1>t, <1>k, <2>1, <2>2, <2>3, <2>4 DEF RoomToRetire, HasRoom
    <2>g8. NothingUnlinked'  BY <1>i, <1>t, <2>1, <2>2, <2>3, <2>4 DEF NothingUnlinked, Numbered, NoSocket
    <2> QED  BY <2>g0, <2>g1, <2>g2, <2>g3, <2>g4, <2>g5, <2>g6, <2>g7, <2>g8 DEF EpSafe
<1>10. ASSUME NEW s \in EpServers, PublishBrokerSocket(s) PROVE EpSafe'
    <2>1. epPc[s] = "publish" /\ UNCHANGED <<epFile, epSlots, epLive, epForeign, epLost, epNext>>
        BY <1>10 DEF PublishBrokerSocket, EpGo, EpFault, StartQuarantine, AfterQuarantine, epDir, epBound, epMove
    <2>2. \A t \in EpServers \ {s} : /\ epPc'[t] = epPc[t] /\ epOwn'[t] = epOwn[t]
                                    /\ epTarget'[t] = epTarget[t] /\ epWhy'[t] = epWhy[t]
        BY <1>p, <1>m, <1>10 DEF PublishBrokerSocket, EpGo, EpFault, StartQuarantine, AfterQuarantine, epDir, epBound, epMove, Purposes
    <2>3. \/ epPc'[s] = "serving" /\ epFile = epOwn[s] /\ epCrit' = Nobody
          \/ epPc'[s] = "read" /\ epCrit' = epCrit /\ epWhy'[s] = "unpublish" /\ epTarget'[s] = epOwn[s]
        BY <1>p, <1>m, <1>10 DEF PublishBrokerSocket, EpGo, EpFault, StartQuarantine, AfterQuarantine, epDir, epBound, epMove, Purposes
    <2>4. epOwn'[s] = epOwn[s] /\ epTarget'[s] \in {epTarget[s], epOwn[s]}
        BY <1>p, <1>m, <1>10 DEF PublishBrokerSocket, EpGo, EpFault, StartQuarantine, AfterQuarantine, epDir, epBound, epMove, Purposes
    <2>g0. OneInside'  BY <1>i, <1>t, <2>1, <2>2, <2>3, <2>4 DEF OneInside, Inside, QSteps
    <2>g1. Numbered'  BY <1>i, <1>t, <2>1, <2>2, <2>3, <2>4 DEF Numbered, NoSocket
    <2>g2. OwnAlone'  BY <1>i, <1>t, <2>1, <2>2, <2>3, <2>4 DEF OwnAlone, Numbered, NoSocket
    <2>g3. ListensOnOwn'  BY <1>i, <1>t, <2>1, <2>2, <2>3, <2>4 DEF ListensOnOwn, Listening, OwnAlone, Numbered
    <2>g4. MovesOnlyStale'  BY <1>i, <1>t, <2>1, <2>2, <2>3, <2>4 DEF MovesOnlyStale, BeforeMove, Numbered
    <2>g5. RoomAhead'  BY <1>i, <1>t, <1>k, <2>1, <2>2, <2>3, <2>4 DEF RoomAhead, HasRoom, SlotsAfter
    <2>g6. ServingIsReachable'  BY <1>i, <1>t, <2>1, <2>2, <2>3, <2>4 DEF ServingIsReachable, ListensOnOwn, Listening
    <2>g7. RoomToRetire'  BY <1>i, <2>1, <2>2, <2>3, <2>4 DEF RoomToRetire, RoomAhead, HasRoom
    <2>g8. NothingUnlinked'  BY <1>i, <1>t, <2>1, <2>2, <2>3, <2>4 DEF NothingUnlinked, Numbered, NoSocket
    <2> QED  BY <2>g0, <2>g1, <2>g2, <2>g3, <2>g4, <2>g5, <2>g6, <2>g7, <2>g8 DEF EpSafe
<1>11. ASSUME NEW s \in EpServers, UnwindStart(s) PROVE EpSafe'
    <2>1. epPc[s] = "unwind" /\ UNCHANGED <<epFile, epSlots, epForeign, epLost, epNext, epCrit>>
        BY <1>11 DEF UnwindStart, EpGo, EpFault, StartQuarantine, AfterQuarantine, epDir, epBound, epMove
    <2>2. \A t \in EpServers \ {s} : /\ epPc'[t] = epPc[t] /\ epOwn'[t] = epOwn[t]
                                    /\ epTarget'[t] = epTarget[t] /\ epWhy'[t] = epWhy[t]
        BY <1>p, <1>m, <1>11 DEF UnwindStart, EpGo, EpFault, StartQuarantine, AfterQuarantine, epDir, epBound, epMove, Purposes
    <2>3. epPc'[s] = "off" /\ epLive' = epLive \ {epOwn[s]} /\ epOwn'[s] = epOwn[s] /\ epTarget'[s] = epTarget[s] /\ epWhy'[s] = epWhy[s]
        BY <1>p, <1>m, <1>11 DEF UnwindStart, EpGo, EpFault, StartQuarantine, AfterQuarantine, epDir, epBound, epMove, Purposes
    <2>g0. OneInside'  BY <1>i, <1>t, <2>1, <2>2, <2>3 DEF OneInside, Inside, QSteps
    <2>g1. Numbered'  BY <1>i, <1>t, <2>1, <2>2, <2>3 DEF Numbered, NoSocket
    <2>g2. OwnAlone'  BY <1>i, <1>t, <2>1, <2>2, <2>3 DEF OwnAlone, Numbered, NoSocket
    <2>g3. ListensOnOwn'  BY <1>i, <1>t, <2>1, <2>2, <2>3 DEF ListensOnOwn, Listening, OwnAlone, Numbered
    <2>g4. MovesOnlyStale'  BY <1>i, <1>t, <2>1, <2>2, <2>3 DEF MovesOnlyStale, BeforeMove, Numbered
    <2>g5. RoomAhead'  BY <1>i, <1>t, <1>k, <2>1, <2>2, <2>3 DEF RoomAhead, HasRoom, SlotsAfter
    <2>g6. ServingIsReachable'  BY <1>i, <1>t, <2>1, <2>2, <2>3 DEF ServingIsReachable, ListensOnOwn, Listening
    <2>g7. RoomToRetire'  BY <1>i, <1>t, <1>k, <2>1, <2>2, <2>3 DEF RoomToRetire, HasRoom
    <2>g8. NothingUnlinked'  BY <1>i, <1>t, <2>1, <2>2, <2>3 DEF NothingUnlinked, Numbered, NoSocket
    <2> QED  BY <2>g0, <2>g1, <2>g2, <2>g3, <2>g4, <2>g5, <2>g6, <2>g7, <2>g8 DEF EpSafe
<1>12. ASSUME NEW s \in EpServers, EnterClose(s) PROVE EpSafe'
    <2>1. epPc[s] = "serving" /\ UNCHANGED <<epFile, epSlots, epForeign, epLost, epNext>>
        BY <1>12 DEF EnterClose, EpGo, EpFault, StartQuarantine, AfterQuarantine, epDir, epBound, epMove
    <2>2. \A t \in EpServers \ {s} : /\ epPc'[t] = epPc[t] /\ epOwn'[t] = epOwn[t]
                                    /\ epTarget'[t] = epTarget[t] /\ epWhy'[t] = epWhy[t]
        BY <1>p, <1>m, <1>12 DEF EnterClose, EpGo, EpFault, StartQuarantine, AfterQuarantine, epDir, epBound, epMove, Purposes
    <2>3. \/ epCrit = Nobody /\ epCrit' = s /\ epPc'[s] = "closing" /\ epLive' = epLive
          \/ epPc'[s] = "off" /\ epLive' = epLive \ {epOwn[s]} /\ epCrit' = epCrit
        BY <1>p, <1>m, <1>12 DEF EnterClose, EpGo, EpFault, StartQuarantine, AfterQuarantine, epDir, epBound, epMove, Purposes
    <2>4. epOwn'[s] = epOwn[s] /\ epTarget'[s] = epTarget[s] /\ epWhy'[s] = epWhy[s]
        BY <1>p, <1>m, <1>12 DEF EnterClose, EpGo, EpFault, StartQuarantine, AfterQuarantine, epDir, epBound, epMove, Purposes
    <2>g0. OneInside'  BY <1>i, <1>t, <2>1, <2>2, <2>3, <2>4 DEF OneInside, Inside, QSteps
    <2>g1. Numbered'  BY <1>i, <1>t, <2>1, <2>2, <2>3, <2>4 DEF Numbered, NoSocket
    <2>g2. OwnAlone'  BY <1>i, <1>t, <2>1, <2>2, <2>3, <2>4 DEF OwnAlone, Numbered, NoSocket
    <2>g3. ListensOnOwn'  BY <1>i, <1>t, <2>1, <2>2, <2>3, <2>4 DEF ListensOnOwn, Listening, OwnAlone, Numbered
    <2>g4. MovesOnlyStale'  BY <1>i, <1>t, <2>1, <2>2, <2>3, <2>4 DEF MovesOnlyStale, BeforeMove, Numbered
    <2>g5. RoomAhead'  BY <1>i, <1>t, <1>k, <2>1, <2>2, <2>3, <2>4 DEF RoomAhead, HasRoom, SlotsAfter
    <2>g6. ServingIsReachable'  BY <1>i, <1>t, <2>1, <2>2, <2>3, <2>4 DEF ServingIsReachable, ListensOnOwn, Listening
    <2>g7. RoomToRetire'  BY <1>i, <1>t, <1>k, <2>1, <2>2, <2>3, <2>4 DEF RoomToRetire, HasRoom
    <2>g8. NothingUnlinked'  BY <1>i, <1>t, <2>1, <2>2, <2>3, <2>4 DEF NothingUnlinked, Numbered, NoSocket
    <2> QED  BY <2>g0, <2>g1, <2>g2, <2>g3, <2>g4, <2>g5, <2>g6, <2>g7, <2>g8 DEF EpSafe
<1>13. ASSUME NEW s \in EpServers, CloseListener(s) PROVE EpSafe'
    <2>1. epPc[s] = "closing" /\ UNCHANGED <<epFile, epSlots, epForeign, epLost, epNext, epCrit>>
        BY <1>13 DEF CloseListener, EpGo, EpFault, StartQuarantine, AfterQuarantine, epDir, epBound, epMove
    <2>2. \A t \in EpServers \ {s} : /\ epPc'[t] = epPc[t] /\ epOwn'[t] = epOwn[t]
                                    /\ epTarget'[t] = epTarget[t] /\ epWhy'[t] = epWhy[t]
        BY <1>p, <1>m, <1>13 DEF CloseListener, EpGo, EpFault, StartQuarantine, AfterQuarantine, epDir, epBound, epMove, Purposes
    <2>3. epPc'[s] = "read" /\ epWhy'[s] = "close" /\ epTarget'[s] = epOwn[s] /\ epLive' = epLive \ {epOwn[s]} /\ epOwn'[s] = epOwn[s]
        BY <1>p, <1>m, <1>13 DEF CloseListener, EpGo, EpFault, StartQuarantine, AfterQuarantine, epDir, epBound, epMove, Purposes
    <2>g0. OneInside'  BY <1>i, <1>t, <2>1, <2>2, <2>3 DEF OneInside, Inside, QSteps
    <2>g1. Numbered'  BY <1>i, <1>t, <2>1, <2>2, <2>3 DEF Numbered, NoSocket
    <2>g2. OwnAlone'  BY <1>i, <1>t, <2>1, <2>2, <2>3 DEF OwnAlone, Numbered, NoSocket
    <2>g3. ListensOnOwn'  BY <1>i, <1>t, <2>1, <2>2, <2>3 DEF ListensOnOwn, Listening, OwnAlone, Numbered
    <2>g4. MovesOnlyStale'  BY <1>i, <1>t, <2>1, <2>2, <2>3 DEF MovesOnlyStale, BeforeMove, Numbered
    <2>g5. RoomAhead'  BY <1>i, <1>t, <1>k, <2>1, <2>2, <2>3 DEF RoomAhead, HasRoom, SlotsAfter
    <2>g6. ServingIsReachable'  BY <1>i, <1>t, <2>1, <2>2, <2>3 DEF ServingIsReachable, ListensOnOwn, Listening
    <2>g7. RoomToRetire'  BY <1>i, <1>t, <1>k, <2>1, <2>2, <2>3 DEF RoomToRetire, HasRoom
    <2>g8. NothingUnlinked'  BY <1>i, <1>t, <2>1, <2>2, <2>3 DEF NothingUnlinked, Numbered, NoSocket
    <2> QED  BY <2>g0, <2>g1, <2>g2, <2>g3, <2>g4, <2>g5, <2>g6, <2>g7, <2>g8 DEF EpSafe
<1>14. ASSUME NEW s \in EpServers, EpCrash(s) PROVE EpSafe'
    <2>1. epPc[s] # "off" /\ UNCHANGED <<epFile, epSlots, epForeign, epLost, epNext>>
        BY <1>14 DEF EpCrash, EpGo, EpFault, StartQuarantine, AfterQuarantine, epDir, epBound, epMove
    <2>2. \A t \in EpServers \ {s} : /\ epPc'[t] = epPc[t] /\ epOwn'[t] = epOwn[t]
                                    /\ epTarget'[t] = epTarget[t] /\ epWhy'[t] = epWhy[t]
        BY <1>p, <1>m, <1>14 DEF EpCrash, EpGo, EpFault, StartQuarantine, AfterQuarantine, epDir, epBound, epMove, Purposes
    <2>3. epPc'[s] = "off" /\ epLive' = epLive \ {epOwn[s]} /\ epCrit' \in {epCrit, Nobody} /\ (epCrit # s => epCrit' = epCrit) /\ epOwn'[s] = epOwn[s] /\ epTarget'[s] = epTarget[s] /\ epWhy'[s] = epWhy[s]
        BY <1>p, <1>m, <1>14 DEF EpCrash, EpGo, EpFault, StartQuarantine, AfterQuarantine, epDir, epBound, epMove, Purposes
    <2>g0. OneInside'  BY <1>i, <1>t, <2>1, <2>2, <2>3 DEF OneInside, Inside, QSteps
    <2>g1. Numbered'  BY <1>i, <1>t, <2>1, <2>2, <2>3 DEF Numbered, NoSocket
    <2>g2. OwnAlone'  BY <1>i, <1>t, <2>1, <2>2, <2>3 DEF OwnAlone, Numbered, NoSocket
    <2>g3. ListensOnOwn'  BY <1>i, <1>t, <2>1, <2>2, <2>3 DEF ListensOnOwn, Listening, OwnAlone, Numbered
    <2>g4. MovesOnlyStale'  BY <1>i, <1>t, <2>1, <2>2, <2>3 DEF MovesOnlyStale, BeforeMove, Numbered
    <2>g5. RoomAhead'  BY <1>i, <1>t, <1>k, <2>1, <2>2, <2>3 DEF RoomAhead, HasRoom, SlotsAfter
    <2>g6. ServingIsReachable'  BY <1>i, <1>t, <2>1, <2>2, <2>3 DEF ServingIsReachable, ListensOnOwn, Listening
    <2>g7. RoomToRetire'  BY <1>i, <1>t, <1>k, <2>1, <2>2, <2>3 DEF RoomToRetire, HasRoom
    <2>g8. NothingUnlinked'  BY <1>i, <1>t, <2>1, <2>2, <2>3 DEF NothingUnlinked, Numbered, NoSocket
    <2> QED  BY <2>g0, <2>g1, <2>g2, <2>g3, <2>g4, <2>g5, <2>g6, <2>g7, <2>g8 DEF EpSafe
<1>15. CASE Intrude
    <2>1. /\ UNCHANGED <<epSlots, epPc, epOwn, epTarget, epWhy, epCrit>> /\ epNext' = epNext + 1 /\ epFile' = epNext + 1
          /\ epForeign' = epForeign \cup {epNext + 1} /\ epLive' = epLive \cup {epNext + 1}
          /\ epLost' = epLost \cup ({epFile} \ ({NoSocket} \cup epSlots))
        BY <1>15 DEF Intrude, epMove
    <2>g0. OneInside'  BY <1>i, <1>t, <2>1 DEF OneInside, Inside, QSteps
    <2>g1. Numbered'  BY <1>i, <1>t, <2>1 DEF Numbered, NoSocket
    <2>g2. OwnAlone'  BY <1>i, <1>t, <2>1 DEF OwnAlone, Numbered, NoSocket
    <2>g3. ListensOnOwn'  BY <1>i, <1>t, <2>1 DEF ListensOnOwn, Listening, OwnAlone, Numbered
    <2>g4. MovesOnlyStale'  BY <1>i, <1>t, <2>1 DEF MovesOnlyStale, BeforeMove, Numbered
    <2>g5. RoomAhead'  BY <1>i, <1>t, <2>1 DEF RoomAhead, HasRoom, SlotsAfter, NoSocket
    <2>g6. ServingIsReachable'  BY <1>i, <1>t, <2>1 DEF ServingIsReachable, ListensOnOwn, Listening
    <2>g7. RoomToRetire'  BY <1>i, <1>t, <1>k, <2>1 DEF RoomToRetire, HasRoom
    <2>g8. NothingUnlinked'  BY <1>i, <1>t, <2>1 DEF NothingUnlinked, Numbered, NoSocket
    <2> QED  BY <2>g0, <2>g1, <2>g2, <2>g3, <2>g4, <2>g5, <2>g6, <2>g7, <2>g8 DEF EpSafe
<1>16. ASSUME NEW i \in epForeign, ForeignStops(i) PROVE EpSafe'
    <2>1. /\ UNCHANGED <<epFile, epNext, epForeign, epLost, epSlots, epPc, epOwn, epTarget, epWhy, epCrit>>
          /\ epLive' = epLive \ {i}
        BY <1>16 DEF ForeignStops, epDir, epBound, epMove
    <2>g0. OneInside'  BY <1>i, <1>t, <2>1 DEF OneInside, Inside, QSteps
    <2>g1. Numbered'  BY <1>i, <1>t, <2>1 DEF Numbered, NoSocket
    <2>g2. OwnAlone'  BY <1>i, <1>t, <2>1 DEF OwnAlone, Numbered, NoSocket
    <2>g3. ListensOnOwn'  BY <1>i, <1>t, <2>1 DEF ListensOnOwn, Listening, OwnAlone, Numbered
    <2>g4. MovesOnlyStale'  BY <1>i, <1>t, <2>1 DEF MovesOnlyStale, BeforeMove, Numbered
    <2>g5. RoomAhead'  BY <1>i, <1>t, <1>k, <2>1 DEF RoomAhead, HasRoom, SlotsAfter
    <2>g6. ServingIsReachable'  BY <1>i, <1>t, <2>1 DEF ServingIsReachable, ListensOnOwn, Listening
    <2>g7. RoomToRetire'  BY <1>i, <1>t, <1>k, <2>1 DEF RoomToRetire, HasRoom
    <2>g8. NothingUnlinked'  BY <1>i, <1>t, <2>1 DEF NothingUnlinked, Numbered, NoSocket
    <2> QED  BY <2>g0, <2>g1, <2>g2, <2>g3, <2>g4, <2>g5, <2>g6, <2>g7, <2>g8 DEF EpSafe
<1>17. CASE UNCHANGED epVars
    <2>1. UNCHANGED <<epFile, epNext, epForeign, epLost, epLive, epSlots, epPc, epOwn, epTarget, epWhy, epCrit>>
        BY <1>17 DEF epVars
    <2>g0. OneInside'  BY <1>i, <1>t, <2>1 DEF OneInside, Inside, QSteps
    <2>g1. Numbered'  BY <1>i, <1>t, <2>1 DEF Numbered, NoSocket
    <2>g2. OwnAlone'  BY <1>i, <1>t, <2>1 DEF OwnAlone, Numbered, NoSocket
    <2>g3. ListensOnOwn'  BY <1>i, <1>t, <2>1 DEF ListensOnOwn, Listening, OwnAlone, Numbered
    <2>g4. MovesOnlyStale'  BY <1>i, <1>t, <2>1 DEF MovesOnlyStale, BeforeMove, Numbered
    <2>g5. RoomAhead'  BY <1>i, <1>t, <1>k, <2>1 DEF RoomAhead, HasRoom, SlotsAfter
    <2>g6. ServingIsReachable'  BY <1>i, <1>t, <2>1 DEF ServingIsReachable, ListensOnOwn, Listening
    <2>g7. RoomToRetire'  BY <1>i, <1>t, <1>k, <2>1 DEF RoomToRetire, HasRoom
    <2>g8. NothingUnlinked'  BY <1>i, <1>t, <2>1 DEF NothingUnlinked, Numbered, NoSocket
    <2> QED  BY <2>g0, <2>g1, <2>g2, <2>g3, <2>g4, <2>g5, <2>g6, <2>g7, <2>g8 DEF EpSafe
<1> QED
    BY <1>1, <1>2, <1>3, <1>4, <1>5, <1>6, <1>7, <1>8, <1>9, <1>10, <1>11, <1>12, <1>13, <1>14, <1>15, <1>16, <1>17 DEF EpNext, ServerStep

\* The endpoint's state keeps its type.
THEOREM EndpointTyped == EpSpec => []EpTypeOK
<1>1. EpSafe => Numbered /\ MovesOnlyStale  BY DEF EpSafe
<1> QED  BY <1>1, EpSafeInit, EpTypedStep, EpSafeStep, PTL DEF EpSpec

\* However servers start, close and die on one state directory, and whatever an outsider puts
\* at the pathname, a serving broker keeps broker.sock and a free quarantine slot, and no
\* socket is unlinked.
THEOREM EndpointIsSound == EpSpec => []EndpointSound
<1>1. EpSafe => Numbered /\ MovesOnlyStale /\ EndpointSound  BY DEF EpSafe, EndpointSound
<1> QED  BY <1>1, EpSafeInit, EpTypedStep, EpSafeStep, PTL DEF EpSpec

-----------------------------------------------------------------------------
(* Installations and activations. *)

\* Registries, and what installers and activators keep while they run.
Registries  == UNION {[D -> Repositories] : D \in SUBSET RepositoryIds}
Installing  == {s \in [at : {"idle", "copying"}, hashed : Partial, copied : Partial] :
                    s.at = "copying" => s.hashed \in Bundles}
ActSteps    == {"idle", "activation", "lock", "read", "write", "unlock", "codex"}
Activating  == [at : ActSteps, repository : Repositories, installation : Partial, codex : Partial,
                registry : Registries]

HostTyped ==
    /\ iSource \in Bundles /\ iEdits \in 0 .. MaxEdits /\ iFaults \in 0 .. MaxHostFaults
    /\ DOMAIN iInstalled \subseteq Bundles /\ iInstaller \in [Installers -> Installing]
    /\ iPolicy \in [Repositories -> RepositoryIds]
    /\ iActivation \in [Repositories -> Partial] /\ iCodex \in [Repositories -> Partial]
    /\ iRegistry \in Registries /\ iLock \in BOOLEAN
    /\ iActivator \in [Activators -> Activating] /\ iActivated \subseteq Repositories

\* What an installer copied is what it hashed, and installations are what they are named for.
CopiedIsHashed ==
    /\ \A i \in Installers, f \in BundleFiles : iInstaller[i].copied[f] \in {Unread, iInstaller[i].hashed[f]}
    /\ \A i \in Installers : iInstaller[i].at = "idle" => iInstaller[i].copied = NothingRead
    /\ \A b \in DOMAIN iInstalled : iInstalled[b] = b

\* The registry lock excludes, and stays behind a crash.
Locked == {"read", "write", "unlock"}
RegistryLocked ==
    /\ \A a \in Activators : iActivator[a].at \in Locked => iLock
    /\ \A a, d \in Activators : iActivator[a].at \in Locked /\ iActivator[d].at \in Locked => a = d

\* The id of a repository is registered for it.
Registered(r) == iPolicy[r] \in DOMAIN iRegistry /\ iRegistry[iPolicy[r]] = r

\* What an activator read is still the registry when it writes, and what it wrote stays.
RegistryFresh ==
    \A a \in Activators :
        /\ iActivator[a].at = "write" =>
             /\ iActivator[a].registry = iRegistry
             /\ LET r == iActivator[a].repository IN iPolicy[r] \in DOMAIN iRegistry => iRegistry[iPolicy[r]] = r
        /\ iActivator[a].at \in {"unlock", "codex"} => Registered(iActivator[a].repository)

ActivatedRegistered == \A r \in iActivated : Registered(r)

\* An activation is for an installation that exists, from its manifest on.
ActivationReal ==
    /\ \A a \in Activators :
        /\ iActivator[a].at # "idle" => iActivator[a].installation \in DOMAIN iInstalled
        /\ iActivator[a].at \notin {"idle", "activation"} => iActivation[iActivator[a].repository] \in DOMAIN iInstalled
    /\ \A id \in DOMAIN iRegistry : iActivation[iRegistry[id]] \in DOMAIN iInstalled

HostSafe == CopiedIsHashed /\ RegistryLocked /\ RegistryFresh /\ ActivatedRegistered /\ ActivationReal

\* Registering a repository keeps the other registrations.
LEMMA RegistryAdd ==
    ASSUME NEW f \in Registries, NEW id \in RepositoryIds, NEW r \in Repositories, NEW g, g = With(f, id, r)
    PROVE  /\ g \in Registries /\ DOMAIN g = DOMAIN f \cup {id} /\ g[id] = r
           /\ \A x \in DOMAIN f : x # id => g[x] = f[x]
<1>1. PICK D \in SUBSET RepositoryIds : f \in [D -> Repositories]  BY DEF Registries
<1>2. g = [x \in {id} \cup D |-> IF x = id THEN r ELSE f[x]]  BY <1>1 DEF With
<1>3. g \in [{id} \cup D -> Repositories] /\ {id} \cup D \in SUBSET RepositoryIds  BY <1>1, <1>2
<1>4. g \in Registries  BY <1>3 DEF Registries
<1> QED  BY <1>1, <1>2, <1>4

\* An installation that is published keeps the others.
LEMMA InstalledAdd ==
    ASSUME NEW f, NEW b, NEW v, NEW g, g = With(f, b, v)
    PROVE  DOMAIN g = DOMAIN f \cup {b} /\ g[b] = v /\ \A x \in DOMAIN f : x # b => g[x] = f[x]
<1>1. g = [x \in {b} \cup DOMAIN f |-> IF x = b THEN v ELSE f[x]]  BY DEF With
<1> QED  BY <1>1

\* The registry of a host on which nothing is activated.
LEMMA EmptyRegistry == <<>> \in Registries /\ DOMAIN <<>> = {}
<1>1. <<>> \in [{} -> Repositories]  OBVIOUS
<1> QED  BY <1>1 DEF Registries

\* Nothing is read or running at first, and after a crash.
LEMMA IdleIsTyped ==
    /\ NothingRead \in Partial /\ IdleInstaller \in Installing /\ IdleActivator \in Activating
    /\ IdleInstaller.at = "idle" /\ IdleInstaller.copied = NothingRead /\ IdleActivator.at = "idle"
<1>1. NothingRead \in Partial  BY DEF NothingRead, Partial
<1>2. (CHOOSE r \in Repositories : TRUE) \in Repositories  BY HostAssumption
<1>3. IdleInstaller \in Installing /\ IdleInstaller.at = "idle" /\ IdleInstaller.copied = NothingRead
    BY <1>1 DEF IdleInstaller, Installing
<1>4. IdleActivator \in Activating /\ IdleActivator.at = "idle"
    BY <1>1, <1>2, EmptyRegistry DEF IdleActivator, Activating, ActSteps, Absent
<1> QED  BY <1>1, <1>3, <1>4

\* Nothing is installed, and nothing can be lost.
LEMMA HostInitSafe == HostInit => HostTyped /\ HostSafe
<1> SUFFICES ASSUME HostInit PROVE HostTyped /\ HostSafe  OBVIOUS
<1>1. /\ \A i \in Installers : iInstaller[i] = IdleInstaller /\ iInstaller[i].at = "idle" /\ iInstaller[i].copied = NothingRead
      /\ \A a \in Activators : iActivator[a].at = "idle"
    BY IdleIsTyped DEF HostInit
<1>2. DOMAIN iInstalled = {} /\ DOMAIN iRegistry = {}  BY EmptyRegistry DEF HostInit
<1>3. HostTyped
    <2>1. iInstaller \in [Installers -> Installing] /\ iActivator \in [Activators -> Activating]  BY IdleIsTyped DEF HostInit
    <2>2. iActivation \in [Repositories -> Partial] /\ iCodex \in [Repositories -> Partial]
        BY IdleIsTyped DEF HostInit, Absent
    <2>3. iSource \in Bundles  BY HostAssumption DEF HostInit, Bundles, Versions
    <2>4. iEdits \in 0 .. MaxEdits /\ iFaults \in 0 .. MaxHostFaults  BY HostAssumption DEF HostInit
    <2> QED  BY <1>2, <2>1, <2>2, <2>3, <2>4, EmptyRegistry DEF HostTyped, HostInit
<1>4. CopiedIsHashed  BY <1>1, <1>2 DEF CopiedIsHashed, NothingRead
<1>5. RegistryLocked /\ RegistryFresh  BY <1>1 DEF RegistryLocked, RegistryFresh, Locked
<1>6. ActivatedRegistered  BY DEF ActivatedRegistered, HostInit
<1>7. ActivationReal  BY <1>1, <1>2 DEF ActivationReal
<1> QED  BY <1>3, <1>4, <1>5, <1>6, <1>7 DEF HostSafe

-----------------------------------------------------------------------------
\* Every step keeps the types.
LEMMA HostTypedStep == HostTyped /\ [HostNext]_hostVars => HostTyped'
<1> SUFFICES ASSUME HostTyped, [HostNext]_hostVars PROVE HostTyped'  OBVIOUS
<1>t. /\ iSource \in Bundles /\ iEdits \in 0 .. MaxEdits /\ iFaults \in 0 .. MaxHostFaults
      /\ DOMAIN iInstalled \subseteq Bundles /\ iLock \in BOOLEAN /\ iActivated \subseteq Repositories
      /\ MaxEdits \in Nat /\ MaxHostFaults \in Nat
    BY HostAssumption DEF HostTyped
<1>p. iPolicy \in [Repositories -> RepositoryIds] /\ iRegistry \in Registries  BY DEF HostTyped
<1>f. iActivation \in [Repositories -> Partial] /\ iCodex \in [Repositories -> Partial]  BY DEF HostTyped
<1>n. iInstaller \in [Installers -> Installing]  BY DEF HostTyped
<1>a. iActivator \in [Activators -> Activating]  BY DEF HostTyped
<1>b. Bundles \subseteq Partial  BY DEF Bundles, Partial
<1>q. ASSUME iSource' \in Bundles, iEdits' \in 0 .. MaxEdits, iFaults' \in 0 .. MaxHostFaults,
             DOMAIN iInstalled' \subseteq Bundles, iLock' \in BOOLEAN, iActivated' \subseteq Repositories,
             iPolicy' \in [Repositories -> RepositoryIds], iRegistry' \in Registries,
             iActivation' \in [Repositories -> Partial], iCodex' \in [Repositories -> Partial],
             iInstaller' \in [Installers -> Installing], iActivator' \in [Activators -> Activating]
      PROVE  HostTyped'
    BY <1>q DEF HostTyped
<1>1. ASSUME NEW f \in BundleFiles, EditSource(f) PROVE HostTyped'
    <2>1. iEdits' = iEdits + 1 /\ iEdits < MaxEdits /\ iSource' = [iSource EXCEPT ![f] = iEdits + 1]  BY <1>1 DEF EditSource
    <2>2. iSource' \in Bundles  BY <1>t, <2>1 DEF Bundles, Versions
    <2>3. iEdits' \in 0 .. MaxEdits  BY <1>t, <2>1
    <2> QED  BY <1>q, <1>t, <1>p, <1>f, <1>n, <1>a, <1>1, <2>2, <2>3 DEF EditSource, activateVars
\* An installer's step leaves it in a state of its own.
<1>s. ASSUME NEW i \in Installers, NEW v \in Installing, SetInstaller(i, v), DOMAIN iInstalled' \subseteq Bundles PROVE HostTyped'
    <2>1. iInstaller' \in [Installers -> Installing]  BY <1>n, <1>s DEF SetInstaller
    <2> QED  BY <1>q, <1>t, <1>p, <1>f, <1>a, <1>s, <2>1 DEF SetInstaller, activateVars
<1>2. ASSUME NEW i \in Installers, NEW f \in BundleFiles, HashSource(i, f) PROVE HostTyped'
    <2>1. [iInstaller[i] EXCEPT !.hashed[f] = iSource[f]] \in Installing
        BY <1>t, <1>n, <1>2 DEF Installing, Partial, Bundles, HashSource
    <2> QED  BY <1>s, <1>t, <1>2, <2>1 DEF HashSource
<1>3. ASSUME NEW i \in Installers, CheckExisting(i) PROVE HostTyped'
    <2>1. [iInstaller[i] EXCEPT !.at = "copying"] \in Installing  BY <1>n, <1>3 DEF Installing, CheckExisting
    <2> QED  BY <1>s, <1>t, <1>3, <2>1, IdleIsTyped DEF CheckExisting
<1>4. ASSUME NEW i \in Installers, NEW f \in BundleFiles, CopyFile(i, f) PROVE HostTyped'
    <2>1. [iInstaller[i] EXCEPT !.copied[f] = iSource[f]] \in Installing
        BY <1>t, <1>n DEF Installing, Partial, Bundles
    <2> QED  BY <1>s, <1>t, <1>4, <2>1, IdleIsTyped DEF CopyFile
<1>5. ASSUME NEW i \in Installers, PublishInstallation(i) PROVE HostTyped'
    <2>1. iInstaller[i].copied \in Bundles  BY <1>5 DEF PublishInstallation
    <2>2. iInstaller[i].hashed \in Bundles  BY <1>n, <1>5 DEF PublishInstallation, Installing
    <2>3. DOMAIN iInstalled' \subseteq Bundles
        <3>1. CASE iInstalled' = iInstalled  BY <1>t, <3>1
        <3>2. CASE iInstalled' = With(iInstalled, iInstaller[i].hashed, iInstaller[i].copied)
            <4>1. DOMAIN iInstalled' = DOMAIN iInstalled \cup {iInstaller[i].hashed}  BY <3>2 DEF With
            <4> QED  BY <1>t, <2>2, <4>1
        <3> QED  BY <1>5, <3>1, <3>2 DEF PublishInstallation
    <2> QED  BY <1>s, <1>5, <2>3, IdleIsTyped DEF PublishInstallation
<1>6. ASSUME NEW i \in Installers, CrashInstaller(i) PROVE HostTyped'
    <2>1. iInstaller' \in [Installers -> Installing]  BY <1>n, <1>6, IdleIsTyped DEF CrashInstaller
    <2>2. iFaults' \in 0 .. MaxHostFaults  BY <1>t, <1>6 DEF CrashInstaller
    <2> QED  BY <1>q, <1>t, <1>p, <1>f, <1>a, <1>6, <2>1, <2>2 DEF CrashInstaller, activateVars
\* An activator's step leaves it in a state of its own.
<1>v. ASSUME NEW a \in Activators, NEW v \in Activating, SetActivator(a, v), iLock' \in BOOLEAN,
             iActivated' \subseteq Repositories, iRegistry' \in Registries, iActivation' \in [Repositories -> Partial],
             iCodex' \in [Repositories -> Partial]
      PROVE  HostTyped'
    <2>1. iActivator' \in [Activators -> Activating]  BY <1>a, <1>v DEF SetActivator
    <2> QED  BY <1>q, <1>t, <1>p, <1>n, <1>v, <2>1 DEF SetActivator, installVars
<1>l. \A a \in Activators, l \in ActSteps : [iActivator[a] EXCEPT !.at = l] \in Activating  BY <1>a DEF Activating
<1>r. \A a \in Activators : /\ iActivator[a].repository \in Repositories /\ iActivator[a].installation \in Partial
                            /\ iActivator[a].registry \in Registries
    BY <1>a DEF Activating
<1>7. ASSUME NEW a \in Activators, NEW r \in Repositories, NEW b \in DOMAIN iInstalled, BeginActivation(a, r, b)
      PROVE  HostTyped'
    <2>1. b \in Partial /\ iCodex[r] \in Partial  BY <1>t, <1>b, <1>f
    <2>2. \A l \in ActSteps : [IdleActivator EXCEPT !.at = l, !.repository = r, !.installation = b, !.codex = iCodex[r]] \in Activating
        BY <2>1, IdleIsTyped DEF Activating
    <2>3. "activation" \in ActSteps /\ "lock" \in ActSteps  BY DEF ActSteps
    <2> QED  BY <1>v, <1>t, <1>p, <1>f, <1>7, <2>2, <2>3 DEF BeginActivation
<1>8. ASSUME NEW a \in Activators, WriteActivation(a) PROVE HostTyped'
    <2>1. iActivation' \in [Repositories -> Partial]  BY <1>f, <1>r, <1>8 DEF WriteActivation
    <2>2. "lock" \in ActSteps  BY DEF ActSteps
    <2> QED  BY <1>v, <1>l, <1>t, <1>p, <1>f, <1>8, <2>1, <2>2 DEF WriteActivation
<1>9. ASSUME NEW a \in Activators, TakeRegistryLock(a) PROVE HostTyped'
    <2>1. "read" \in ActSteps  BY DEF ActSteps
    <2> QED  BY <1>v, <1>l, <1>t, <1>p, <1>f, <1>9, <2>1, IdleIsTyped DEF TakeRegistryLock
<1>10. ASSUME NEW a \in Activators, ReadRegistry(a) PROVE HostTyped'
    <2>1. [iActivator[a] EXCEPT !.at = "write", !.registry = iRegistry] \in Activating  BY <1>a, <1>p DEF Activating, ActSteps
    <2> QED  BY <1>v, <1>t, <1>p, <1>f, <1>10, <2>1, IdleIsTyped DEF ReadRegistry
<1>11. ASSUME NEW a \in Activators, WriteRegistry(a) PROVE HostTyped'
    <2>1. [iActivator[a] EXCEPT !.at = "unlock", !.registry = <<>>] \in Activating
        BY <1>a, EmptyRegistry DEF Activating, ActSteps
    <2>2. iRegistry' = With(iActivator[a].registry, iPolicy[iActivator[a].repository], iActivator[a].repository)
        BY <1>11 DEF WriteRegistry
    <2>3. iRegistry' \in Registries  BY <1>p, <1>r, <2>2, RegistryAdd
    <2> QED  BY <1>v, <1>t, <1>p, <1>f, <1>11, <2>1, <2>3 DEF WriteRegistry
<1>12. ASSUME NEW a \in Activators, ReleaseRegistryLock(a) PROVE HostTyped'
    <2>1. "codex" \in ActSteps  BY DEF ActSteps
    <2> QED  BY <1>v, <1>l, <1>t, <1>p, <1>f, <1>12, <2>1 DEF ReleaseRegistryLock
<1>13. ASSUME NEW a \in Activators, WriteCodex(a) PROVE HostTyped'
    <2>1. iCodex' \in [Repositories -> Partial] /\ iActivated' \subseteq Repositories  BY <1>f, <1>t, <1>r, <1>13 DEF WriteCodex
    <2> QED  BY <1>v, <1>t, <1>p, <1>f, <1>13, <2>1, IdleIsTyped DEF WriteCodex
<1>14. ASSUME NEW a \in Activators, CrashActivator(a) PROVE HostTyped'
    <2>1. iActivator' \in [Activators -> Activating]  BY <1>a, <1>14, IdleIsTyped DEF CrashActivator
    <2>2. iFaults' \in 0 .. MaxHostFaults  BY <1>t, <1>14 DEF CrashActivator
    <2> QED  BY <1>q, <1>t, <1>p, <1>f, <1>n, <1>14, <2>1, <2>2 DEF CrashActivator, installVars
<1>15. CASE UNCHANGED hostVars  BY <1>q, <1>t, <1>p, <1>f, <1>n, <1>a, <1>15 DEF hostVars
<1> QED
    BY <1>1, <1>2, <1>3, <1>4, <1>5, <1>6, <1>7, <1>8, <1>9, <1>10, <1>11, <1>12, <1>13, <1>14, <1>15 DEF HostNext

-----------------------------------------------------------------------------
\* Every step of an installer, an activator, an edit or a crash keeps all of it.
LEMMA HostSafeStep == HostTyped /\ HostSafe /\ [HostNext]_hostVars => HostSafe'
<1> SUFFICES ASSUME HostTyped, HostSafe, [HostNext]_hostVars PROVE HostSafe'  OBVIOUS
<1>i. CopiedIsHashed /\ RegistryLocked /\ RegistryFresh /\ ActivatedRegistered /\ ActivationReal  BY DEF HostSafe
<1>n. iInstaller \in [Installers -> Installing]  BY DEF HostTyped
<1>a. iActivator \in [Activators -> Activating]  BY DEF HostTyped
<1>r. \A a \in Activators : iActivator[a].repository \in Repositories /\ iActivator[a].registry \in Registries
    BY <1>a DEF Activating
<1>p. /\ iPolicy \in [Repositories -> RepositoryIds] /\ iActivation \in [Repositories -> Partial]
      /\ iRegistry \in Registries /\ iSource \in Bundles
    BY DEF HostTyped
\* The registry does not change, and installations only come.
<1>u. ASSUME UNCHANGED activateVars, DOMAIN iInstalled \subseteq DOMAIN iInstalled'
      PROVE  RegistryLocked' /\ RegistryFresh' /\ ActivatedRegistered' /\ ActivationReal'
    <2>1. RegistryLocked'  BY <1>i, <1>u DEF RegistryLocked, activateVars
    <2>2. \A r : Registered(r)' = Registered(r)  BY <1>u DEF Registered, activateVars
    <2>3. RegistryFresh'  BY <1>i, <1>u, <2>2 DEF RegistryFresh, activateVars
    <2>4. ActivatedRegistered'  BY <1>i, <1>u, <2>2 DEF ActivatedRegistered, activateVars
    <2>5. ActivationReal'  BY <1>i, <1>u DEF ActivationReal, activateVars
    <2> QED  BY <2>1, <2>3, <2>4, <2>5
<1>c. ASSUME UNCHANGED <<iInstaller, iInstalled>> PROVE CopiedIsHashed'  BY <1>c, <1>i DEF CopiedIsHashed
\* One installer moves.
<1>s. ASSUME NEW i \in Installers, NEW v \in Installing, iInstaller' = [iInstaller EXCEPT ![i] = v],
             \A f \in BundleFiles : v.copied[f] \in {Unread, v.hashed[f]}, v.at = "idle" => v.copied = NothingRead,
             \A b \in DOMAIN iInstalled' : iInstalled'[b] = b
      PROVE  CopiedIsHashed'
    <2>1. iInstaller'[i] = v /\ \A j \in Installers : j # i => iInstaller'[j] = iInstaller[j]  BY <1>n, <1>s
    <2>2. \A j \in Installers, f \in BundleFiles : iInstaller'[j].copied[f] \in {Unread, iInstaller'[j].hashed[f]}
        BY <1>i, <1>s, <2>1 DEF CopiedIsHashed
    <2>3. \A j \in Installers : iInstaller'[j].at = "idle" => iInstaller'[j].copied = NothingRead
        BY <1>i, <1>s, <2>1 DEF CopiedIsHashed
    <2> QED  BY <1>s, <2>2, <2>3 DEF CopiedIsHashed
<1>o. \A b \in DOMAIN iInstalled : iInstalled[b] = b  BY <1>i DEF CopiedIsHashed
<1>k. /\ IdleInstaller \in Installing /\ \A f \in BundleFiles : IdleInstaller.copied[f] \in {Unread, IdleInstaller.hashed[f]}
      /\ IdleInstaller.at = "idle" => IdleInstaller.copied = NothingRead
    BY IdleIsTyped DEF NothingRead
<1>z. ASSUME NEW i \in Installers, iInstaller' = [iInstaller EXCEPT ![i] = IdleInstaller],
             \A b \in DOMAIN iInstalled' : iInstalled'[b] = b
      PROVE  CopiedIsHashed'
    BY <1>k, <1>s, <1>z
<1>1. ASSUME NEW f \in BundleFiles, EditSource(f) PROVE HostSafe'
    <2>1. UNCHANGED activateVars /\ UNCHANGED <<iInstaller, iInstalled>>  BY <1>1 DEF EditSource
    <2> QED  BY <1>u, <1>c, <2>1 DEF HostSafe
<1>2. ASSUME NEW i \in Installers, NEW g \in BundleFiles, HashSource(i, g) PROVE HostSafe'
    <2> DEFINE v == [iInstaller[i] EXCEPT !.hashed[g] = iSource[g]]
    <2>1. UNCHANGED activateVars /\ iInstalled' = iInstalled /\ iInstaller' = [iInstaller EXCEPT ![i] = v]
        BY <1>2 DEF HashSource, SetInstaller
    <2>2. v \in Installing  BY <1>n, <1>p, <1>2 DEF Installing, Partial, Bundles, HashSource
    <2>3. v.copied = NothingRead  BY <1>i, <1>n, <1>2 DEF HashSource, CopiedIsHashed, Installing
    <2>4. \A f \in BundleFiles : v.copied[f] \in {Unread, v.hashed[f]}  BY <2>3 DEF NothingRead
    <2> HIDE DEF v
    <2>5. CopiedIsHashed'  BY <1>s, <1>o, <2>1, <2>2, <2>3, <2>4
    <2> QED  BY <1>u, <2>1, <2>5 DEF HostSafe
<1>3. ASSUME NEW i \in Installers, CheckExisting(i) PROVE HostSafe'
    <2> DEFINE v == [iInstaller[i] EXCEPT !.at = "copying"]
    <2>1. /\ UNCHANGED activateVars /\ iInstalled' = iInstalled
          /\ iInstaller' = [iInstaller EXCEPT ![i] = v] \/ iInstaller' = [iInstaller EXCEPT ![i] = IdleInstaller]
        BY <1>3 DEF CheckExisting, SetInstaller
    <2>2. v \in Installing /\ v.at # "idle"  BY <1>n, <1>3 DEF Installing, CheckExisting
    <2>3. v.copied = iInstaller[i].copied /\ v.hashed = iInstaller[i].hashed  BY <1>n DEF Installing
    <2>4. \A f \in BundleFiles : v.copied[f] \in {Unread, v.hashed[f]}  BY <1>i, <2>3 DEF CopiedIsHashed
    <2> HIDE DEF v
    <2>5. CopiedIsHashed'  BY <1>s, <1>z, <1>o, <2>1, <2>2, <2>4
    <2> QED  BY <1>u, <2>1, <2>5 DEF HostSafe
<1>4. ASSUME NEW i \in Installers, NEW g \in BundleFiles, CopyFile(i, g) PROVE HostSafe'
    <2> DEFINE v == [iInstaller[i] EXCEPT !.copied[g] = iSource[g]]
    <2>1. UNCHANGED activateVars /\ iInstalled' = iInstalled
        BY <1>4 DEF CopyFile, SetInstaller
    <2>2. CASE CopyMatches(i, g)
        <3>1. iInstaller' = [iInstaller EXCEPT ![i] = v]  BY <1>4, <2>2 DEF CopyFile, SetInstaller
        <3>2. v \in Installing /\ v.at # "idle"  BY <1>n, <1>p, <1>4 DEF Installing, Partial, Bundles, CopyFile
        <3>3. v.hashed = iInstaller[i].hashed /\ \A f \in BundleFiles : v.copied[f] = IF f = g THEN iSource[g] ELSE iInstaller[i].copied[f]
            BY <1>n DEF Installing, Partial
        <3>4. \A f \in BundleFiles : v.copied[f] \in {Unread, v.hashed[f]}  BY <1>i, <2>2, <3>3 DEF CopiedIsHashed, CopyMatches
        <3> HIDE DEF v
        <3>5. CopiedIsHashed'  BY <1>s, <1>o, <2>1, <3>1, <3>2, <3>4
        <3> QED  BY <1>u, <2>1, <3>5 DEF HostSafe
    <2>3. CASE ~ CopyMatches(i, g)
        <3>1. iInstaller' = [iInstaller EXCEPT ![i] = IdleInstaller]  BY <1>4, <2>3 DEF CopyFile, SetInstaller
        <3>2. CopiedIsHashed'  BY <1>z, <1>o, <2>1, <3>1
        <3> QED  BY <1>u, <2>1, <3>2 DEF HostSafe
    <2> QED  BY <2>2, <2>3
\* Every file of a complete copy is what was hashed: the tree is what its name says.
<1>5. ASSUME NEW i \in Installers, PublishInstallation(i) PROVE HostSafe'
    <2>1. UNCHANGED activateVars /\ iInstaller' = [iInstaller EXCEPT ![i] = IdleInstaller]  BY <1>5 DEF PublishInstallation, SetInstaller
    <2>2. iInstaller[i].copied \in Bundles /\ iInstaller[i].hashed \in Bundles  BY <1>n, <1>5 DEF PublishInstallation, Installing
    <2>3. \A f \in BundleFiles : iInstaller[i].copied[f] # Unread
        BY <2>2, HostAssumption DEF Bundles, Versions, Unread
    <2>4. \A f \in BundleFiles : iInstaller[i].copied[f] = iInstaller[i].hashed[f]  BY <1>i, <2>3 DEF CopiedIsHashed
    <2>5. iInstaller[i].copied = iInstaller[i].hashed  BY <2>2, <2>4 DEF Bundles
    <2>6. DOMAIN iInstalled \subseteq DOMAIN iInstalled' /\ \A b \in DOMAIN iInstalled' : iInstalled'[b] = b
        <3>1. CASE iInstalled' = iInstalled  BY <1>o, <3>1
        <3>2. CASE iInstalled' = With(iInstalled, iInstaller[i].hashed, iInstaller[i].copied)  BY <1>o, <2>5, <3>2 DEF With
        <3> QED  BY <1>5, <3>1, <3>2 DEF PublishInstallation
    <2>7. CopiedIsHashed'  BY <1>z, <2>1, <2>6
    <2> QED  BY <1>u, <2>1, <2>6, <2>7 DEF HostSafe
<1>6. ASSUME NEW i \in Installers, CrashInstaller(i) PROVE HostSafe'
    <2>1. UNCHANGED activateVars /\ iInstalled' = iInstalled /\ iInstaller' = [iInstaller EXCEPT ![i] = IdleInstaller]
        BY <1>6 DEF CrashInstaller
    <2>2. CopiedIsHashed'  BY <1>z, <1>o, <2>1
    <2> QED  BY <1>u, <2>1, <2>2 DEF HostSafe
\* One activator moves: the frame of its step.
<1>v. ASSUME NEW a \in Activators, NEW v, iActivator' = [iActivator EXCEPT ![a] = v]
      PROVE  iActivator'[a] = v /\ \A d \in Activators : d # a => iActivator'[d] = iActivator[d]
    BY <1>a, <1>v
<1>h. /\ \A a \in Activators : iActivator[a].at \in Locked => iLock
      /\ \A a, d \in Activators : iActivator[a].at \in Locked /\ iActivator[d].at \in Locked => a = d
    BY <1>i DEF RegistryLocked
\* The registry and the policies stay.
<1>w. ASSUME NEW a \in Activators, NEW v, iActivator' = [iActivator EXCEPT ![a] = v], UNCHANGED <<iRegistry, iPolicy>>,
             v.at = "write" => /\ v.registry = iRegistry
                               /\ iPolicy[v.repository] \in DOMAIN iRegistry => iRegistry[iPolicy[v.repository]] = v.repository,
             v.at \in {"unlock", "codex"} => Registered(v.repository)
      PROVE  RegistryFresh' /\ (iActivated' = iActivated => ActivatedRegistered') /\ \A r : Registered(r)' = Registered(r)
    <2>1. \A r : Registered(r)' = Registered(r)  BY <1>w DEF Registered
    <2>2. iActivator'[a] = v /\ \A d \in Activators : d # a => iActivator'[d] = iActivator[d]  BY <1>v, <1>w
    <2>3. RegistryFresh'  BY <1>i, <1>w, <2>1, <2>2 DEF RegistryFresh
    <2>4. iActivated' = iActivated => ActivatedRegistered'  BY <1>i, <2>1 DEF ActivatedRegistered
    <2> QED  BY <2>1, <2>3, <2>4
\* The registry and the activations stay.
<1>x. ASSUME NEW a \in Activators, NEW v, iActivator' = [iActivator EXCEPT ![a] = v], UNCHANGED <<iRegistry, iActivation, iInstalled>>,
             v.at # "idle" => v.installation \in DOMAIN iInstalled,
             v.at \notin {"idle", "activation"} => iActivation[v.repository] \in DOMAIN iInstalled
      PROVE  ActivationReal'
    <2>1. iActivator'[a] = v /\ \A d \in Activators : d # a => iActivator'[d] = iActivator[d]  BY <1>v, <1>x
    <2> QED  BY <1>i, <1>x, <2>1 DEF ActivationReal
\* The lock file stays, and the activator does not start to rely on it.
<1>y. ASSUME NEW a \in Activators, NEW v, iActivator' = [iActivator EXCEPT ![a] = v], iLock' = iLock,
             v.at \in Locked => iActivator[a].at \in Locked
      PROVE  RegistryLocked'
    <2>1. iActivator'[a] = v /\ \A d \in Activators : d # a => iActivator'[d] = iActivator[d]  BY <1>v, <1>y
    <2> QED  BY <1>h, <1>y, <2>1 DEF RegistryLocked
<1>e. \A a \in Activators :
        /\ iActivator[a].at # "idle" => iActivator[a].installation \in DOMAIN iInstalled
        /\ iActivator[a].at \notin {"idle", "activation"} => iActivation[iActivator[a].repository] \in DOMAIN iInstalled
    BY <1>i DEF ActivationReal
<1>7. ASSUME NEW a \in Activators, NEW r \in Repositories, NEW b \in DOMAIN iInstalled, BeginActivation(a, r, b)
      PROVE  HostSafe'
    <2>1. PICK l \in {"activation", "lock"} :
            /\ l = "lock" => iActivation[r] # Absent
            /\ iActivator' = [iActivator EXCEPT ![a] = [IdleActivator EXCEPT !.at = l, !.repository = r, !.installation = b, !.codex = iCodex[r]]]
        BY <1>7 DEF BeginActivation, SetActivator
    <2> DEFINE v == [IdleActivator EXCEPT !.at = l, !.repository = r, !.installation = b, !.codex = iCodex[r]]
    <2>2. v.at = l /\ v.installation = b /\ v.repository = r  BY DEF IdleActivator
    <2>3. iActivation[r] \in {Absent, b} /\ UNCHANGED <<iInstaller, iInstalled, iPolicy, iActivation, iRegistry, iLock, iActivated>>
        BY <1>7 DEF BeginActivation, SetActivator, installVars
    <2>4. iActivator' = [iActivator EXCEPT ![a] = v]  BY <2>1
    <2> HIDE DEF v
    <2>5. RegistryFresh' /\ ActivatedRegistered'  BY <1>w, <2>1, <2>2, <2>3, <2>4
    <2>6. l = "lock" => iActivation[r] \in DOMAIN iInstalled  BY <2>1, <2>3
    <2>7. ActivationReal'  BY <1>x, <2>1, <2>2, <2>3, <2>4, <2>6
    <2>8. RegistryLocked'  BY <1>y, <2>1, <2>2, <2>3, <2>4 DEF Locked
    <2> QED  BY <1>c, <2>3, <2>5, <2>7, <2>8 DEF HostSafe
<1>g. \A a \in Activators : \A l :
                               /\ [iActivator[a] EXCEPT !.at = l].at = l
                               /\ [iActivator[a] EXCEPT !.at = l].repository = iActivator[a].repository
                               /\ [iActivator[a] EXCEPT !.at = l].installation = iActivator[a].installation
    BY <1>a DEF Activating
<1>8. ASSUME NEW a \in Activators, WriteActivation(a) PROVE HostSafe'
    <2> DEFINE v == [iActivator[a] EXCEPT !.at = "lock"]
    <2>1. /\ iActivator[a].at = "activation" /\ iActivator' = [iActivator EXCEPT ![a] = v]
          /\ iActivation' = [iActivation EXCEPT ![iActivator[a].repository] = iActivator[a].installation]
          /\ UNCHANGED <<iInstaller, iInstalled, iPolicy, iRegistry, iLock, iActivated>>
        BY <1>8 DEF WriteActivation, SetActivator, installVars
    <2>2. v.at = "lock" /\ v.installation = iActivator[a].installation /\ v.repository = iActivator[a].repository  BY <1>g
    <2> HIDE DEF v
    <2>3. RegistryFresh' /\ ActivatedRegistered'  BY <1>w, <2>1, <2>2
    <2>4. RegistryLocked'  BY <1>y, <2>1, <2>2 DEF Locked
    <2>5. \A r \in Repositories : iActivation'[r] \in {iActivation[r], iActivator[a].installation}  BY <1>p, <2>1
    <2>6. iActivation'[iActivator[a].repository] = iActivator[a].installation  BY <1>p, <1>r, <2>1
    <2>7. iActivator[a].installation \in DOMAIN iInstalled  BY <1>e, <2>1
    <2>8. \A r \in Repositories : iActivation[r] \in DOMAIN iInstalled => iActivation'[r] \in DOMAIN iInstalled  BY <2>5, <2>7
    <2>9. \A id \in DOMAIN iRegistry : iRegistry[id] \in Repositories  BY <1>p DEF Registries
    <2>10. iActivator'[a] = v /\ \A d \in Activators : d # a => iActivator'[d] = iActivator[d]  BY <1>v, <2>1
    <2>11. \A d \in Activators : iActivator'[d].at # "idle" => iActivator'[d].installation \in DOMAIN iInstalled
        BY <1>e, <2>2, <2>7, <2>10
    <2>12. \A d \in Activators : iActivator'[d].at \notin {"idle", "activation"} => iActivation'[iActivator'[d].repository] \in DOMAIN iInstalled
        BY <1>e, <1>r, <2>2, <2>6, <2>7, <2>8, <2>10
    <2>13. \A id \in DOMAIN iRegistry : iActivation'[iRegistry[id]] \in DOMAIN iInstalled
        BY <1>i, <2>8, <2>9 DEF ActivationReal
    <2>14. ActivationReal'  BY <2>1, <2>11, <2>12, <2>13 DEF ActivationReal
    <2> QED  BY <1>c, <2>1, <2>3, <2>4, <2>14 DEF HostSafe
\* The lock file is created exclusively: nobody else is inside.
<1>9. ASSUME NEW a \in Activators, TakeRegistryLock(a) PROVE HostSafe'
    <2>1. /\ iActivator[a].at = "lock" /\ iLock' = TRUE
          /\ UNCHANGED <<iInstaller, iInstalled, iPolicy, iRegistry, iActivation, iActivated>>
        BY <1>9 DEF TakeRegistryLock, SetActivator, installVars
    <2>2. PICK v : /\ iActivator' = [iActivator EXCEPT ![a] = v]
                   /\ v.at = "idle" \/ (v.at = "read" /\ ~ iLock)
                   /\ v.at # "idle" => v.repository = iActivator[a].repository /\ v.installation = iActivator[a].installation
        BY <1>9, <1>g, IdleIsTyped DEF TakeRegistryLock, SetActivator
    <2>3. RegistryFresh' /\ ActivatedRegistered'  BY <1>w, <2>1, <2>2
    <2>4. ActivationReal'  BY <1>x, <1>e, <2>1, <2>2
    <2>5. iActivator'[a] = v /\ \A d \in Activators : d # a => iActivator'[d] = iActivator[d]  BY <1>v, <2>2
    <2>6. RegistryLocked'  BY <1>h, <2>1, <2>2, <2>5 DEF RegistryLocked, Locked
    <2> QED  BY <1>c, <2>1, <2>3, <2>4, <2>6 DEF HostSafe
<1>10. ASSUME NEW a \in Activators, ReadRegistry(a) PROVE HostSafe'
    <2> DEFINE r == iActivator[a].repository
               w == [iActivator[a] EXCEPT !.at = "write", !.registry = iRegistry]
    <2>1. iActivator[a].at = "read" /\ UNCHANGED <<iInstaller, iInstalled, iPolicy, iRegistry, iActivation, iActivated>>
        BY <1>10 DEF ReadRegistry, SetActivator, installVars
    <2>2. w.at = "write" /\ w.registry = iRegistry /\ w.repository = r /\ w.installation = iActivator[a].installation
        BY <1>a DEF Activating
    <2>3. \/ iLock' = FALSE /\ iActivator' = [iActivator EXCEPT ![a] = IdleActivator]
          \/ iLock' = TRUE /\ iActivator' = [iActivator EXCEPT ![a] = w] /\ (iPolicy[r] \in DOMAIN iRegistry => iRegistry[iPolicy[r]] = r)
        BY <1>10 DEF ReadRegistry, SetActivator
    <2> HIDE DEF w, r
    <2>4. PICK v : /\ iActivator' = [iActivator EXCEPT ![a] = v]
                   /\ \/ v.at = "idle"
                      \/ /\ v.at = "write" /\ v.registry = iRegistry /\ iLock' = TRUE /\ v.repository = r
                         /\ v.installation = iActivator[a].installation
                         /\ iPolicy[r] \in DOMAIN iRegistry => iRegistry[iPolicy[r]] = r
        BY <2>2, <2>3, IdleIsTyped
    <2>5. RegistryFresh' /\ ActivatedRegistered'  BY <1>w, <2>1, <2>4
    <2>6. ActivationReal'  BY <1>x, <1>e, <2>1, <2>4 DEF r
    <2>7. iActivator'[a] = v /\ \A d \in Activators : d # a => iActivator'[d] = iActivator[d]  BY <1>v, <2>4
    <2>8. \A d \in Activators : d # a => iActivator[d].at \notin Locked  BY <1>h, <2>1 DEF Locked
    <2>9. RegistryLocked'  BY <2>4, <2>7, <2>8 DEF RegistryLocked, Locked
    <2> QED  BY <1>c, <2>1, <2>5, <2>6, <2>9 DEF HostSafe
\* The registry written is the one read with this repository's id added: registrations stay.
<1>11. ASSUME NEW a \in Activators, WriteRegistry(a) PROVE HostSafe'
    <2>0. PICK r \in Repositories : r = iActivator[a].repository  BY <1>r
    <2> DEFINE v == [iActivator[a] EXCEPT !.at = "unlock", !.registry = <<>>]
    <2>1. /\ iActivator[a].at = "write" /\ iActivator' = [iActivator EXCEPT ![a] = v]
          /\ iRegistry' = With(iActivator[a].registry, iPolicy[r], r)
          /\ UNCHANGED <<iInstaller, iInstalled, iPolicy, iLock, iActivation, iActivated>>
        BY <1>11, <2>0 DEF WriteRegistry, SetActivator, installVars
    <2>2. v.at = "unlock" /\ v.repository = r /\ v.installation = iActivator[a].installation  BY <1>a, <2>0 DEF Activating
    <2>4. iActivator[a].registry = iRegistry /\ (iPolicy[r] \in DOMAIN iRegistry => iRegistry[iPolicy[r]] = r)
        BY <1>i, <2>0, <2>1 DEF RegistryFresh
    <2> HIDE DEF v
    <2>5. /\ DOMAIN iRegistry' = DOMAIN iRegistry \cup {iPolicy[r]} /\ iRegistry'[iPolicy[r]] = r
          /\ \A x \in DOMAIN iRegistry : iRegistry'[x] = iRegistry[x]
        BY <2>1, <2>4 DEF With
    <2>6. Registered(r)' /\ \A s : Registered(s) => Registered(s)'  BY <2>1, <2>5 DEF Registered
    <2>7. iActivator'[a] = v /\ \A d \in Activators : d # a => iActivator'[d] = iActivator[d]  BY <1>v, <2>1
    <2>8. \A d \in Activators : d # a => iActivator[d].at \notin Locked  BY <1>h, <2>1 DEF Locked
    <2>9. RegistryFresh'  BY <1>i, <2>2, <2>6, <2>7, <2>8 DEF RegistryFresh, Locked
    <2>10. ActivatedRegistered'  BY <1>i, <2>1, <2>6 DEF ActivatedRegistered
    <2>11. RegistryLocked'  BY <1>y, <2>1, <2>2 DEF Locked
    <2>12. iActivation[r] \in DOMAIN iInstalled /\ iActivator[a].installation \in DOMAIN iInstalled  BY <1>e, <2>0, <2>1
    <2>13. \A id \in DOMAIN iRegistry' : iActivation[iRegistry'[id]] \in DOMAIN iInstalled
        BY <1>i, <2>5, <2>12 DEF ActivationReal
    <2>14. ActivationReal'  BY <1>e, <2>1, <2>2, <2>7, <2>12, <2>13 DEF ActivationReal
    <2> QED  BY <1>c, <2>1, <2>9, <2>10, <2>11, <2>14 DEF HostSafe
<1>12. ASSUME NEW a \in Activators, ReleaseRegistryLock(a) PROVE HostSafe'
    <2> DEFINE v == [iActivator[a] EXCEPT !.at = "codex"]
    <2>1. /\ iActivator[a].at = "unlock" /\ iActivator' = [iActivator EXCEPT ![a] = v]
          /\ UNCHANGED <<iInstaller, iInstalled, iPolicy, iRegistry, iActivation, iActivated>>
        BY <1>12 DEF ReleaseRegistryLock, SetActivator, installVars
    <2>2. v.at = "codex" /\ v.installation = iActivator[a].installation /\ v.repository = iActivator[a].repository  BY <1>g
    <2>3. Registered(iActivator[a].repository)  BY <1>i, <2>1 DEF RegistryFresh
    <2> HIDE DEF v
    <2>4. RegistryFresh' /\ ActivatedRegistered'  BY <1>w, <2>1, <2>2, <2>3
    <2>5. ActivationReal'  BY <1>x, <1>e, <2>1, <2>2
    <2>6. iActivator'[a] = v /\ \A d \in Activators : d # a => iActivator'[d] = iActivator[d]  BY <1>v, <2>1
    <2>7. \A d \in Activators : d # a => iActivator[d].at \notin Locked  BY <1>h, <2>1 DEF Locked
    <2>8. RegistryLocked'  BY <2>2, <2>6, <2>7 DEF RegistryLocked, Locked
    <2> QED  BY <1>c, <2>1, <2>4, <2>5, <2>8 DEF HostSafe
\* An activation returns only for a repository that is registered.
<1>13. ASSUME NEW a \in Activators, WriteCodex(a) PROVE HostSafe'
    <2>1. /\ iActivator[a].at = "codex" /\ iActivator' = [iActivator EXCEPT ![a] = IdleActivator]
          /\ UNCHANGED <<iInstaller, iInstalled, iPolicy, iRegistry, iLock, iActivation>>
          /\ iActivated' \subseteq iActivated \cup {iActivator[a].repository}
        BY <1>13 DEF WriteCodex, SetActivator, installVars
    <2>2. Registered(iActivator[a].repository)  BY <1>i, <2>1 DEF RegistryFresh
    <2>3. IdleActivator.at = "idle"  BY IdleIsTyped
    <2>4. RegistryFresh' /\ \A r : Registered(r)' = Registered(r)  BY <1>w, <2>1, <2>3
    <2>5. ActivatedRegistered'  BY <1>i, <2>1, <2>2, <2>4 DEF ActivatedRegistered
    <2>6. ActivationReal'  BY <1>x, <2>1, <2>3
    <2>7. RegistryLocked'  BY <1>y, <2>1, <2>3 DEF Locked
    <2> QED  BY <1>c, <2>1, <2>4, <2>5, <2>6, <2>7 DEF HostSafe
<1>14. ASSUME NEW a \in Activators, CrashActivator(a) PROVE HostSafe'
    <2>1. /\ iActivator' = [iActivator EXCEPT ![a] = IdleActivator]
          /\ UNCHANGED <<iInstaller, iInstalled, iPolicy, iRegistry, iLock, iActivation, iActivated>>
        BY <1>14 DEF CrashActivator, installVars
    <2>2. IdleActivator.at = "idle"  BY IdleIsTyped
    <2>3. RegistryFresh' /\ ActivatedRegistered'  BY <1>w, <2>1, <2>2
    <2>4. ActivationReal'  BY <1>x, <2>1, <2>2
    <2>5. RegistryLocked'  BY <1>y, <2>1, <2>2 DEF Locked
    <2> QED  BY <1>c, <2>1, <2>3, <2>4, <2>5 DEF HostSafe
<1>15. CASE UNCHANGED hostVars
    <2>1. UNCHANGED activateVars /\ UNCHANGED <<iInstaller, iInstalled>>  BY <1>15 DEF hostVars, activateVars
    <2> QED  BY <1>u, <1>c, <2>1 DEF HostSafe
<1> QED
    BY <1>1, <1>2, <1>3, <1>4, <1>5, <1>6, <1>7, <1>8, <1>9, <1>10, <1>11, <1>12, <1>13, <1>14, <1>15 DEF HostNext

\* Installations, manifests, registry and the commands in progress keep their types.
THEOREM InstallationsTyped == HostSpec => []HostTypeOK
<1>1. HostTyped => HostTypeOK
    <2> SUFFICES ASSUME HostTyped PROVE HostTypeOK  OBVIOUS
    <2>1. \A i \in Installers : iInstaller[i].at \in {"idle", "copying"} /\ iInstaller[i].hashed \in Partial
        BY DEF HostTyped, Installing
    <2>2. DOMAIN iRegistry \subseteq RepositoryIds  BY DEF HostTyped, Registries
    <2> QED  BY <2>1, <2>2 DEF HostTyped, HostTypeOK
<1> QED  BY <1>1, HostInitSafe, HostTypedStep, PTL DEF HostSpec

\* However installers, activators, edits of the source and crashes interleave, an installation
\* is what its identity says, and a repository whose activation returned stays registered for
\* an installation that exists (installRuntimeHostV4, activateRuntimeRepositoryV4 and the
\* registry lock).
THEOREM RegistrationsAreKept == HostSpec => []RegistrationsKept
<1>1. HostSafe => RegistrationsKept
    BY DEF HostSafe, CopiedIsHashed, ActivatedRegistered, Registered, ActivationReal, RegistrationsKept
<1> QED  BY <1>1, HostInitSafe, HostTypedStep, HostSafeStep, PTL DEF HostSpec

-----------------------------------------------------------------------------
(* All of what the broker holds. *)

\* The components share no state: a behaviour of all of them is one of each.
LEMMA EachOnItsOwn ==
    ResourcesSpec => LockSpec /\ WtSpec /\ TxSpec /\ SbSpec /\ CertSpec /\ GwSpec /\ EpSpec /\ HostSpec
<1>1. ResourcesInit => LockInit /\ WtInit /\ TxInit /\ SbInit /\ CertInit /\ GwInit /\ EpInit /\ HostInit
    BY DEF ResourcesInit
<1>2. ASSUME [ResourcesNext]_resourceVars
      PROVE  /\ [LockNext]_lockVars /\ [WtNext]_wtVars /\ [TxNext]_txVars /\ [SbNext]_sbVars
             /\ [CertNext]_certVars /\ [GwNext]_gwVars /\ [EpNext]_epVars /\ [HostNext]_hostVars
    BY <1>2 DEF ResourcesNext, resourceVars, LockMoves, WorktreeMoves, TransactionMoves, SandboxMoves,
                CertificationMoves, GatewayMoves, EndpointMoves, InstallationMoves
<1> QED  BY <1>1, <1>2, PTL DEF ResourcesSpec, LockSpec, WtSpec, TxSpec, SbSpec, CertSpec, GwSpec, EpSpec, HostSpec

\* Every variable of what the broker holds has its type, for every number of processes, runs,
\* containers, servers, repositories and failures.
THEOREM ResourcesTyped == ResourcesSpec => []ResourcesTypeOK
<1>1. /\ LockTypeOK /\ WtTypeOK /\ TxTypeOK /\ SbTypeOK /\ CertTypeOK /\ GwTypeOK /\ EpTypeOK /\ HostTypeOK
      => ResourcesTypeOK
    BY DEF ResourcesTypeOK
<1> QED  BY <1>1, EachOnItsOwn, LockTyped, WorktreesTyped, TransactionsTyped, SandboxTyped, CertificationTyped,
            GatewayTyped, EndpointTyped, InstallationsTyped, PTL

\* No Docker resource is forgotten: a container has a record a later broker finds
\* (createBrokerOwnedDockerContainerV4), a certification's network somebody who will remove it,
\* and a certification that passed leaves nothing; but for creates without an answer that the
\* recovery waited for in vain, or whose lookup by label failed or came too early.
THEOREM ResourcesRemembered == ResourcesSpec => []NothingForgotten
<1>1. NoContainerWithoutRecord /\ NoNetworkForgotten /\ CertifiedLeavesNothing => NothingForgotten
    BY DEF NothingForgotten
<1> QED  BY <1>1, EachOnItsOwn, ContainersRecorded, NetworksRemembered, CertificationLeavesNothing, PTL

\* What is taken away is one's own: the worktrees of runs past their retention (applyReport)
\* and the containers of one's own records (reconcilePendingCreate).
THEOREM OthersKept == ResourcesSpec => OnlyOwnRemoved
BY EachOnItsOwn, RetainedIsKept, ContainersOfOthersKept, PTL DEF OnlyOwnRemoved
=============================================================================
