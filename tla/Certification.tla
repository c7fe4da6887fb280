---------------------------- MODULE Certification ----------------------------
(***************************************************************************)
(* runDockerSandboxHostileCertificationV4 (docker-sandbox.ts): the stages  *)
(* of a certification, the networks, fixture, gateway and executor it      *)
(* makes, the finally that takes them down again, and the cleanup map that *)
(* remembers networks across certifications.  Certifications of different  *)
(* identities run at the same time, in one process.                        *)
(*                                                                         *)
(* What the hostile programs report is abstracted to whether a stage is    *)
(* satisfied.  Nothing of the map is durable, so the process does not die  *)
(* here.                                                                   *)
(***************************************************************************)
EXTENDS Naturals, FiniteSets

CONSTANTS
    CertRuns,        \* certifications
    MaxCertFaults    \* bound: commands that fail

ASSUME CertSizes == IsFiniteSet(CertRuns) /\ MaxCertFaults \in Nat

VARIABLES
    stage,      \* where each certification is
    net,        \* each network
    laggard,    \* networks the daemon has yet to create although the client gave up
    retained,   \* pendingCertificationNetworkCleanupV4
    sweep,      \* the part of the map a beginning certification has yet to retry
    known,      \* networks whose identifier the certification has
    parts,      \* the fixture, gateway and executor containers
    dirty,      \* cleanupFailure
    passed,     \* certifications that reached the transcript
    stray,      \* networks that the recovery cannot have found: it failed, or came too early
    certFaults

certVars == <<stage, net, laggard, retained, sweep, known, parts, dirty, passed, stray, certFaults>>

Kinds    == {"internal", "outbound"}
Nets     == CertRuns \X Kinds
Parts    == CertRuns \X {"fixture", "gateway", "executor"}
Stages   == {"idle", "retry", "process", "timeout", "certificate", "internal", "internal lost",
             "outbound", "outbound lost", "fixture", "gateway", "executor", "verdict",
             "finally", "certified", "unavailable"}

\* The create of a network that gave no proved identifier.
Lost(k)  == IF k = "internal" THEN "internal lost" ELSE "outbound lost"

CertInit ==
    /\ stage = [c \in CertRuns |-> "idle"] /\ net = [n \in Nets |-> "none"] /\ laggard = {}
    /\ retained = {} /\ sweep = [c \in CertRuns |-> {}] /\ known = {} /\ parts = [p \in Parts |-> "none"] /\ dirty = {} /\ passed = {}
    /\ stray = {} /\ certFaults = 0

-----------------------------------------------------------------------------
StageIs(c, s) == stage[c] = s
Advance(c, s) == stage' = [stage EXCEPT ![c] = s]
Networks      == <<net, laggard, retained, known, stray>>
Verdicts      == <<dirty, passed, certFaults, sweep>>

\* A network with a container attached is not removed by `network rm`.
Attached(n) ==
    LET on(part) == parts[<<n[1], part>>] = "up" IN
    IF n[2] = "internal" THEN on("gateway") \/ on("executor") ELSE on("fixture") \/ on("gateway")

\* removeCertificationNetworkV4 of a retained network: inspect, rm, wait for its absence.
Removes(n) ==
    /\ n \in retained /\ ~Attached(n)
    /\ net' = [net EXCEPT ![n] = "gone"] /\ retained' = retained \ {n}

BeginCertification(c) ==
    /\ StageIs(c, "idle") /\ Advance(c, "retry") /\ sweep' = [sweep EXCEPT ![c] = retained]
    /\ UNCHANGED <<Networks, parts, dirty, passed, certFaults>>

\* retryPendingCertificationNetworkCleanupV4: every network that was in the map, whichever
\* certification made it, must go before a new certification does anything.
RetryCleanup(c) ==
    /\ StageIs(c, "retry") /\ UNCHANGED <<laggard, known, stray, parts, dirty, passed, certFaults>>
    /\ \/ sweep[c] = {} /\ Advance(c, "process") /\ UNCHANGED <<net, retained, sweep>>
       \/ \E n \in sweep[c] : Removes(n) /\ sweep' = [sweep EXCEPT ![c] = @ \ {n}] /\ UNCHANGED stage
       \/ /\ \E n \in sweep[c] : n \notin retained \/ Attached(n)
          /\ Advance(c, "unavailable") /\ UNCHANGED <<net, retained, sweep>>

\* Containers without network: the hostile process, the one that times out, openssl.
RunIsolated(c) ==
    /\ \/ StageIs(c, "process")     /\ Advance(c, "timeout")
       \/ StageIs(c, "timeout")     /\ Advance(c, "certificate")
       \/ StageIs(c, "certificate") /\ Advance(c, "internal")
    /\ UNCHANGED <<Networks, parts, Verdicts>>

CreateNext(k) == IF k = "internal" THEN "outbound" ELSE "fixture"

\* createCertificationNetworkV4: an identifier is retained and registered before it is
\* proved; a command that gave none may have created the network, now or later.  A
\* network whose proof fails is recovered, below.  A subnet that another certification
\* holds is retried until a deadline.
CreateNetwork(c) ==
    \E k \in Kinds :
        LET n == <<c, k>> IN
        /\ StageIs(c, k) /\ UNCHANGED <<parts, stray, Verdicts>>
        /\ \/ /\ k = "outbound" => \A d \in CertRuns : net[<<d, k>>] # "up"
              /\ net' = [net EXCEPT ![n] = "up"] /\ retained' = retained \cup {n} /\ known' = known \cup {n}
              /\ Advance(c, CreateNext(k)) \/ Advance(c, Lost(k))
              /\ UNCHANGED laggard
           \/ /\ Advance(c, Lost(k)) /\ UNCHANGED <<retained, known>>
              /\ \/ net' = [net EXCEPT ![n] = "up"] /\ UNCHANGED laggard
                 \/ laggard' = laggard \cup {n} /\ UNCHANGED net
           \/ /\ k = "outbound" /\ \E d \in CertRuns : net[<<d, k>>] = "up"
              /\ Advance(c, "finally") /\ UNCHANGED <<net, laggard, retained, known>>

\* recoverCertificationNetworkV4 by label: what is found is retained, registered and removed.
RecoverNetwork(c) ==
    \E k \in Kinds :
        LET n == <<c, k>> IN
        /\ StageIs(c, Lost(k)) /\ Advance(c, "finally") /\ UNCHANGED <<parts, stray, Verdicts>>
        /\ IF net[n] # "up" THEN UNCHANGED <<net, laggard, retained, known>>
           ELSE /\ known' = known \cup {n} /\ UNCHANGED laggard
                /\ \/ net' = [net EXCEPT ![n] = "gone"] /\ retained' = retained \ {n}
                   \/ retained' = retained \cup {n} /\ UNCHANGED net

\* It throws when `network ls` or the inspection fails: a network whose create gave no
\* identifier is then in no map and unknown to the finally.
RecoverFails(c) ==
    \E k \in Kinds :
        LET n == <<c, k>> IN
        /\ StageIs(c, Lost(k)) /\ Advance(c, "finally")
        /\ certFaults < MaxCertFaults /\ certFaults' = certFaults + 1
        /\ stray' = IF net[n] = "up" /\ n \notin retained THEN stray \cup {n} ELSE stray
        /\ UNCHANGED <<net, laggard, retained, known, parts, dirty, passed, sweep>>

\* The daemon finishes a create whose client is gone.
LateNetwork(n) ==
    /\ n \in laggard /\ laggard' = laggard \ {n}
    /\ \/ /\ net' = [net EXCEPT ![n] = "up"]
          /\ stray' = IF StageIs(n[1], Lost(n[2])) THEN stray ELSE stray \cup {n}
       \/ UNCHANGED <<net, stray>>
    /\ UNCHANGED <<stage, retained, known, parts, Verdicts>>

\* The TLS fixture and the gateway; a start that fails, as it does when another certification
\* has removed the network, removes its own container.
StartPart(c) ==
    \E part \in {"fixture", "gateway"} :
        LET on == IF part = "fixture" THEN {"outbound"} ELSE Kinds IN
        /\ StageIs(c, part) /\ UNCHANGED <<Networks, Verdicts>>
        /\ IF \E k \in on : net[<<c, k>>] # "up" THEN Advance(c, "finally") /\ UNCHANGED parts
           ELSE /\ parts' = [parts EXCEPT ![<<c, part>>] = "up"]
                /\ Advance(c, IF part = "fixture" THEN "gateway" ELSE "executor")

\* The executor is not awaited: its container is inspected while it runs.
StartExecutor(c) ==
    /\ StageIs(c, "executor") /\ Advance(c, "verdict")
    /\ parts' = [parts EXCEPT ![<<c, "executor">>] = "up"] /\ UNCHANGED <<Networks, Verdicts>>

\* The finally of the executor's own run, however it ends.
ExecutorEnds(c) ==
    /\ parts[<<c, "executor">>] = "up" /\ parts' = [parts EXCEPT ![<<c, "executor">>] = "gone"]
    /\ UNCHANGED <<stage, Networks, Verdicts>>

\* The executor's result is awaited, then evidence and logs are judged.
Judge(c) ==
    /\ StageIs(c, "verdict") /\ parts[<<c, "executor">>] = "gone"
    /\ Advance(c, "finally") /\ passed' = passed \cup {c} /\ UNCHANGED <<Networks, parts, dirty, certFaults, sweep>>

\* Any stage may find what it must not find, or fail.
StageFails(c) ==
    /\ stage[c] \notin {"idle", "finally", "certified", "unavailable"} /\ certFaults < MaxCertFaults
    /\ stage[c] \notin {Lost(k) : k \in Kinds}
    /\ certFaults' = certFaults + 1
    /\ Advance(c, IF StageIs(c, "retry") THEN "unavailable" ELSE "finally")
    /\ UNCHANGED <<Networks, parts, dirty, passed, sweep>>

-----------------------------------------------------------------------------
(* The finally: gateway, fixture, then the networks whose identifier is known. *)

PartsUp(c) == {p \in Parts : p[1] = c /\ p[2] # "executor" /\ parts[p] = "up"}
NetsUp(c)  == {n \in known : n[1] = c}

CleanPart(c) ==
    /\ StageIs(c, "finally") /\ UNCHANGED <<stage, Networks, passed, sweep>>
    /\ \E p \in PartsUp(c) :
        /\ p[2] = "fixture" => parts[<<c, "gateway">>] # "up"
        /\ \/ parts' = [parts EXCEPT ![p] = "gone"] /\ UNCHANGED <<dirty, certFaults>>
           \/ /\ certFaults < MaxCertFaults /\ certFaults' = certFaults + 1
              /\ parts' = [parts EXCEPT ![p] = "left"] /\ dirty' = dirty \cup {c}

\* A failed removal leaves the network in the map and goes on with the next cleanup.
CleanNetwork(c) ==
    /\ StageIs(c, "finally") /\ PartsUp(c) = {} /\ UNCHANGED <<stage, laggard, parts, passed, stray, sweep>>
    /\ \E n \in NetsUp(c) :
        /\ known' = known \ {n}
        /\ \/ Removes(n) /\ UNCHANGED <<dirty, certFaults>>
           \/ /\ dirty' = dirty \cup {c} /\ UNCHANGED <<net, retained>>
              /\ \/ (n \notin retained \/ Attached(n)) /\ UNCHANGED certFaults
                 \/ certFaults < MaxCertFaults /\ certFaults' = certFaults + 1

EndCertification(c) ==
    /\ StageIs(c, "finally") /\ PartsUp(c) = {} /\ NetsUp(c) = {}
    /\ Advance(c, IF c \in passed /\ c \notin dirty THEN "certified" ELSE "unavailable")
    /\ UNCHANGED <<Networks, parts, Verdicts>>

-----------------------------------------------------------------------------
CertStep(c) ==
    \/ RetryCleanup(c) \/ RunIsolated(c) \/ CreateNetwork(c) \/ RecoverNetwork(c) \/ StartPart(c)
    \/ StartExecutor(c) \/ ExecutorEnds(c) \/ Judge(c) \/ CleanPart(c) \/ CleanNetwork(c) \/ EndCertification(c)

CertNext ==
    \/ \E c \in CertRuns : BeginCertification(c) \/ CertStep(c) \/ RecoverFails(c) \/ StageFails(c)
    \/ \E n \in Nets : LateNetwork(n)

CertSpec == CertInit /\ [][CertNext]_certVars

\* The state of the certifications has its type.
CertTypeOK ==
    /\ stage \in [CertRuns -> Stages] /\ net \in [Nets -> {"none", "up", "gone"}]
    /\ laggard \in SUBSET Nets /\ retained \in SUBSET Nets /\ known \in SUBSET Nets /\ stray \in SUBSET Nets
    /\ parts \in [Parts -> {"none", "up", "gone", "left"}]
    /\ sweep \in [CertRuns -> SUBSET Nets] /\ dirty \in SUBSET CertRuns /\ passed \in SUBSET CertRuns /\ certFaults \in 0..MaxCertFaults

\* A network that exists is in the cleanup map, or the certification that asked for it is
\* about to look for it by label (recoverCertificationNetworkV4): none is forgotten, however
\* a create, a proof, a removal or a neighbour's cleanup ended.  What escapes is a network
\* whose create gave no identifier, if that look fails or the daemon finishes the create
\* after it.
NoNetworkForgotten ==
    \A n \in Nets : net[n] = "up" => n \in retained \/ n \in stray \/ stage[n[1]] = Lost(n[2])

\* A certification counts only if nothing it made is left: no network, fixture, gateway or
\* executor, even if another certification removed networks meanwhile.
CertifiedLeavesNothing ==
    \A c \in CertRuns : stage[c] = "certified" =>
        /\ \A n \in Nets  : n[1] = c => net[n] = "gone"
        /\ \A p \in Parts : p[1] = c => parts[p] = "gone"
=============================================================================
