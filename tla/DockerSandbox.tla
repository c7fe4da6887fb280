---------------------------- MODULE DockerSandbox ----------------------------
(***************************************************************************)
(* createDockerProcessSandboxV4 (docker-sandbox.ts): executions that are   *)
(* probed under a shared, expiring certification of the Docker engine,     *)
(* get a container, run in it and clean it up, while terminate may come at *)
(* any await.                                                              *)
(*                                                                         *)
(* The container comes from ContainerTransaction: "up" is one the broker   *)
(* was given, "left" one that a failed create leaves to its durable        *)
(* record.  Identities stand for their hash; time is counted in ticks.     *)
(***************************************************************************)
EXTENDS Naturals

CONSTANTS
    Executions,    \* execution ids, each used by one run
    Identities,    \* what the engine, its image and the policy may hash to
    Ttl,           \* certification_ttl_seconds, in ticks
    MaxTick,       \* bound on the clock
    Never          \* no time

ASSUME SandboxSizes == Ttl \in Nat /\ MaxTick \in Nat /\ Never \notin Nat

VARIABLES
    engine,        \* the identity an inspection finds now
    tick,          \* the clock
    evidence,      \* hostileCertificationEvidenceV4: completion time, by identity
    certifying,        \* hostileCertificationFlightsV4: identities with a certification running
    cert,          \* cache: the certification issued last
    proved,        \* every certification that ever completed, by identity
    sb,            \* each run
    term           \* each terminate

sbVars == <<engine, tick, evidence, certifying, cert, proved, sb, term>>
certs  == <<evidence, certifying, cert, proved>>

SbSteps   == {"idle", "probe", "match", "flight", "prepare", "create", "up", "attach", "cleanup", "settle", "settled"}
TermSteps == {"none", "remove", "wait", "returned", "threw"}
NoCert    == [of |-> Never, at |-> Never]

SbInit ==
    /\ engine \in Identities /\ tick = 0 /\ certifying = {} /\ cert = NoCert
    /\ evidence = [i \in Identities |-> Never] /\ proved = [i \in Identities |-> {}]
    /\ sb = [e \in Executions |-> [step |-> "idle", seen |-> Never, cancelled |-> FALSE,
                                   box |-> "none", error |-> FALSE]]
    /\ term = [e \in Executions |-> "none"]

-----------------------------------------------------------------------------
Fresh(t)     == t # Never /\ tick <= t + Ttl
SbAt(e, l)   == sb[e].step = l
SbMove(e, l) == sb' = [sb EXCEPT ![e].step = l] /\ UNCHANGED <<engine, tick, term>>

\* Where a throw, and the checkpoint of a cancelled run, leads: through the finally that
\* removes the container if there is one, and else to settle.
Thrown(e)    == IF sb[e].box = "up" THEN "cleanup" ELSE "settle"

RunSandbox(e) == SbAt(e, "idle") /\ SbMove(e, "probe") /\ UNCHANGED certs

InspectIdentity(e) ==
    /\ SbAt(e, "probe") /\ ~sb[e].cancelled /\ UNCHANGED <<certs, engine, tick, term>>
    /\ sb' = [sb EXCEPT ![e].step = "match", ![e].seen = engine]

\* Mutant: the certification of another identity serves as well.
MatchAnyIdentity(e) ==
    LET i == sb[e].seen IN
    /\ SbAt(e, "match") /\ ~sb[e].cancelled
    /\ IF Fresh(cert.at) THEN SbMove(e, "prepare") /\ UNCHANGED certs
       ELSE SbMove(e, "flight") /\ certifying' = certifying \cup {i} /\ UNCHANGED <<cert, proved, evidence>>

\* A cached certification that matches serves; else evidence of this identity, if it is
\* fresh; else the certification that is running, or a new one.
MatchCertification(e) ==
    LET i == sb[e].seen IN
    /\ SbAt(e, "match") /\ ~sb[e].cancelled
    /\ IF cert.of = i /\ Fresh(cert.at) THEN SbMove(e, "prepare") /\ UNCHANGED certs
       ELSE IF Fresh(evidence[i])
       THEN SbMove(e, "prepare") /\ cert' = [of |-> i, at |-> evidence[i]] /\ UNCHANGED <<certifying, proved, evidence>>
       ELSE /\ evidence' = [evidence EXCEPT ![i] = Never] /\ certifying' = certifying \cup {i}
            /\ SbMove(e, "flight") /\ UNCHANGED <<cert, proved>>

\* runDockerSandboxHostileCertificationV4 comes to an end for everybody who waits.
CertificationEnds(i) ==
    LET waiting == {e \in Executions : SbAt(e, "flight") /\ sb[e].seen = i} IN
    /\ i \in certifying /\ certifying' = certifying \ {i} /\ UNCHANGED <<engine, tick, term>>
    /\ \/ /\ evidence' = [evidence EXCEPT ![i] = tick] /\ proved' = [proved EXCEPT ![i] = @ \cup {tick}]
          /\ cert' = (IF waiting = {} THEN cert ELSE [of |-> i, at |-> tick])
          /\ sb' = [e \in Executions |-> IF e \in waiting THEN [sb[e] EXCEPT !.step = "prepare"] ELSE sb[e]]
       \/ /\ sb' = [e \in Executions |-> IF e \in waiting THEN [sb[e] EXCEPT !.step = "settle"] ELSE sb[e]]
          /\ UNCHANGED <<evidence, proved, cert>>

\* Mount proofs and network are checked, and the mounts once more.
Prepare(e) == SbAt(e, "prepare") /\ ~sb[e].cancelled /\ SbMove(e, "create") /\ UNCHANGED certs

\* createBrokerOwnedDockerContainerV4, which a cancellation may catch before, in, or after.
CreateContainer(e) ==
    /\ SbAt(e, "create") /\ UNCHANGED <<certs, engine, tick, term>>
    /\ \/ sb' = [sb EXCEPT ![e].step = "up", ![e].box = "up"]
       \/ \E b \in {"none", "left"} : sb' = [sb EXCEPT ![e].step = "settle", ![e].box = b]

StartContainer(e) == SbAt(e, "up") /\ ~sb[e].cancelled /\ SbMove(e, "attach") /\ UNCHANGED certs

\* The process ends, or its deadline does and the container is removed at once.
AttachedEnds(e) ==
    /\ SbAt(e, "attach") /\ UNCHANGED <<certs, engine, tick, term>>
    /\ \E b \in {sb[e].box, "gone"} : sb' = [sb EXCEPT ![e].step = "cleanup", ![e].box = b]

\* Mutant: a run that waits for a certification does not notice that it is cancelled.
StepThrowsNotWaiting(e) ==
    /\ sb[e].step \in {"probe", "match", "prepare", "up"} /\ UNCHANGED certs
    /\ SbMove(e, Thrown(e))

\* cancellationCheckpointV4 of a cancelled run, an aborted signal, or a step that fails: a
\* run that waits for a shared certification stops waiting, the certification goes on.
StepThrows(e) ==
    /\ sb[e].step \in {"probe", "match", "flight", "prepare", "up"} /\ UNCHANGED certs
    /\ sb[e].step = "flight" => sb[e].cancelled
    /\ SbMove(e, Thrown(e))

\* The checkpoint removes the container itself; what that throws is remembered.
CheckpointRemoves(e) ==
    /\ sb[e].cancelled /\ sb[e].step \in {"up", "attach"} /\ UNCHANGED <<certs, engine, tick, term>>
    /\ \/ sb' = [sb EXCEPT ![e].step = "cleanup", ![e].box = "gone"]
       \/ sb' = [sb EXCEPT ![e].step = "cleanup", ![e].error = TRUE]

\* The finally: one more removal; it verifies absence or throws.
Cleanup(e) ==
    /\ SbAt(e, "cleanup") /\ UNCHANGED <<certs, engine, tick, term>>
    /\ \/ sb' = [sb EXCEPT ![e].step = "settle", ![e].box = "gone"]
       \/ sb[e].box = "up" /\ sb' = [sb EXCEPT ![e].step = "settle", ![e].error = TRUE]

Settle(e) == SbAt(e, "settle") /\ SbMove(e, "settled") /\ UNCHANGED certs

-----------------------------------------------------------------------------
(* terminate. *)

\* The controller is there from the moment the container is, until the finally ends.
Terminate(e) ==
    /\ term[e] = "none" /\ sb[e].step # "idle" /\ UNCHANGED <<certs, engine, tick>>
    /\ IF SbAt(e, "settled") THEN term' = [term EXCEPT ![e] = "returned"] /\ UNCHANGED sb
       ELSE /\ sb' = [sb EXCEPT ![e].cancelled = TRUE]
            /\ term' = [term EXCEPT ![e] = IF sb[e].step \in {"up", "attach", "cleanup"} THEN "remove" ELSE "wait"]

TerminateRemoves(e) ==
    /\ term[e] = "remove" /\ term' = [term EXCEPT ![e] = "wait"] /\ UNCHANGED <<certs, engine, tick>>
    /\ \/ sb' = [sb EXCEPT ![e].box = "gone"]
       \/ sb[e].box = "up" /\ sb' = [sb EXCEPT ![e].error = TRUE]

\* Mutant: terminate does not wait for the run.
TerminateEndsEarly(e) ==
    /\ term[e] = "wait" /\ term' = [term EXCEPT ![e] = IF sb[e].error THEN "threw" ELSE "returned"]
    /\ UNCHANGED <<certs, engine, tick, sb>>

TerminateEnds(e) ==
    /\ term[e] = "wait" /\ SbAt(e, "settled")
    /\ term' = [term EXCEPT ![e] = IF sb[e].error THEN "threw" ELSE "returned"]
    /\ UNCHANGED <<certs, engine, tick, sb>>

-----------------------------------------------------------------------------
\* The engine is upgraded, its image or the policy changes.
EngineChanges == engine' \in Identities /\ UNCHANGED <<tick, certs, sb, term>>

TimePasses == tick < MaxTick /\ tick' = tick + 1 /\ UNCHANGED <<engine, certs, sb, term>>

SbStep(e) ==
    \/ InspectIdentity(e) \/ MatchCertification(e) \/ Prepare(e) \/ CreateContainer(e) \/ StartContainer(e)
    \/ AttachedEnds(e) \/ StepThrows(e) \/ CheckpointRemoves(e) \/ Cleanup(e) \/ Settle(e)

SbNext ==
    \/ \E e \in Executions : RunSandbox(e) \/ SbStep(e) \/ Terminate(e) \/ TerminateRemoves(e) \/ TerminateEnds(e)
    \/ \E i \in Identities : CertificationEnds(i)
    \/ EngineChanges \/ TimePasses

SbSpec == SbInit /\ [][SbNext]_sbVars

\* Docker calls and attached processes have deadlines, so a run and a terminate proceed;
\* nothing is assumed of a certification.
SbFair == \A e \in Executions : WF_sbVars(SbStep(e)) /\ WF_sbVars(TerminateRemoves(e) \/ TerminateEnds(e))

\* The state of the executions has its type.
SbTypeOK ==
    /\ engine \in Identities /\ tick \in 0..MaxTick /\ certifying \in SUBSET Identities
    /\ evidence \in [Identities -> 0..MaxTick \cup {Never}] /\ proved \in [Identities -> SUBSET (0..MaxTick)]
    /\ cert \in [of : Identities \cup {Never}, at : 0..MaxTick \cup {Never}]
    /\ sb \in [Executions -> [step : SbSteps, seen : Identities \cup {Never}, cancelled : BOOLEAN,
                              box : {"none", "up", "gone", "left"}, error : BOOLEAN]]
    /\ term \in [Executions -> TermSteps]

\* When terminate returns without an error, the execution is over and nothing can start a
\* container of it any more.  If terminate found the execution in progress, none is up then,
\* whatever failed on either side (one that a create gave up on is left to its record).  A
\* terminate that comes after the run's own finally returns at once: a container it leaves up
\* is one whose removal the run has reported as failed.
TerminatedIsGone ==
    \A e \in Executions : term[e] = "returned" =>
        sb[e].step = "settled" /\ (sb[e].box = "up" => sb[e].error /\ ~sb[e].cancelled)

\* A run gets a container only under a certification that was completed for the very identity
\* its own inspection found, and that had not expired; a certification shared with, or cached
\* by, a run that saw another engine does not do.
CertifiedForItsEngine ==
    [][\A e \in Executions : sb[e].step # "prepare" /\ sb'[e].step = "prepare" =>
         \E t \in proved'[sb[e].seen] : tick <= t + Ttl]_sbVars

\* terminate comes back although the certification its run waits for may never end.
TerminateReturns == \A e \in Executions : term[e] \in {"remove", "wait"} ~> term[e] \in {"returned", "threw"}
=============================================================================
