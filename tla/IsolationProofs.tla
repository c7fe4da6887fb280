--------------------------- MODULE IsolationProofs ----------------------------
(***************************************************************************)
(* The Docker sandbox and the worktree manager, for every number of        *)
(* executions, engines, runs, crashes and failures.                        *)
(*                                                                         *)
(* The argument.  The sandbox: a container is up only while its execution  *)
(* runs or holds it (BoxHeld), terminate returns only for an execution     *)
(* that is over (ReturnedIsOver), and the evidence a run compares was      *)
(* proved for the engine it names (EvidenceProved).  Worktrees: what an    *)
(* apply pass holds in its hands is terminal and past its retention        *)
(* (TodoIsExpired, InHand), a create works on a run nobody knows           *)
(* (CreatesNew) for which the quota has room (RoomLeft); with these        *)
(* TombstoneIsTrue and QuotaKept are inductive.                            *)
(***************************************************************************)
EXTENDS DockerSandbox, Worktree, FiniteSetTheorems, WellFoundedInduction, TLAPS

-----------------------------------------------------------------------------
(* The sandbox. *)

Boxes  == {"none", "up", "gone", "left"}
SbRuns == [step : SbSteps, seen : Identities \cup {Never}, cancelled : BOOLEAN,
           box : Boxes, error : BOOLEAN]

\* A run that compares certifications knows its engine.
SeenBeforeMatch == \A e \in Executions : sb[e].step \in {"match", "flight"} => sb[e].seen \in Identities

SbTyped == SbTypeOK /\ SeenBeforeMatch

\* The types hold before anything has run.
LEMMA SbTypedInit == SbInit => SbTyped
BY SandboxSizes DEF SbInit, SbTyped, SbTypeOK, SeenBeforeMatch, NoCert, SbSteps, TermSteps

\* Every step of a run, a certification or a terminate keeps the types.
LEMMA SbTypedStep == SbTyped /\ [SbNext]_sbVars => SbTyped'
<1> SUFFICES ASSUME SbTyped, [SbNext]_sbVars PROVE SbTyped'  OBVIOUS
<1> DEFINE Runs == [Executions -> SbRuns]
<1> USE SandboxSizes DEF SbAt, SbMove, certs
<1>s. \A l : l \in {"probe", "match", "flight", "prepare", "create", "up", "attach", "cleanup", "settle",
                    "settled"} => l \in SbSteps
    BY DEF SbSteps
<1>b. "none" \in Boxes /\ "up" \in Boxes /\ "gone" \in Boxes /\ "left" \in Boxes  BY DEF Boxes
<1>t. sb \in Runs /\ term \in [Executions -> TermSteps]
    BY DEF SbTyped, SbTypeOK, SbRuns, Boxes
<1>c. /\ engine \in Identities /\ tick \in 0..MaxTick /\ certifying \in SUBSET Identities
      /\ evidence \in [Identities -> 0..MaxTick \cup {Never}] /\ proved \in [Identities -> SUBSET (0..MaxTick)]
      /\ cert \in [of : Identities \cup {Never}, at : 0..MaxTick \cup {Never}]
    BY DEF SbTyped, SbTypeOK
<1>m. \A e \in Executions : sb[e].step \in {"match", "flight"} => sb[e].seen \in Identities
    BY DEF SbTyped, SeenBeforeMatch
<1>e. ASSUME NEW e \in Executions PROVE sb[e].box \in Boxes  BY <1>t DEF SbRuns
<1>e1. \A e \in Executions, l \in SbSteps : [sb EXCEPT ![e].step = l] \in Runs  BY <1>t DEF SbRuns
<1>e2. \A e \in Executions, l \in SbSteps, b \in Boxes : [sb EXCEPT ![e].step = l, ![e].box = b] \in Runs
    BY <1>t DEF SbRuns
<1>e3. \A e \in Executions, l \in SbSteps : [sb EXCEPT ![e].step = l, ![e].error = TRUE] \in Runs
    BY <1>t DEF SbRuns
<1>e4. \A e \in Executions : [sb EXCEPT ![e].step = "match", ![e].seen = engine] \in Runs
    BY <1>s, <1>t, <1>c DEF SbRuns
<1>e5. \A e \in Executions : [sb EXCEPT ![e].cancelled = TRUE] \in Runs  BY <1>t DEF SbRuns
<1>e6. \A e \in Executions : [sb EXCEPT ![e].box = "gone"] \in Runs  BY <1>b, <1>t DEF SbRuns
<1>e7. \A e \in Executions : [sb EXCEPT ![e].error = TRUE] \in Runs  BY <1>t DEF SbRuns
<1> HIDE DEF Runs
<1>q. ASSUME sb' \in Runs, term' \in [Executions -> TermSteps],
             engine' \in Identities, tick' \in 0..MaxTick, certifying' \in SUBSET Identities,
             evidence' \in [Identities -> 0..MaxTick \cup {Never}], proved' \in [Identities -> SUBSET (0..MaxTick)],
             cert' \in [of : Identities \cup {Never}, at : 0..MaxTick \cup {Never}],
             SeenBeforeMatch'
      PROVE  SbTyped'
    BY <1>q DEF SbTyped, SbTypeOK, SbRuns, Boxes, Runs
<1>1. ASSUME NEW e \in Executions, RunSandbox(e) PROVE SbTyped'
    <2>1. sb' \in Runs  BY <1>s, <1>b, <1>t, <1>1, <1>e1 DEF RunSandbox
    <2>2. SeenBeforeMatch'  BY <1>t, <1>m, <1>c, <1>1 DEF RunSandbox, SeenBeforeMatch, SbRuns, Runs
    <2> QED  BY <1>q, <1>t, <1>c, <1>m, <1>1, <2>1, <2>2 DEF RunSandbox
<1>2. ASSUME NEW e \in Executions, InspectIdentity(e) PROVE SbTyped'
    <2>1. sb' \in Runs  BY <1>s, <1>b, <1>t, <1>2, <1>e4 DEF InspectIdentity
    <2>2. SeenBeforeMatch'  BY <1>t, <1>m, <1>c, <1>2 DEF InspectIdentity, SeenBeforeMatch, SbRuns, Runs
    <2> QED  BY <1>q, <1>t, <1>c, <1>m, <1>2, <2>1, <2>2 DEF InspectIdentity
<1>3. ASSUME NEW e \in Executions, MatchCertification(e) PROVE SbTyped'
    <2>1. sb' \in Runs  BY <1>s, <1>b, <1>t, <1>3, <1>e1 DEF MatchCertification, Fresh
    <2>2. SeenBeforeMatch'  BY <1>t, <1>m, <1>c, <1>3 DEF MatchCertification, Fresh, SeenBeforeMatch, SbRuns, Runs
    <2> QED  BY <1>q, <1>t, <1>c, <1>m, <1>3, <2>1, <2>2 DEF MatchCertification, Fresh
<1>4. ASSUME NEW e \in Executions, Prepare(e) PROVE SbTyped'
    <2>1. sb' \in Runs  BY <1>s, <1>b, <1>t, <1>4, <1>e1 DEF Prepare
    <2>2. SeenBeforeMatch'  BY <1>t, <1>m, <1>c, <1>4 DEF Prepare, SeenBeforeMatch, SbRuns, Runs
    <2> QED  BY <1>q, <1>t, <1>c, <1>m, <1>4, <2>1, <2>2 DEF Prepare
<1>5. ASSUME NEW e \in Executions, CreateContainer(e) PROVE SbTyped'
    <2>1. sb' \in Runs  BY <1>s, <1>b, <1>t, <1>5, <1>e2 DEF CreateContainer
    <2>2. SeenBeforeMatch'  BY <1>t, <1>m, <1>c, <1>5 DEF CreateContainer, SeenBeforeMatch, SbRuns, Runs
    <2> QED  BY <1>q, <1>t, <1>c, <1>m, <1>5, <2>1, <2>2 DEF CreateContainer
<1>6. ASSUME NEW e \in Executions, StartContainer(e) PROVE SbTyped'
    <2>1. sb' \in Runs  BY <1>s, <1>b, <1>t, <1>6, <1>e1 DEF StartContainer
    <2>2. SeenBeforeMatch'  BY <1>t, <1>m, <1>c, <1>6 DEF StartContainer, SeenBeforeMatch, SbRuns, Runs
    <2> QED  BY <1>q, <1>t, <1>c, <1>m, <1>6, <2>1, <2>2 DEF StartContainer
<1>7. ASSUME NEW e \in Executions, AttachedEnds(e) PROVE SbTyped'
    <2>0. PICK b \in {sb[e].box, "gone"} : sb' = [sb EXCEPT ![e].step = "cleanup", ![e].box = b]
        BY <1>7 DEF AttachedEnds
    <2>1. sb' \in Runs  BY <1>s, <1>b, <1>e2, <1>e, <2>0
    <2>2. SeenBeforeMatch'  BY <1>t, <1>m, <1>c, <1>7 DEF AttachedEnds, SeenBeforeMatch, SbRuns, Runs
    <2> QED  BY <1>q, <1>t, <1>c, <1>m, <1>7, <2>1, <2>2 DEF AttachedEnds
<1>8. ASSUME NEW e \in Executions, StepThrows(e) PROVE SbTyped'
    <2>1. sb' \in Runs  BY <1>s, <1>b, <1>t, <1>8, <1>e1 DEF StepThrows, Thrown
    <2>2. SeenBeforeMatch'  BY <1>t, <1>m, <1>c, <1>8 DEF StepThrows, Thrown, SeenBeforeMatch, SbRuns, Runs
    <2> QED  BY <1>q, <1>t, <1>c, <1>m, <1>8, <2>1, <2>2 DEF StepThrows, Thrown
<1>9. ASSUME NEW e \in Executions, CheckpointRemoves(e) PROVE SbTyped'
    <2>0. \/ sb' = [sb EXCEPT ![e].step = "cleanup", ![e].box = "gone"]
          \/ sb' = [sb EXCEPT ![e].step = "cleanup", ![e].error = TRUE]
        BY <1>9 DEF CheckpointRemoves
    <2>1. sb' \in Runs  BY <1>s, <1>b, <1>e2, <1>e3, <2>0
    <2>2. SeenBeforeMatch'  BY <1>t, <1>m, <1>c, <1>9 DEF CheckpointRemoves, SeenBeforeMatch, SbRuns, Runs
    <2> QED  BY <1>q, <1>t, <1>c, <1>m, <1>9, <2>1, <2>2 DEF CheckpointRemoves
<1>10. ASSUME NEW e \in Executions, Cleanup(e) PROVE SbTyped'
    <2>1. sb' \in Runs  BY <1>s, <1>b, <1>t, <1>10, <1>e2, <1>e3 DEF Cleanup
    <2>2. SeenBeforeMatch'  BY <1>t, <1>m, <1>c, <1>10 DEF Cleanup, SeenBeforeMatch, SbRuns, Runs
    <2> QED  BY <1>q, <1>t, <1>c, <1>m, <1>10, <2>1, <2>2 DEF Cleanup
<1>11. ASSUME NEW e \in Executions, Settle(e) PROVE SbTyped'
    <2>1. sb' \in Runs  BY <1>s, <1>b, <1>t, <1>11, <1>e1 DEF Settle
    <2>2. SeenBeforeMatch'  BY <1>t, <1>m, <1>c, <1>11 DEF Settle, SeenBeforeMatch, SbRuns, Runs
    <2> QED  BY <1>q, <1>t, <1>c, <1>m, <1>11, <2>1, <2>2 DEF Settle
<1>12. ASSUME NEW e \in Executions, Terminate(e) PROVE SbTyped'
    <2>1. sb' \in Runs  BY <1>s, <1>b, <1>t, <1>12, <1>e5 DEF Terminate
    <2>0. \A f \in Executions : sb'[f].step = sb[f].step /\ sb'[f].seen = sb[f].seen
        BY <1>t, <1>12 DEF Terminate, SbRuns, Runs
    <2>2. SeenBeforeMatch'  BY <1>m, <2>0 DEF SeenBeforeMatch
    <2> QED  BY <1>q, <1>t, <1>c, <1>m, <1>12, <2>1, <2>2 DEF Terminate, TermSteps
<1>13. ASSUME NEW e \in Executions, TerminateRemoves(e) PROVE SbTyped'
    <2>1. sb' \in Runs  BY <1>s, <1>b, <1>t, <1>13, <1>e6, <1>e7 DEF TerminateRemoves
    <2>0. \A f \in Executions : sb'[f].step = sb[f].step /\ sb'[f].seen = sb[f].seen
        BY <1>t, <1>13 DEF TerminateRemoves, SbRuns, Runs
    <2>2. SeenBeforeMatch'  BY <1>m, <2>0 DEF SeenBeforeMatch
    <2> QED  BY <1>q, <1>t, <1>c, <1>m, <1>13, <2>1, <2>2 DEF TerminateRemoves, TermSteps
<1>14. ASSUME NEW e \in Executions, TerminateEnds(e) PROVE SbTyped'
    <2>1. sb' \in Runs  BY <1>t, <1>14 DEF TerminateEnds
    <2>2. SeenBeforeMatch'  BY <1>t, <1>m, <1>c, <1>14 DEF TerminateEnds, SeenBeforeMatch, SbRuns, Runs
    <2> QED  BY <1>q, <1>t, <1>c, <1>m, <1>14, <2>1, <2>2 DEF TerminateEnds, TermSteps
<1>15. ASSUME NEW i \in Identities, CertificationEnds(i) PROVE SbTyped'
    <2>0. \A e \in Executions : /\ [sb[e] EXCEPT !.step = "prepare"] \in SbRuns
                               /\ [sb[e] EXCEPT !.step = "settle"] \in SbRuns
        BY <1>s, <1>t DEF SbRuns, Runs
    <2>1. sb' \in Runs  BY <1>t, <1>15, <2>0 DEF CertificationEnds, Runs
    <2>2. SeenBeforeMatch'
        BY <1>t, <1>m, <1>15 DEF CertificationEnds, SeenBeforeMatch, SbRuns, Runs
    <2>3. /\ evidence' \in [Identities -> 0..MaxTick \cup {Never}] /\ proved' \in [Identities -> SUBSET (0..MaxTick)]
          /\ cert' \in [of : Identities \cup {Never}, at : 0..MaxTick \cup {Never}]
        BY <1>c, <1>15 DEF CertificationEnds
    <2> QED  BY <1>q, <1>t, <1>c, <1>15, <2>1, <2>2, <2>3 DEF CertificationEnds
<1>16. CASE EngineChanges \/ TimePasses
    BY <1>q, <1>t, <1>m, <1>c, <1>16 DEF EngineChanges, TimePasses, SeenBeforeMatch
<1>17. CASE UNCHANGED sbVars
    BY <1>q, <1>t, <1>m, <1>c, <1>17 DEF sbVars, SeenBeforeMatch
<1> QED
    BY <1>1, <1>2, <1>3, <1>4, <1>5, <1>6, <1>7, <1>8, <1>9, <1>10, <1>11, <1>12, <1>13, <1>14, <1>15,
       <1>16, <1>17 DEF SbNext, SbStep

\* A container that is up belongs to a run that has not come to its end, or to one that
\* knows its removal failed.
BoxHeld ==
    \A e \in Executions : sb[e].box = "up" =>
        sb[e].step \in {"up", "attach", "cleanup"} \/ (sb[e].step \in {"settle", "settled"} /\ sb[e].error)

\* terminate returns for runs that are over.
ReturnedIsOver == \A e \in Executions : term[e] = "returned" => sb[e].step = "settled"

\* Every step keeps both.
LEMMA SbSafeStep == SbTyped /\ BoxHeld /\ ReturnedIsOver /\ [SbNext]_sbVars => BoxHeld' /\ ReturnedIsOver'
<1> SUFFICES ASSUME SbTyped, BoxHeld, ReturnedIsOver, [SbNext]_sbVars PROVE BoxHeld' /\ ReturnedIsOver'
    OBVIOUS
<1>t. sb \in [Executions -> SbRuns] /\ term \in [Executions -> TermSteps]
    BY DEF SbTyped, SbTypeOK, SbRuns, Boxes
<1>q. ASSUME NEW e \in Executions,
             \A f \in Executions \ {e} : sb'[f] = sb[f] /\ term'[f] = term[f],
             /\ sb'[e].box = "up" =>
                    \/ sb'[e].step \in {"up", "attach", "cleanup"}
                    \/ sb'[e].step \in {"settle", "settled"} /\ sb'[e].error
             /\ term'[e] = "returned" => sb'[e].step = "settled"
      PROVE  BoxHeld' /\ ReturnedIsOver'
    BY <1>q DEF BoxHeld, ReturnedIsOver
<1> USE DEF SbAt, SbMove
<1>1. ASSUME NEW e \in Executions, RunSandbox(e) PROVE BoxHeld' /\ ReturnedIsOver'
    <2>1. \A f \in Executions \ {e} : sb'[f] = sb[f] /\ term'[f] = term[f]
        BY <1>t, <1>1 DEF RunSandbox
    <2>2. sb[e].step = "idle" /\ sb'[e].step = "probe" /\ sb'[e].box = sb[e].box /\ sb'[e].error = sb[e].error
        BY <1>t, <1>1 DEF RunSandbox, SbRuns
    <2> QED  BY <1>q, <1>t, <1>1, <2>1, <2>2 DEF BoxHeld, ReturnedIsOver, RunSandbox
<1>2. ASSUME NEW e \in Executions, InspectIdentity(e) PROVE BoxHeld' /\ ReturnedIsOver'
    <2>1. \A f \in Executions \ {e} : sb'[f] = sb[f] /\ term'[f] = term[f]
        BY <1>t, <1>2 DEF InspectIdentity
    <2>2. sb[e].step = "probe" /\ sb'[e].step = "match" /\ sb'[e].box = sb[e].box /\ sb'[e].error = sb[e].error
        BY <1>t, <1>2 DEF InspectIdentity, SbRuns
    <2> QED  BY <1>q, <1>t, <1>2, <2>1, <2>2 DEF BoxHeld, ReturnedIsOver, InspectIdentity
<1>3. ASSUME NEW e \in Executions, MatchCertification(e) PROVE BoxHeld' /\ ReturnedIsOver'
    <2>1. \A f \in Executions \ {e} : sb'[f] = sb[f] /\ term'[f] = term[f]
        BY <1>t, <1>3 DEF MatchCertification, Fresh
    <2>2. sb[e].step = "match" /\ sb'[e].step \in {"prepare", "flight"} /\ sb'[e].box = sb[e].box /\ sb'[e].error = sb[e].error
        BY <1>t, <1>3 DEF MatchCertification, Fresh, SbRuns
    <2> QED  BY <1>q, <1>t, <1>3, <2>1, <2>2 DEF BoxHeld, ReturnedIsOver, MatchCertification, Fresh
<1>4. ASSUME NEW e \in Executions, Prepare(e) PROVE BoxHeld' /\ ReturnedIsOver'
    <2>1. \A f \in Executions \ {e} : sb'[f] = sb[f] /\ term'[f] = term[f]
        BY <1>t, <1>4 DEF Prepare
    <2>2. sb[e].step = "prepare" /\ sb'[e].step = "create" /\ sb'[e].box = sb[e].box /\ sb'[e].error = sb[e].error
        BY <1>t, <1>4 DEF Prepare, SbRuns
    <2> QED  BY <1>q, <1>t, <1>4, <2>1, <2>2 DEF BoxHeld, ReturnedIsOver, Prepare
<1>5. ASSUME NEW e \in Executions, CreateContainer(e) PROVE BoxHeld' /\ ReturnedIsOver'
    <2>1. \A f \in Executions \ {e} : sb'[f] = sb[f] /\ term'[f] = term[f]
        BY <1>t, <1>5 DEF CreateContainer
    <2>2. /\ sb[e].step = "create" /\ sb'[e].step \in {"up", "settle"}
          /\ sb'[e].box = "up" => sb'[e].step = "up"
        BY <1>t, <1>5 DEF CreateContainer, SbRuns
    <2> QED  BY <1>q, <1>t, <1>5, <2>1, <2>2 DEF BoxHeld, ReturnedIsOver, CreateContainer
<1>6. ASSUME NEW e \in Executions, StartContainer(e) PROVE BoxHeld' /\ ReturnedIsOver'
    <2>1. \A f \in Executions \ {e} : sb'[f] = sb[f] /\ term'[f] = term[f]
        BY <1>t, <1>6 DEF StartContainer
    <2>2. sb[e].step = "up" /\ sb'[e].step = "attach" /\ sb'[e].box = sb[e].box /\ sb'[e].error = sb[e].error
        BY <1>t, <1>6 DEF StartContainer, SbRuns
    <2> QED  BY <1>q, <1>t, <1>6, <2>1, <2>2 DEF BoxHeld, ReturnedIsOver, StartContainer
<1>7. ASSUME NEW e \in Executions, AttachedEnds(e) PROVE BoxHeld' /\ ReturnedIsOver'
    <2>1. \A f \in Executions \ {e} : sb'[f] = sb[f] /\ term'[f] = term[f]
        BY <1>t, <1>7 DEF AttachedEnds
    <2>2. sb[e].step = "attach" /\ sb'[e].step = "cleanup"
        BY <1>t, <1>7 DEF AttachedEnds, SbRuns
    <2> QED  BY <1>q, <1>t, <1>7, <2>1, <2>2 DEF BoxHeld, ReturnedIsOver, AttachedEnds
<1>8. ASSUME NEW e \in Executions, StepThrows(e) PROVE BoxHeld' /\ ReturnedIsOver'
    <2>1. \A f \in Executions \ {e} : sb'[f] = sb[f] /\ term'[f] = term[f]
        BY <1>t, <1>8 DEF StepThrows, Thrown
    <2>2. /\ sb[e].step \notin {"settle", "settled"} /\ sb'[e].box = sb[e].box /\ sb'[e].error = sb[e].error
          /\ sb[e].box = "up" => sb'[e].step = "cleanup"
        BY <1>t, <1>8 DEF StepThrows, Thrown, SbRuns
    <2> QED  BY <1>q, <1>t, <1>8, <2>1, <2>2 DEF BoxHeld, ReturnedIsOver, StepThrows, Thrown
<1>9. ASSUME NEW e \in Executions, CheckpointRemoves(e) PROVE BoxHeld' /\ ReturnedIsOver'
    <2>1. \A f \in Executions \ {e} : sb'[f] = sb[f] /\ term'[f] = term[f]
        BY <1>t, <1>9 DEF CheckpointRemoves
    <2>2. sb[e].step \in {"up", "attach"} /\ sb'[e].step = "cleanup"
        BY <1>t, <1>9 DEF CheckpointRemoves, SbRuns
    <2> QED  BY <1>q, <1>t, <1>9, <2>1, <2>2 DEF BoxHeld, ReturnedIsOver, CheckpointRemoves
<1>10. ASSUME NEW e \in Executions, Cleanup(e) PROVE BoxHeld' /\ ReturnedIsOver'
    <2>1. \A f \in Executions \ {e} : sb'[f] = sb[f] /\ term'[f] = term[f]
        BY <1>t, <1>10 DEF Cleanup
    <2>2. /\ sb[e].step = "cleanup" /\ sb'[e].step = "settle"
          /\ sb'[e].box = "gone" \/ sb'[e].error
        BY <1>t, <1>10 DEF Cleanup, SbRuns
    <2> QED  BY <1>q, <1>t, <1>10, <2>1, <2>2 DEF BoxHeld, ReturnedIsOver, Cleanup
<1>11. ASSUME NEW e \in Executions, Settle(e) PROVE BoxHeld' /\ ReturnedIsOver'
    <2>1. \A f \in Executions \ {e} : sb'[f] = sb[f] /\ term'[f] = term[f]
        BY <1>t, <1>11 DEF Settle
    <2>2. sb[e].step = "settle" /\ sb'[e].step = "settled" /\ sb'[e].box = sb[e].box /\ sb'[e].error = sb[e].error
        BY <1>t, <1>11 DEF Settle, SbRuns
    <2> QED  BY <1>q, <1>t, <1>11, <2>1, <2>2 DEF BoxHeld, ReturnedIsOver, Settle
<1>12. ASSUME NEW e \in Executions, Terminate(e) PROVE BoxHeld' /\ ReturnedIsOver'
    <2>1. \A f \in Executions \ {e} : sb'[f] = sb[f] /\ term'[f] = term[f]
        BY <1>t, <1>12 DEF Terminate
    <2>2. /\ sb'[e].step = sb[e].step /\ sb'[e].box = sb[e].box /\ sb'[e].error = sb[e].error
          /\ term'[e] = "returned" => sb[e].step = "settled"
        BY <1>t, <1>12 DEF Terminate, SbRuns
    <2> QED  BY <1>q, <1>t, <1>12, <2>1, <2>2 DEF BoxHeld, ReturnedIsOver, Terminate
<1>13. ASSUME NEW e \in Executions, TerminateRemoves(e) PROVE BoxHeld' /\ ReturnedIsOver'
    <2>1. \A f \in Executions \ {e} : sb'[f] = sb[f] /\ term'[f] = term[f]
        BY <1>t, <1>13 DEF TerminateRemoves
    <2>2. /\ sb'[e].step = sb[e].step /\ term'[e] = "wait"
          /\ sb'[e].box = "gone" \/ (sb'[e].box = sb[e].box /\ sb'[e].error)
        BY <1>t, <1>13 DEF TerminateRemoves, SbRuns
    <2> QED  BY <1>q, <1>t, <1>13, <2>1, <2>2 DEF BoxHeld, ReturnedIsOver, TerminateRemoves
<1>14. ASSUME NEW e \in Executions, TerminateEnds(e) PROVE BoxHeld' /\ ReturnedIsOver'
    <2>1. \A f \in Executions \ {e} : sb'[f] = sb[f] /\ term'[f] = term[f]
        BY <1>t, <1>14 DEF TerminateEnds
    <2>2. sb' = sb /\ sb[e].step = "settled"
        BY <1>t, <1>14 DEF TerminateEnds, SbRuns
    <2> QED  BY <1>q, <1>t, <1>14, <2>1, <2>2 DEF BoxHeld, ReturnedIsOver, TerminateEnds
<1>15. ASSUME NEW i \in Identities, CertificationEnds(i) PROVE BoxHeld' /\ ReturnedIsOver'
    <2>1. ASSUME NEW e \in Executions
          PROVE  /\ sb'[e].box = sb[e].box /\ sb'[e].error = sb[e].error
                 /\ sb'[e].step = sb[e].step \/ sb[e].step = "flight"
        BY <1>t, <1>15 DEF CertificationEnds, SbRuns
    <2>2. term' = term  BY <1>15 DEF CertificationEnds
    <2> QED  BY <2>1, <2>2 DEF BoxHeld, ReturnedIsOver
<1>16. CASE EngineChanges \/ TimePasses \/ UNCHANGED sbVars
    BY <1>16 DEF EngineChanges, TimePasses, sbVars, BoxHeld, ReturnedIsOver
<1> QED
    BY <1>1, <1>2, <1>3, <1>4, <1>5, <1>6, <1>7, <1>8, <1>9, <1>10, <1>11, <1>12, <1>13, <1>14, <1>15,
       <1>16 DEF SbNext, SbStep

\* Only terminate cancels a run, and it does not return for one it cancelled whose removal
\* failed.
CancelledClean ==
    \A e \in Executions :
        /\ term[e] = "none" => ~sb[e].cancelled
        /\ term[e] = "returned" /\ sb[e].cancelled => ~sb[e].error

\* What a step may do with one execution.
CancelsWell(e) ==
    \/ sb'[e].cancelled = sb[e].cancelled /\ sb'[e].error = sb[e].error /\ term'[e] = term[e]
    \/ sb[e].step # "settled" /\ term'[e] = term[e] /\ sb'[e].cancelled = sb[e].cancelled
    \/ term'[e] \in {"remove", "wait", "threw"}
    \/ term'[e] = "returned" /\ (~sb'[e].cancelled \/ ~sb'[e].error)

\* Every step keeps it: what is over does not move, and terminate throws what it remembers.
LEMMA CancelledStep == SbTyped /\ ReturnedIsOver /\ CancelledClean /\ [SbNext]_sbVars => CancelledClean'
<1> SUFFICES ASSUME SbTyped, ReturnedIsOver, CancelledClean, [SbNext]_sbVars PROVE CancelledClean'
    OBVIOUS
<1>t. sb \in [Executions -> SbRuns] /\ term \in [Executions -> TermSteps]
    BY DEF SbTyped, SbTypeOK, SbRuns, Boxes
<1>q. ASSUME NEW e \in Executions, CancelsWell(e)
      PROVE  /\ term'[e] = "none" => ~sb'[e].cancelled
             /\ term'[e] = "returned" /\ sb'[e].cancelled => ~sb'[e].error
    <2>1. /\ term[e] = "none" => ~sb[e].cancelled
          /\ term[e] = "returned" /\ sb[e].cancelled => ~sb[e].error
          /\ term[e] = "returned" => sb[e].step = "settled"
        BY DEF CancelledClean, ReturnedIsOver
    <2> QED  BY <1>q, <2>1 DEF CancelsWell
<1>c. (\A e \in Executions : CancelsWell(e)) => CancelledClean'
    BY <1>q DEF CancelledClean
<1>f. ASSUME NEW e \in Executions, CancelsWell(e),
             \A f \in Executions \ {e} : sb'[f] = sb[f] /\ term'[f] = term[f]
      PROVE  CancelledClean'
    <2>1. ASSUME NEW f \in Executions PROVE CancelsWell(f)
        <3>1. CASE f = e  BY <1>f, <3>1
        <3>2. CASE f # e  BY <1>f, <3>2 DEF CancelsWell
        <3> QED  BY <3>1, <3>2
    <2> QED  BY <1>c, <2>1
<1> USE DEF SbAt, SbMove
<1>1. ASSUME NEW e \in Executions,
             RunSandbox(e) \/ InspectIdentity(e) \/ MatchCertification(e) \/ Prepare(e) \/ StartContainer(e) \/ Settle(e)
      PROVE  CancelledClean'
    <2>1. \A f \in Executions : /\ sb'[f].cancelled = sb[f].cancelled /\ sb'[f].error = sb[f].error
                                /\ term'[f] = term[f]
        BY <1>1, <1>t DEF RunSandbox, InspectIdentity, MatchCertification, Prepare, StartContainer, Settle, SbRuns
    <2>2. \A f \in Executions : CancelsWell(f)  BY <2>1 DEF CancelsWell
    <2> QED  BY <1>c, <2>2
<1>2. ASSUME NEW e \in Executions,
             CreateContainer(e) \/ AttachedEnds(e) \/ StepThrows(e) \/ CheckpointRemoves(e) \/ Cleanup(e)
      PROVE  CancelledClean'
    <2>1. sb[e].step # "settled" /\ sb'[e].cancelled = sb[e].cancelled /\ term' = term
        BY <1>2, <1>t DEF CreateContainer, AttachedEnds, StepThrows, CheckpointRemoves, Cleanup, SbRuns
    <2>2. \A f \in Executions \ {e} : sb'[f] = sb[f]
        BY <1>2, <1>t DEF CreateContainer, AttachedEnds, StepThrows, CheckpointRemoves, Cleanup
    <2>3. CancelsWell(e)  BY <2>1 DEF CancelsWell
    <2> QED  BY <1>f, <2>1, <2>2, <2>3
<1>3. ASSUME NEW e \in Executions, Terminate(e) PROVE CancelledClean'
    <2>1. \A f \in Executions \ {e} : sb'[f] = sb[f] /\ term'[f] = term[f]  BY <1>3, <1>t DEF Terminate
    <2>2. \/ term'[e] \in {"remove", "wait"}
          \/ term'[e] = "returned" /\ sb' = sb /\ term[e] = "none"
        BY <1>3, <1>t DEF Terminate
    <2>3. term[e] = "none" => ~sb[e].cancelled  BY DEF CancelledClean
    <2>4. CancelsWell(e)  BY <2>2, <2>3 DEF CancelsWell
    <2> QED  BY <1>f, <2>1, <2>4
<1>4. ASSUME NEW e \in Executions, TerminateRemoves(e) \/ TerminateEnds(e) PROVE CancelledClean'
    <2>1. \A f \in Executions \ {e} : sb'[f] = sb[f] /\ term'[f] = term[f]
        BY <1>4, <1>t DEF TerminateRemoves, TerminateEnds
    <2>2. term'[e] \in {"wait", "threw"} \/ (term'[e] = "returned" /\ ~sb'[e].error)
        BY <1>4, <1>t DEF TerminateRemoves, TerminateEnds
    <2>3. CancelsWell(e)  BY <2>2 DEF CancelsWell
    <2> QED  BY <1>f, <2>1, <2>3
<1>5. ASSUME NEW i \in Identities, CertificationEnds(i) PROVE CancelledClean'
    <2>1. \A e \in Executions : sb'[e].cancelled = sb[e].cancelled /\ sb'[e].error = sb[e].error
        BY <1>5, <1>t DEF CertificationEnds, SbRuns
    <2>2. term' = term  BY <1>5 DEF CertificationEnds
    <2>3. \A e \in Executions : CancelsWell(e)  BY <2>1, <2>2 DEF CancelsWell
    <2> QED  BY <1>c, <2>3
<1>6. CASE EngineChanges \/ TimePasses \/ UNCHANGED sbVars
    <2>1. \A e \in Executions : CancelsWell(e)
        BY <1>6 DEF EngineChanges, TimePasses, sbVars, CancelsWell
    <2> QED  BY <1>c, <2>1
<1> QED  BY <1>1, <1>2, <1>3, <1>4, <1>5, <1>6 DEF SbNext, SbStep

\* Every variable of the sandbox has its type.
THEOREM SandboxTyped == SbSpec => []SbTypeOK
<1>1. SbTyped => SbTypeOK  BY DEF SbTyped
<1> QED  BY <1>1, SbTypedInit, SbTypedStep, PTL DEF SbSpec

\* Whatever a terminate meets - a probe, a shared certification, a create in progress, a
\* removal that fails - when it returns without an error the run is over, and no container of
\* it is up unless terminate came after a run that had failed to remove its own (terminate
\* and the finally of runDockerSandboxCandidateOwnedV4).
THEOREM TerminateIsFinal == SbSpec => []TerminatedIsGone
<1>1. SbInit => BoxHeld /\ ReturnedIsOver /\ CancelledClean
    BY DEF SbInit, BoxHeld, ReturnedIsOver, CancelledClean
<1>2. BoxHeld /\ ReturnedIsOver /\ CancelledClean => TerminatedIsGone
    BY DEF BoxHeld, ReturnedIsOver, CancelledClean, TerminatedIsGone
<1> QED  BY <1>1, <1>2, SbTypedInit, SbTypedStep, SbSafeStep, CancelledStep, PTL DEF SbSpec

-----------------------------------------------------------------------------
(* The certifications. *)

\* What the process remembers of a certification - evidence by identity, and the cached
\* certification - is a certification that completed for that identity.
EvidenceProved == \A i \in Identities : evidence[i] # Never => evidence[i] \in proved[i]
CachedProved   == cert.at # Never => cert.of \in Identities /\ cert.at \in proved[cert.of]

\* Remembered certifications stay proved: only completed ones are remembered, and what is
\* proved stays so.
LEMMA CertsStep ==
    SbTyped /\ EvidenceProved /\ CachedProved /\ [SbNext]_sbVars => EvidenceProved' /\ CachedProved'
<1> SUFFICES ASSUME SbTyped, EvidenceProved, CachedProved, [SbNext]_sbVars
             PROVE  EvidenceProved' /\ CachedProved'
    OBVIOUS
<1>t. /\ evidence \in [Identities -> 0..MaxTick \cup {Never}] /\ proved \in [Identities -> SUBSET (0..MaxTick)]
      /\ tick \in 0..MaxTick
      /\ \A e \in Executions : sb[e].step = "match" => sb[e].seen \in Identities
    BY DEF SbTyped, SbTypeOK, SeenBeforeMatch
<1> USE DEF EvidenceProved, CachedProved
<1>1. ASSUME NEW e \in Executions, MatchCertification(e) PROVE EvidenceProved' /\ CachedProved'
    BY <1>1, <1>t DEF MatchCertification, Fresh, certs, SbAt
<1>2. ASSUME NEW i \in Identities, CertificationEnds(i) PROVE EvidenceProved' /\ CachedProved'
    BY <1>2, <1>t DEF CertificationEnds
<1>3. CASE UNCHANGED certs  BY <1>3 DEF certs
<1> HIDE DEF EvidenceProved, CachedProved
<1> QED
    BY <1>1, <1>2, <1>3 DEF SbNext, SbStep, RunSandbox, InspectIdentity, Prepare, CreateContainer, StartContainer,
       AttachedEnds, StepThrows, CheckpointRemoves, Cleanup, Settle, Terminate, TerminateRemoves, TerminateEnds,
       EngineChanges, TimePasses, sbVars, certs

\* A run enters "prepare" only with a certification that was completed for the identity its
\* own inspection found and that has not expired (probeOwned, runSingleFlightHostileCertificationV4).
THEOREM RunsAreCertified == SbSpec => CertifiedForItsEngine
<1>1. SbInit => EvidenceProved /\ CachedProved
    BY DEF SbInit, EvidenceProved, CachedProved, NoCert
<1>2. ASSUME SbTyped, EvidenceProved, CachedProved, [SbNext]_sbVars
      PROVE  [\A e \in Executions : sb[e].step # "prepare" /\ sb'[e].step = "prepare" =>
                  \E t \in proved'[sb[e].seen] : tick <= t + Ttl]_sbVars
    <2>t. /\ sb \in [Executions -> SbRuns] /\ tick \in 0..MaxTick
          /\ evidence \in [Identities -> 0..MaxTick \cup {Never}] /\ proved \in [Identities -> SUBSET (0..MaxTick)]
          /\ \A e \in Executions : sb[e].step = "match" => sb[e].seen \in Identities
        BY <1>2 DEF SbTyped, SbTypeOK, SbRuns, Boxes, SeenBeforeMatch
    <2> DEFINE Certified(e) == sb[e].step # "prepare" /\ sb'[e].step = "prepare" =>
                                   \E t \in proved'[sb[e].seen] : tick <= t + Ttl
    <2>1. ASSUME NEW d \in Executions, MatchCertification(d), NEW e \in Executions PROVE Certified(e)
        <3>1. CASE e # d  BY <2>1, <2>t, <3>1 DEF MatchCertification, SbMove
        <3>2. CASE e = d
            <4>1. sb[e].seen \in Identities /\ proved' = proved
                BY <2>1, <2>t, <3>2 DEF MatchCertification, SbAt, certs
            <4>2. CASE cert.of = sb[e].seen /\ Fresh(cert.at)
                BY <1>2, <4>1, <4>2 DEF Fresh, CachedProved
            <4>3. CASE Fresh(evidence[sb[e].seen])
                BY <1>2, <4>1, <4>3 DEF Fresh, EvidenceProved
            <4>4. CASE sb'[e].step = "flight"  BY <4>4
            <4> QED  BY <2>1, <2>t, <3>2, <4>2, <4>3, <4>4 DEF MatchCertification, SbMove, SbRuns
        <3> QED  BY <3>1, <3>2
    <2>2. ASSUME NEW i \in Identities, CertificationEnds(i), NEW e \in Executions PROVE Certified(e)
        <3>1. sb'[e].step # "prepare" \/ sb'[e].step = sb[e].step \/ (sb[e].seen = i /\ tick \in proved'[i])
            BY <2>2, <2>t DEF CertificationEnds, SbRuns
        <3>2. tick <= tick + Ttl  BY <2>t, SandboxSizes
        <3> QED  BY <3>1, <3>2
    <2>3. ASSUME NEW d \in Executions, NEW e \in Executions,
                 RunSandbox(d) \/ InspectIdentity(d) \/ Prepare(d) \/ StartContainer(d) \/ StepThrows(d) \/ Settle(d)
          PROVE  Certified(e)
        BY <2>3, <2>t DEF RunSandbox, InspectIdentity, Prepare, StartContainer, StepThrows, Settle, Thrown, SbMove, SbRuns
    <2>4. ASSUME NEW d \in Executions, NEW e \in Executions,
                 CreateContainer(d) \/ AttachedEnds(d) \/ CheckpointRemoves(d) \/ Cleanup(d)
          PROVE  Certified(e)
        BY <2>4, <2>t DEF CreateContainer, AttachedEnds, CheckpointRemoves, Cleanup, SbRuns
    <2>5. ASSUME NEW d \in Executions, NEW e \in Executions,
                 Terminate(d) \/ TerminateRemoves(d) \/ TerminateEnds(d)
          PROVE  Certified(e)
        BY <2>5, <2>t DEF Terminate, TerminateRemoves, TerminateEnds, SbRuns
    <2>6. ASSUME NEW e \in Executions, EngineChanges \/ TimePasses PROVE Certified(e)
        BY <2>6 DEF EngineChanges, TimePasses
    <2> HIDE DEF Certified
    <2>7. (\A e \in Executions : Certified(e)) \/ UNCHANGED sbVars
        BY <1>2, <2>1, <2>2, <2>3, <2>4, <2>5, <2>6 DEF SbNext, SbStep
    <2> QED  BY <2>7 DEF Certified
<1> QED  BY <1>1, <1>2, SbTypedInit, SbTypedStep, CertsStep, PTL DEF SbSpec, CertifiedForItsEngine

-----------------------------------------------------------------------------
(* Worktrees. *)

WtTrees      == [registered : BOOLEAN, onDisk : BOOLEAN, dirty : BOOLEAN, branch : BOOLEAN]
Operations == [step : WtSteps, op : {"none", "create", "reconcile", "terminal"}, run : WtRuns,
               todo : SUBSET WtRuns, forced : SUBSET WtRuns]

\* A set of runs has a first one.
LEMMA FirstRun == ASSUME NEW T \in SUBSET WtRuns, T # {} PROVE \E r \in T : \A s \in T : r <= s
<1>1. T \subseteq Nat  BY RunsAssumption
<1>2. PICK r \in T : \A s \in T : ~(<<s, r>> \in OpToRel(<, Nat))
    BY <1>1, NatLessThanWellFounded, WFMin
<1>3. \A s \in T : ~(s < r)  BY <1>1, <1>2 DEF OpToRel
<1> QED  BY <1>1, <1>3

\* The run an operation is about to remove is one of those it has to remove.
LEMMA CurrentRun == ASSUME WtTypeOK PROVE Current \in WtRuns /\ (wt.todo # {} => Current \in wt.todo)
<1>1. wt.run \in WtRuns /\ wt.todo \in SUBSET WtRuns  BY DEF WtTypeOK
<1>2. CASE wt.todo = {}  BY <1>1, <1>2 DEF Current
<1>3. CASE wt.todo # {}
    <2>1. \E r \in wt.todo : \A s \in wt.todo : r <= s  BY <1>1, <1>3, FirstRun
    <2>2. Current = CHOOSE r \in wt.todo : \A s \in wt.todo : r <= s  BY <1>3 DEF Current
    <2> QED  BY <1>1, <2>1, <2>2
<1> QED  BY <1>2, <1>3

\* No operation is one that is over.
LEMMA IdleTyped == WtIdle \in Operations /\ WtIdle.step = "idle"
<1>1. (CHOOSE r \in WtRuns : TRUE) \in WtRuns  BY RunsAssumption
<1> QED  BY <1>1 DEF WtIdle, Operations, WtSteps

\* A manager starts with no records.
LEMMA WtTypedInit == WtInit => WtTypeOK
<1> SUFFICES ASSUME WtInit PROVE WtTypeOK  OBVIOUS
<1>1. wt \in Operations  BY IdleTyped DEF WtInit
<1>2. NoTree \in WtTrees  BY DEF NoTree, WtTrees
<1>3. git \in [WtRuns -> WtTrees]  BY <1>2 DEF WtInit
<1> QED  BY <1>1, <1>3, WorktreeSizes DEF WtInit, WtTypeOK, Operations, WtTrees

\* Every step keeps the types.
LEMMA WtTypedStep == WtTypeOK /\ [WtNext]_wtVars => WtTypeOK'
<1> SUFFICES ASSUME WtTypeOK, [WtNext]_wtVars PROVE WtTypeOK'  OBVIOUS
<1>t. /\ record \in [WtRuns -> {"none", "active", "terminal", "cleaned"}] /\ keep \in SUBSET WtRuns
      /\ expired \in SUBSET WtRuns /\ DOMAIN shown = WtRuns /\ wtFaults \in 0..MaxWtFaults /\ meddled \in 0..MaxMeddled
      /\ unseen \in SUBSET WtRuns
    BY DEF WtTypeOK
<1>g. git \in [WtRuns -> WtTrees]  BY DEF WtTypeOK, WtTrees
<1>w. wt \in Operations  BY DEF WtTypeOK, Operations
<1>r. wt.run \in WtRuns  BY <1>w DEF Operations
<1>k. Current \in WtRuns  BY CurrentRun
<1>s. \A l : l \in {"idle", "terminal", "report", "confirm", "pick", "remove", "branch", "tombstone",
                    "quota", "add", "manifest", "verify", "undoWorktree", "undoBranch", "undoRecord"} => l \in WtSteps
    BY DEF WtSteps
<1>e1. \A l \in WtSteps : [wt EXCEPT !.step = l] \in Operations  BY <1>w DEF Operations
<1>e2. \A l \in WtSteps, T, F \in SUBSET WtRuns : [wt EXCEPT !.step = l, !.todo = T, !.forced = F] \in Operations
    BY <1>w DEF Operations
<1>e3. \A l \in WtSteps, r \in WtRuns, o \in {"create", "reconcile", "terminal"} :
           [WtIdle EXCEPT !.step = l, !.op = o, !.run = r] \in Operations
    BY IdleTyped DEF Operations
<1>e4. \A l \in WtSteps, T \in SUBSET WtRuns : [wt EXCEPT !.step = l, !.todo = T] \in Operations
    BY <1>w DEF Operations
<1>h1. \A r \in WtRuns : [git EXCEPT ![r] = [NoTree EXCEPT !.branch = git[r].branch]] \in [WtRuns -> WtTrees]
    BY <1>g DEF NoTree, WtTrees
<1>h2. \A r \in WtRuns, b \in BOOLEAN : [git EXCEPT ![r].branch = b] \in [WtRuns -> WtTrees]  BY <1>g DEF WtTrees
<1>h3. \A r \in WtRuns, b \in BOOLEAN : [git EXCEPT ![r].dirty = b] \in [WtRuns -> WtTrees]  BY <1>g DEF WtTrees
<1>h4. \A r \in WtRuns : [git EXCEPT ![r].onDisk = FALSE] \in [WtRuns -> WtTrees]  BY <1>g DEF WtTrees
<1>h5. [NoTree EXCEPT !.registered = TRUE, !.onDisk = TRUE, !.branch = TRUE] \in WtTrees  BY DEF NoTree, WtTrees
<1>b. \A r \in WtRuns : git[r].branch \in BOOLEAN /\ git[r].dirty \in BOOLEAN /\ git[r].registered \in BOOLEAN
    BY <1>g DEF WtTrees
<1>i. WtIdle \in Operations  BY IdleTyped
<1>q. ASSUME record' \in [WtRuns -> {"none", "active", "terminal", "cleaned"}], keep' \in SUBSET WtRuns,
             expired' \in SUBSET WtRuns, unseen' \in SUBSET WtRuns, DOMAIN shown' = WtRuns, wtFaults' \in 0..MaxWtFaults,
             meddled' \in 0..MaxMeddled, git' \in [WtRuns -> WtTrees], wt' \in Operations
      PROVE  WtTypeOK'
    BY <1>q DEF WtTypeOK, WtTrees, Operations
<1>1. ASSUME NEW r \in WtRuns, RecordTerminal(r) PROVE WtTypeOK'
    <2>1. wt' \in Operations  BY <1>1, <1>e1, <1>s DEF RecordTerminal, WtGoto, WtEnd, files
    <2>2. git' \in [WtRuns -> WtTrees]  BY <1>1, <1>g DEF RecordTerminal, WtGoto, WtEnd, files
    <2> QED  BY <1>q, <1>t, <1>r, <1>k, <1>1, <2>1, <2>2, WorktreeSizes DEF RecordTerminal, WtGoto, WtEnd, files
<1>2. ASSUME BuildReport PROVE WtTypeOK'
    <2>1. wt' \in Operations  BY <1>2, <1>e1, <1>s DEF BuildReport, Report, WtGoto, WtEnd, files
    <2>2. git' \in [WtRuns -> WtTrees]  BY <1>2, <1>g DEF BuildReport, Report, WtGoto, WtEnd, files
    <2> QED  BY <1>q, <1>t, <1>r, <1>k, <1>2, <2>1, <2>2, WorktreeSizes DEF BuildReport, Report, WtGoto, WtEnd, files
<1>3. ASSUME ConfirmReport PROVE WtTypeOK'
    <2>0. Classed(Removable) \in SUBSET WtRuns /\ Classed({"OWNED_TERMINAL_DIRTY"}) \in SUBSET WtRuns  BY DEF Classed
    <2>1. wt' = WtIdle \/ wt' = [wt EXCEPT !.step = "pick", !.todo = Classed(Removable), !.forced = Classed({"OWNED_TERMINAL_DIRTY"})]
        BY <1>3 DEF ConfirmReport, WtGoto, WtEnd, files
    <2>3. [wt EXCEPT !.step = "pick", !.todo = Classed(Removable), !.forced = Classed({"OWNED_TERMINAL_DIRTY"})] \in Operations
        BY <1>w, <1>s, <2>0 DEF Operations
    <2>4. wt' \in Operations  BY <1>i, <2>1, <2>3
    <2>2. git' \in [WtRuns -> WtTrees]  BY <1>3, <1>g DEF ConfirmReport, WtGoto, WtEnd, files
    <2> QED  BY <1>q, <1>t, <1>r, <1>k, <1>3, <2>4, <2>2, WorktreeSizes DEF ConfirmReport, WtGoto, WtEnd, files
<1>4. ASSUME PickRemovable PROVE WtTypeOK'
    <2>1. wt' \in Operations  BY <1>4, <1>i, <1>e1, <1>s DEF PickRemovable, WtGoto, WtEnd, files
    <2>2. git' \in [WtRuns -> WtTrees]  BY <1>4, <1>g DEF PickRemovable, WtGoto, WtEnd, files
    <2> QED  BY <1>q, <1>t, <1>r, <1>k, <1>4, <2>1, <2>2, WorktreeSizes DEF PickRemovable, WtGoto, WtEnd, files
<1>5. ASSUME RemoveWorktree PROVE WtTypeOK'
    <2>1. wt' \in Operations  BY <1>5, <1>i, <1>e1, <1>s DEF RemoveWorktree, WtGoto, WtEnd, files
    <2>2. git' \in [WtRuns -> WtTrees]  BY <1>5, <1>g, <1>h1, <1>k DEF RemoveWorktree, WtGoto, WtEnd, files
    <2> QED  BY <1>q, <1>t, <1>r, <1>k, <1>5, <2>1, <2>2, WorktreeSizes DEF RemoveWorktree, WtGoto, WtEnd, files
<1>6. ASSUME DeleteBranch PROVE WtTypeOK'
    <2>1. wt' \in Operations  BY <1>6, <1>e1, <1>s DEF DeleteBranch, WtGoto, WtEnd, files
    <2>2. git' \in [WtRuns -> WtTrees]  BY <1>6, <1>g, <1>h2, <1>k, <1>b DEF DeleteBranch, WtGoto, WtEnd, files
    <2> QED  BY <1>q, <1>t, <1>r, <1>k, <1>6, <2>1, <2>2, WorktreeSizes DEF DeleteBranch, WtGoto, WtEnd, files
<1>24. ASSUME LookupFails PROVE WtTypeOK'
    <2>1. wt' \in Operations  BY <1>24, <1>e1, <1>s DEF LookupFails
    <2>2. git' \in [WtRuns -> WtTrees]  BY <1>24, <1>g DEF LookupFails, files
    <2> QED  BY <1>q, <1>t, <1>r, <1>k, <1>24, <2>1, <2>2, WorktreeSizes DEF LookupFails, files
<1>7. ASSUME WriteTombstone PROVE WtTypeOK'
    <2>0. wt.todo \ {Current} \in SUBSET WtRuns  BY <1>w DEF Operations
    <2>1. wt' \in Operations  BY <1>7, <1>e4, <1>s, <2>0 DEF WriteTombstone, WtGoto, WtEnd, files
    <2>2. git' \in [WtRuns -> WtTrees]  BY <1>7, <1>g, <1>k DEF WriteTombstone, WtGoto, WtEnd, files
    <2> QED  BY <1>q, <1>t, <1>r, <1>k, <1>7, <2>1, <2>2, WorktreeSizes DEF WriteTombstone, WtGoto, WtEnd, files
<1>8. ASSUME CheckQuotas PROVE WtTypeOK'
    <2>1. wt' \in Operations  BY <1>8, <1>i, <1>e1, <1>s DEF CheckQuotas, WtGoto, WtEnd, files
    <2>2. git' \in [WtRuns -> WtTrees]  BY <1>8, <1>g DEF CheckQuotas, WtGoto, WtEnd, files
    <2> QED  BY <1>q, <1>t, <1>r, <1>k, <1>8, <2>1, <2>2, WorktreeSizes DEF CheckQuotas, WtGoto, WtEnd, files
<1>9. ASSUME AddWorktree PROVE WtTypeOK'
    <2>1. wt' \in Operations  BY <1>9, <1>i, <1>e1, <1>s DEF AddWorktree, WtGoto, WtEnd, files
    <2>2. git' \in [WtRuns -> WtTrees]  BY <1>9, <1>g, <1>h5, <1>r DEF AddWorktree, WtGoto, WtEnd, files
    <2> QED  BY <1>q, <1>t, <1>r, <1>k, <1>9, <2>1, <2>2, WorktreeSizes DEF AddWorktree, WtGoto, WtEnd, files
<1>10. ASSUME WriteManifest PROVE WtTypeOK'
    <2>1. wt' \in Operations  BY <1>10, <1>e1, <1>s DEF WriteManifest, WtGoto, WtEnd, files
    <2>2. git' \in [WtRuns -> WtTrees]  BY <1>10, <1>g, <1>r DEF WriteManifest, WtGoto, WtEnd, files
    <2> QED  BY <1>q, <1>t, <1>r, <1>k, <1>10, <2>1, <2>2, WorktreeSizes DEF WriteManifest, WtGoto, WtEnd, files
<1>11. ASSUME VerifyCreated PROVE WtTypeOK'
    <2>1. wt' \in Operations  BY <1>11, <1>i, <1>e1, <1>s DEF VerifyCreated, WtGoto, WtEnd, files
    <2>2. git' \in [WtRuns -> WtTrees]  BY <1>11, <1>g DEF VerifyCreated, WtGoto, WtEnd, files
    <2> QED  BY <1>q, <1>t, <1>r, <1>k, <1>11, <2>1, <2>2, WorktreeSizes DEF VerifyCreated, WtGoto, WtEnd, files
<1>12. ASSUME UndoWorktree PROVE WtTypeOK'
    <2>1. wt' \in Operations  BY <1>12, <1>e1, <1>s DEF UndoWorktree, WtGoto, WtEnd, files
    <2>2. git' \in [WtRuns -> WtTrees]  BY <1>12, <1>g, <1>h1, <1>r DEF UndoWorktree, WtGoto, WtEnd, files
    <2> QED  BY <1>q, <1>t, <1>r, <1>k, <1>12, <2>1, <2>2, WorktreeSizes DEF UndoWorktree, WtGoto, WtEnd, files
<1>13. ASSUME UndoBranch PROVE WtTypeOK'
    <2>1. wt' \in Operations  BY <1>13, <1>e1, <1>s DEF UndoBranch, WtGoto, WtEnd, files
    <2>2. git' \in [WtRuns -> WtTrees]  BY <1>13, <1>g, <1>h2, <1>r, <1>b DEF UndoBranch, WtGoto, WtEnd, files
    <2> QED  BY <1>q, <1>t, <1>r, <1>k, <1>13, <2>1, <2>2, WorktreeSizes DEF UndoBranch, WtGoto, WtEnd, files
<1>14. ASSUME UndoRecord PROVE WtTypeOK'
    <2>1. wt' \in Operations  BY <1>14, <1>i DEF UndoRecord, WtGoto, WtEnd, files
    <2>2. git' \in [WtRuns -> WtTrees]  BY <1>14, <1>g, <1>r DEF UndoRecord, WtGoto, WtEnd, files
    <2> QED  BY <1>q, <1>t, <1>r, <1>k, <1>14, <2>1, <2>2, WorktreeSizes DEF UndoRecord, WtGoto, WtEnd, files
<1>15. ASSUME WtFault PROVE WtTypeOK'
    <2>1. wt' \in Operations  BY <1>15, <1>i, <1>e1, <1>s DEF WtFault, WtGoto, WtEnd, files
    <2>2. git' \in [WtRuns -> WtTrees]  BY <1>15, <1>g DEF WtFault, WtGoto, WtEnd, files
    <2> QED  BY <1>q, <1>t, <1>r, <1>k, <1>15, <2>1, <2>2, WorktreeSizes DEF WtFault, WtGoto, WtEnd, files
<1>16. ASSUME ShowReport PROVE WtTypeOK'
    <2>1. wt' \in Operations  BY <1>16, <1>w DEF ShowReport, Report, WtGoto, WtEnd, files
    <2>2. git' \in [WtRuns -> WtTrees]  BY <1>16, <1>g DEF ShowReport, Report, WtGoto, WtEnd, files
    <2> QED  BY <1>q, <1>t, <1>r, <1>k, <1>16, <2>1, <2>2, WorktreeSizes DEF ShowReport, Report, WtGoto, WtEnd, files
<1>17. ASSUME NEW r \in WtRuns, CreateWorktree(r) PROVE WtTypeOK'
    <2>1. wt' \in Operations  BY <1>17, <1>e3, <1>s DEF CreateWorktree, WtBegin, WtGoto, WtEnd, files
    <2>2. git' \in [WtRuns -> WtTrees]  BY <1>17, <1>g DEF CreateWorktree, WtBegin, WtGoto, WtEnd, files
    <2> QED  BY <1>q, <1>t, <1>r, <1>k, <1>17, <2>1, <2>2, WorktreeSizes DEF CreateWorktree, WtBegin, WtGoto, WtEnd, files
<1>18. ASSUME NEW r \in WtRuns, ApplyShown(r) PROVE WtTypeOK'
    <2>1. wt' \in Operations  BY <1>18, <1>e3, <1>s DEF ApplyShown, WtBegin, WtGoto, WtEnd, files
    <2>2. git' \in [WtRuns -> WtTrees]  BY <1>18, <1>g DEF ApplyShown, WtBegin, WtGoto, WtEnd, files
    <2> QED  BY <1>q, <1>t, <1>r, <1>k, <1>18, <2>1, <2>2, WorktreeSizes DEF ApplyShown, WtBegin, WtGoto, WtEnd, files
<1>19. ASSUME NEW r \in WtRuns, MarkTerminal(r) PROVE WtTypeOK'
    <2>1. wt' \in Operations  BY <1>19, <1>e3, <1>s DEF MarkTerminal, WtBegin, WtGoto, WtEnd, files
    <2>2. git' \in [WtRuns -> WtTrees]  BY <1>19, <1>g DEF MarkTerminal, WtBegin, WtGoto, WtEnd, files
    <2> QED  BY <1>q, <1>t, <1>r, <1>k, <1>19, <2>1, <2>2, WorktreeSizes DEF MarkTerminal, WtBegin, WtGoto, WtEnd, files
<1>20. ASSUME NEW r \in WtRuns, RetentionExpires(r) PROVE WtTypeOK'
    <2>1. wt' \in Operations  BY <1>20, <1>w DEF RetentionExpires, WtGoto, WtEnd, files
    <2>2. git' \in [WtRuns -> WtTrees]  BY <1>20, <1>g DEF RetentionExpires, WtGoto, WtEnd, files
    <2> QED  BY <1>q, <1>t, <1>r, <1>k, <1>20, <2>1, <2>2, WorktreeSizes DEF RetentionExpires, WtGoto, WtEnd, files
<1>21. ASSUME NEW r \in WtRuns, WorkIn(r) PROVE WtTypeOK'
    <2>1. wt' \in Operations  BY <1>21, <1>w DEF WorkIn, WtGoto, WtEnd, files
    <2>2. git' \in [WtRuns -> WtTrees]  BY <1>21, <1>g, <1>h3, <1>b DEF WorkIn, WtGoto, WtEnd, files
    <2> QED  BY <1>q, <1>t, <1>r, <1>k, <1>21, <2>1, <2>2, WorktreeSizes DEF WorkIn, WtGoto, WtEnd, files
<1>22. ASSUME NEW r \in WtRuns, Meddle(r) PROVE WtTypeOK'
    <2>1. wt' \in Operations  BY <1>22, <1>w DEF Meddle, WtGoto, WtEnd, files
    <2>2. git' \in [WtRuns -> WtTrees]  BY <1>22, <1>g, <1>h3, <1>h4, <1>b DEF Meddle, WtGoto, WtEnd, files
    <2> QED  BY <1>q, <1>t, <1>r, <1>k, <1>22, <2>1, <2>2, WorktreeSizes DEF Meddle, WtGoto, WtEnd, files
<1>23. CASE UNCHANGED wtVars  BY <1>q, <1>t, <1>g, <1>w, <1>23 DEF wtVars
<1> QED
    BY <1>1, <1>2, <1>3, <1>4, <1>5, <1>6, <1>7, <1>8, <1>9, <1>10, <1>11, <1>12, <1>13, <1>14, <1>15, <1>16, <1>17, <1>18, <1>19, <1>20, <1>21, <1>22, <1>23, <1>24 DEF WtNext, WtStep

\* Runs with a worktree in use, and runs with a worktree at all.
ActiveRuns  == {r \in WtRuns : record[r] = "active"}
ManagedRuns == {r \in WtRuns : record[r] \in {"active", "terminal"}}

\* The steps of applyReport for the runs it removes, and those of create on its own run.
Applying == {"pick", "remove", "branch", "tombstone"}
Undoing  == {"verify", "undoWorktree", "undoBranch", "undoRecord"}

\* What is to be removed is terminal and past its retention, whatever happens meanwhile.
TodoIsExpired == wt.step \in Applying => \A r \in wt.todo : record[r] = "terminal" /\ r \in expired

\* A removal in progress has a run in hand whose worktree, then whose branch, is gone.
InHand ==
    /\ wt.step \in {"remove", "branch", "tombstone"} => wt.todo # {}
    /\ wt.step \in {"branch", "tombstone"} => ~git[Current].registered /\ ~git[Current].onDisk
    /\ wt.step = "tombstone" => (git[Current].branch => Current \in keep \cup unseen)

\* A run is created that has no record, and its creation undone before it has another.
CreatesNew ==
    /\ wt.step \in {"quota", "add", "manifest"} \cup Undoing => wt.op = "create"
    /\ wt.step \in {"add", "manifest"} => record[wt.run] = "none"
    /\ wt.step \in Undoing => record[wt.run] \in {"none", "active"}
    /\ wt.step = "terminal" => record[wt.run] \in {"active", "terminal"}

\* Between the check of the quotas and the record there is still room.
RoomLeft ==
    wt.step \in {"add", "manifest"} =>
        Cardinality(ActiveRuns) < MaxActive /\ Cardinality(ManagedRuns) < MaxManaged

WtSafe == TodoIsExpired /\ InHand /\ CreatesNew /\ RoomLeft /\ TombstoneIsTrue /\ QuotaKept

\* Runs are counted by finite sets.
LEMMA RunsCounted == ASSUME NEW T \in SUBSET WtRuns PROVE IsFiniteSet(T) /\ Cardinality(T) \in Nat
BY RunsAssumption, FS_Subset, FS_CardinalityType

\* With no indeterminate worktree the report counts every active and every managed record.
LEMMA ReportCounts ==
    ASSUME WtTypeOK, Classed({"INDETERMINATE"}) = {}
    PROVE  /\ Cardinality(ActiveRuns) <= Cardinality(Classed({"OWNED_ACTIVE"}))
           /\ Cardinality(ManagedRuns) <= Cardinality(Classed(Managed))
<1>1. \A r \in WtRuns : Classification(r) # "INDETERMINATE"  BY DEF Classed
<1>2. \A r \in WtRuns : record[r] = "active" => Classification(r) = "OWNED_ACTIVE"
    BY <1>1 DEF Classification
<1>3. \A r \in WtRuns : record[r] = "terminal" => Classification(r) \in Managed
    BY <1>1 DEF Classification, Managed
<1>4. ActiveRuns \in SUBSET Classed({"OWNED_ACTIVE"})  BY <1>2 DEF ActiveRuns, Classed
<1>5. ManagedRuns \in SUBSET Classed(Managed)  BY <1>2, <1>3 DEF ManagedRuns, Classed, Managed
<1>6. Classed({"OWNED_ACTIVE"}) \in SUBSET WtRuns /\ Classed(Managed) \in SUBSET WtRuns  BY DEF Classed
<1> QED  BY <1>4, <1>5, <1>6, RunsCounted, FS_Subset

\* What is classified as removable is terminal and past its retention.
LEMMA RemovableExpired ==
    ASSUME WtTypeOK PROVE \A r \in Classed(Removable) : record[r] = "terminal" /\ r \in expired
<1>1. ASSUME NEW r \in WtRuns, Classification(r) \in Removable PROVE record[r] = "terminal" /\ r \in expired
    <2>1. record[r] \in {"none", "active", "terminal", "cleaned"}  BY DEF WtTypeOK
    <2> QED  BY <1>1, <2>1 DEF Removable, Classification
<1> QED  BY <1>1 DEF Classed

\* It starts safe.
LEMMA WtSafeInit == WtInit => WtSafe
<1> SUFFICES ASSUME WtInit PROVE WtSafe  OBVIOUS
<1>1. wt.step = "idle"  BY IdleTyped DEF WtInit
<1>2. \A r \in WtRuns : record[r] = "none"  BY DEF WtInit
<1>3. ActiveRuns = {} /\ ManagedRuns = {}  BY <1>2 DEF ActiveRuns, ManagedRuns
<1>4. QuotaKept  BY <1>3, FS_EmptySet, WorktreeSizes DEF QuotaKept, ActiveRuns, ManagedRuns
<1>5. TombstoneIsTrue  BY <1>2 DEF TombstoneIsTrue
<1> QED  BY <1>1, <1>4, <1>5 DEF WtSafe, TodoIsExpired, InHand, CreatesNew, RoomLeft, Applying, Undoing

\* Every step of an operation, a failure, a crash or an outsider keeps all of it.
LEMMA WtSafeStep == WtTypeOK /\ WtSafe /\ [WtNext]_wtVars => WtSafe'
<1> SUFFICES ASSUME WtTypeOK, WtSafe, [WtNext]_wtVars PROVE WtSafe'  OBVIOUS
<1>t. record \in [WtRuns -> {"none", "active", "terminal", "cleaned"}] /\ keep \in SUBSET WtRuns /\ expired \in SUBSET WtRuns
    BY DEF WtTypeOK
<1>g. git \in [WtRuns -> WtTrees]  BY DEF WtTypeOK, WtTrees
<1>w. wt \in Operations  BY DEF WtTypeOK, Operations
<1>r. wt.run \in WtRuns /\ wt.todo \in SUBSET WtRuns  BY <1>w DEF Operations
<1>k. Current \in WtRuns /\ (wt.todo # {} => Current \in wt.todo)  BY CurrentRun
<1>i. TodoIsExpired /\ InHand /\ CreatesNew /\ RoomLeft /\ TombstoneIsTrue /\ QuotaKept  BY DEF WtSafe
<1>d. WtIdle.step = "idle"  BY IdleTyped
<1>c. wt'.todo = wt.todo /\ wt'.run = wt.run => Current' = Current  BY DEF Current
<1>z. /\ Cardinality(ActiveRuns) \in Nat /\ Cardinality(ManagedRuns) \in Nat /\ MaxActive \in Nat /\ MaxManaged \in Nat
      /\ Cardinality(ActiveRuns) <= MaxActive /\ Cardinality(ManagedRuns) <= MaxManaged
    <2>1. ActiveRuns \in SUBSET WtRuns /\ ManagedRuns \in SUBSET WtRuns  BY DEF ActiveRuns, ManagedRuns
    <2> QED  BY <1>i, <2>1, RunsCounted, WorktreeSizes DEF QuotaKept, ActiveRuns, ManagedRuns
\* The records that are not touched are counted as before.
<1>u. record' = record => ActiveRuns' = ActiveRuns /\ ManagedRuns' = ManagedRuns  BY DEF ActiveRuns, ManagedRuns
\* Records that go, or end, make room.
<1>v. ASSUME NEW r \in WtRuns, NEW x \in {"none", "terminal", "cleaned"}, record' = [record EXCEPT ![r] = x],
             x = "terminal" => record[r] \in {"active", "terminal"}
      PROVE  Cardinality(ActiveRuns') <= MaxActive /\ Cardinality(ManagedRuns') <= MaxManaged
    <2>1. ActiveRuns' \in SUBSET ActiveRuns /\ ManagedRuns' \in SUBSET ManagedRuns
        BY <1>t, <1>v DEF ActiveRuns, ManagedRuns
    <2>2. ActiveRuns \in SUBSET WtRuns /\ ManagedRuns \in SUBSET WtRuns  BY DEF ActiveRuns, ManagedRuns
    <2>3. IsFiniteSet(ActiveRuns) /\ IsFiniteSet(ManagedRuns)  BY <2>2, RunsCounted
    <2>4. Cardinality(ActiveRuns') <= Cardinality(ActiveRuns) /\ Cardinality(ManagedRuns') <= Cardinality(ManagedRuns)
        BY <2>1, <2>3, FS_Subset
    <2>5. Cardinality(ActiveRuns') \in Nat /\ Cardinality(ManagedRuns') \in Nat
        BY <2>1, <2>3, FS_Subset, FS_CardinalityType
    <2> QED  BY <1>z, <2>4, <2>5
<1>1. ASSUME NEW r \in WtRuns, RecordTerminal(r) PROVE WtSafe'
    <2>1. wt.step = "terminal" /\ UNCHANGED <<git, expired, unseen>>
        BY <1>1 DEF RecordTerminal, WtGoto, WtEnd, files
    <2>2. wt'.step = "report" /\ wt'.op = wt.op /\ wt'.run = wt.run /\ wt'.todo = wt.todo
        BY <1>1, <1>w, <1>g, <1>t, <1>r, <1>k, <1>d DEF RecordTerminal, WtGoto, WtEnd, files, Operations
    <2>3. wt.run = r /\ record' = [record EXCEPT ![r] = "terminal"]
        BY <1>1, <1>w, <1>g, <1>t, <1>r, <1>k, <1>d DEF RecordTerminal, WtGoto, WtEnd, files, Operations
    <2>4. keep \subseteq keep'
        BY <1>1, <1>w, <1>g, <1>t, <1>r, <1>k, <1>d DEF RecordTerminal, WtGoto, WtEnd, files, Operations
    <2>5. record[r] \in {"active", "terminal"}
        BY <1>1, <1>w, <1>g, <1>t, <1>r, <1>k, <1>d, <1>i, <2>1, <2>3 DEF RecordTerminal, WtGoto, WtEnd, files, Operations, CreatesNew
    <2>g0. TodoIsExpired'  BY <1>i, <1>t, <1>r, <1>k, <2>1, <2>2, <2>3, <2>4, <2>5 DEF TodoIsExpired, Applying
    <2>g1. InHand'  BY <1>i, <1>t, <1>r, <1>k, <2>1, <2>2, <2>3, <2>4, <2>5 DEF InHand, Applying
    <2>g2. CreatesNew'  BY <1>i, <1>t, <1>r, <2>1, <2>2, <2>3, <2>4, <2>5 DEF CreatesNew, Undoing
    <2>g3. RoomLeft'  BY <1>i, <1>t, <2>1, <2>2, <2>3, <2>4, <2>5 DEF RoomLeft
    <2>g4. TombstoneIsTrue'  BY <1>i, <1>t, <1>k, <1>r, <2>1, <2>2, <2>3, <2>4, <2>5 DEF TombstoneIsTrue, InHand, CreatesNew, Undoing, TodoIsExpired, Applying
    <2>g5. QuotaKept'  BY <1>v, <2>3, <2>5 DEF QuotaKept, ActiveRuns, ManagedRuns
    <2> QED  BY <2>g0, <2>g1, <2>g2, <2>g3, <2>g4, <2>g5 DEF WtSafe
<1>2. ASSUME BuildReport PROVE WtSafe'
    <2>1. wt.step = "report" /\ UNCHANGED <<record, keep, git, expired, unseen>>
        BY <1>2 DEF BuildReport, WtGoto, WtEnd, files
    <2>2. wt'.step = "confirm" /\ wt'.op = wt.op /\ wt'.run = wt.run /\ wt'.todo = wt.todo
        BY <1>2, <1>w, <1>g, <1>t, <1>r, <1>k, <1>d DEF BuildReport, WtGoto, WtEnd, files, Operations
    <2>q. ActiveRuns' = ActiveRuns /\ ManagedRuns' = ManagedRuns  BY <1>u, <2>1
    <2>g0. TodoIsExpired'  BY <1>i, <1>t, <1>r, <1>k, <2>1, <2>2 DEF TodoIsExpired, Applying
    <2>g1. InHand'  BY <1>i, <1>t, <1>r, <1>k, <2>1, <2>2 DEF InHand, Applying
    <2>g2. CreatesNew'  BY <1>i, <1>t, <1>r, <2>1, <2>2 DEF CreatesNew, Undoing
    <2>g3. RoomLeft'  BY <1>i, <2>q, <2>1, <2>2 DEF RoomLeft
    <2>g4. TombstoneIsTrue'  BY <1>i, <1>t, <1>k, <1>r, <2>1, <2>2 DEF TombstoneIsTrue, InHand, CreatesNew, Undoing, TodoIsExpired, Applying
    <2>g5. QuotaKept'  BY <1>i, <2>q, <1>z, <2>1, <2>2 DEF QuotaKept, ActiveRuns, ManagedRuns
    <2> QED  BY <2>g0, <2>g1, <2>g2, <2>g3, <2>g4, <2>g5 DEF WtSafe
<1>3. ASSUME ConfirmReport PROVE WtSafe'
    <2>1. wt.step = "confirm" /\ UNCHANGED <<record, keep, git, expired, unseen>>
        BY <1>3 DEF ConfirmReport, WtGoto, WtEnd, files
    <2>2. \/ wt'.step = "idle"
          \/ wt'.step = "pick" /\ wt'.todo = Classed(Removable)
        BY <1>3, <1>w, <1>g, <1>t, <1>r, <1>k, <1>d DEF ConfirmReport, WtGoto, WtEnd, files, Operations
    <2>q. ActiveRuns' = ActiveRuns /\ ManagedRuns' = ManagedRuns  BY <1>u, <2>1
    <2>g0. TodoIsExpired'  BY <2>1, <2>2, RemovableExpired DEF TodoIsExpired, Applying
    <2>g1. InHand'  BY <1>i, <1>t, <1>r, <1>k, <2>1, <2>2 DEF InHand, Applying
    <2>g2. CreatesNew'  BY <1>i, <1>t, <1>r, <2>1, <2>2 DEF CreatesNew, Undoing
    <2>g3. RoomLeft'  BY <1>i, <2>q, <2>1, <2>2 DEF RoomLeft
    <2>g4. TombstoneIsTrue'  BY <1>i, <1>t, <1>k, <1>r, <2>1, <2>2 DEF TombstoneIsTrue, InHand, CreatesNew, Undoing, TodoIsExpired, Applying
    <2>g5. QuotaKept'  BY <1>i, <2>q, <1>z, <2>1, <2>2 DEF QuotaKept, ActiveRuns, ManagedRuns
    <2> QED  BY <2>g0, <2>g1, <2>g2, <2>g3, <2>g4, <2>g5 DEF WtSafe
<1>4. ASSUME PickRemovable PROVE WtSafe'
    <2>1. wt.step = "pick" /\ UNCHANGED <<record, keep, git, expired, unseen>>
        BY <1>4 DEF PickRemovable, WtGoto, WtEnd, files
    <2>2. \/ wt'.step = "idle"
          \/ wt'.step = "quota" /\ wt.op = "create" /\ wt'.op = wt.op /\ wt'.run = wt.run /\ wt'.todo = wt.todo
          \/ wt'.step = "remove" /\ wt.todo # {} /\ wt'.op = wt.op /\ wt'.run = wt.run /\ wt'.todo = wt.todo
        BY <1>4, <1>w, <1>g, <1>t, <1>r, <1>k, <1>d DEF PickRemovable, WtGoto, WtEnd, files, Operations
    <2>c. wt'.step # "idle" => Current' = Current  BY <1>c, <2>1, <2>2
    <2>q. ActiveRuns' = ActiveRuns /\ ManagedRuns' = ManagedRuns  BY <1>u, <2>1
    <2>g0. TodoIsExpired'  BY <1>i, <1>t, <1>r, <1>k, <2>1, <2>2 DEF TodoIsExpired, Applying
    <2>g1. InHand'  BY <1>i, <1>t, <1>r, <1>k, <2>c, <2>1, <2>2 DEF InHand, Applying
    <2>g2. CreatesNew'  BY <1>i, <1>t, <1>r, <2>1, <2>2 DEF CreatesNew, Undoing
    <2>g3. RoomLeft'  BY <1>i, <2>q, <2>1, <2>2 DEF RoomLeft
    <2>g4. TombstoneIsTrue'  BY <1>i, <1>t, <1>k, <1>r, <2>1, <2>2 DEF TombstoneIsTrue, InHand, CreatesNew, Undoing, TodoIsExpired, Applying
    <2>g5. QuotaKept'  BY <1>i, <2>q, <1>z, <2>1, <2>2 DEF QuotaKept, ActiveRuns, ManagedRuns
    <2> QED  BY <2>g0, <2>g1, <2>g2, <2>g3, <2>g4, <2>g5 DEF WtSafe
<1>5. ASSUME RemoveWorktree PROVE WtSafe'
    <2>1. wt.step = "remove" /\ UNCHANGED <<record, keep, expired, unseen>>
        BY <1>5 DEF RemoveWorktree, WtGoto, WtEnd, files
    <2>2. \/ wt'.step = "idle" /\ git' = git
          \/ /\ wt'.step = "branch" /\ wt'.op = wt.op /\ wt'.run = wt.run /\ wt'.todo = wt.todo
             /\ \A r \in WtRuns \ {Current} : git'[r] = git[r]
             /\ ~git'[Current].registered /\ ~git'[Current].onDisk /\ git'[Current].branch = git[Current].branch
        BY <1>5, <1>w, <1>g, <1>t, <1>r, <1>k, <1>d DEF RemoveWorktree, WtGoto, WtEnd, files, Operations, WtTrees, NoTree
    <2>c. wt'.step # "idle" => Current' = Current  BY <1>c, <2>1, <2>2 DEF Current
    <2>q. ActiveRuns' = ActiveRuns /\ ManagedRuns' = ManagedRuns  BY <1>u, <2>1
    <2>g0. TodoIsExpired'  BY <1>i, <1>t, <1>r, <1>k, <2>1, <2>2 DEF TodoIsExpired, Applying
    <2>g1. InHand'  BY <1>i, <1>t, <1>r, <1>k, <2>c, <2>1, <2>2 DEF InHand, Applying
    <2>g2. CreatesNew'  BY <1>i, <1>t, <1>r, <2>1, <2>2 DEF CreatesNew, Undoing
    <2>g3. RoomLeft'  BY <1>i, <2>q, <2>1, <2>2 DEF RoomLeft
    <2>g4. TombstoneIsTrue'  BY <1>i, <1>t, <1>k, <1>r, <2>1, <2>2 DEF TombstoneIsTrue, InHand, CreatesNew, Undoing, TodoIsExpired, Applying
    <2>g5. QuotaKept'  BY <1>i, <2>q, <1>z, <2>1, <2>2 DEF QuotaKept, ActiveRuns, ManagedRuns
    <2> QED  BY <2>g0, <2>g1, <2>g2, <2>g3, <2>g4, <2>g5 DEF WtSafe
<1>6. ASSUME DeleteBranch PROVE WtSafe'
    <2>1. wt.step = "branch" /\ UNCHANGED <<record, keep, expired>>
        BY <1>6 DEF DeleteBranch, WtGoto, WtEnd, files
    <2>2. wt'.step = "tombstone" /\ wt'.op = wt.op /\ wt'.run = wt.run /\ wt'.todo = wt.todo
        BY <1>6, <1>w, <1>g, <1>t, <1>r, <1>k, <1>d DEF DeleteBranch, WtGoto, WtEnd, files, Operations
    <2>3. /\ \A r \in WtRuns \ {Current} : git'[r] = git[r]
          /\ git'[Current].registered = git[Current].registered /\ git'[Current].onDisk = git[Current].onDisk
          /\ git'[Current].branch = (git[Current].branch /\ Current \in keep)
          /\ unseen' = unseen \ {Current} /\ record[Current] = "terminal"
        BY <1>6, <1>w, <1>g, <1>t, <1>r, <1>k, <1>d, <1>i DEF DeleteBranch, WtGoto, WtEnd, files, Operations, WtTrees, NoTree, TodoIsExpired, InHand, Applying
    <2>c. wt'.step # "idle" => Current' = Current  BY <1>c, <2>1, <2>2, <2>3 DEF Current
    <2>q. ActiveRuns' = ActiveRuns /\ ManagedRuns' = ManagedRuns  BY <1>u, <2>1
    <2>g0. TodoIsExpired'  BY <1>i, <1>t, <1>r, <1>k, <2>1, <2>2, <2>3 DEF TodoIsExpired, Applying
    <2>g1. InHand'  BY <1>i, <1>t, <1>r, <1>k, <2>c, <2>1, <2>2, <2>3 DEF InHand, Applying
    <2>g2. CreatesNew'  BY <1>i, <1>t, <1>r, <2>1, <2>2, <2>3 DEF CreatesNew, Undoing
    <2>g3. RoomLeft'  BY <1>i, <2>q, <2>1, <2>2, <2>3 DEF RoomLeft
    <2>g4. TombstoneIsTrue'  BY <1>i, <1>t, <1>k, <1>r, <2>1, <2>2, <2>3 DEF TombstoneIsTrue, InHand, CreatesNew, Undoing, TodoIsExpired, Applying
    <2>g5. QuotaKept'  BY <1>i, <2>q, <1>z, <2>1, <2>2, <2>3 DEF QuotaKept, ActiveRuns, ManagedRuns
    <2> QED  BY <2>g0, <2>g1, <2>g2, <2>g3, <2>g4, <2>g5 DEF WtSafe
<1>24. ASSUME LookupFails PROVE WtSafe'
    <2>1. wt.step = "branch" /\ UNCHANGED <<record, keep, git, expired>>
        BY <1>24 DEF LookupFails, files
    <2>2. wt'.step = "tombstone" /\ wt'.op = wt.op /\ wt'.run = wt.run /\ wt'.todo = wt.todo
        BY <1>24, <1>w DEF LookupFails, Operations
    <2>3. unseen' = unseen \cup {Current}  BY <1>24 DEF LookupFails
    <2>c. wt'.step # "idle" => Current' = Current  BY <1>c, <2>1, <2>2
    <2>q. ActiveRuns' = ActiveRuns /\ ManagedRuns' = ManagedRuns  BY <1>u, <2>1
    <2>g0. TodoIsExpired'  BY <1>i, <1>t, <1>r, <1>k, <2>1, <2>2 DEF TodoIsExpired, Applying
    <2>g1. InHand'  BY <1>i, <1>t, <1>r, <1>k, <2>c, <2>1, <2>2, <2>3 DEF InHand, Applying
    <2>g2. CreatesNew'  BY <1>i, <1>t, <1>r, <2>1, <2>2 DEF CreatesNew, Undoing
    <2>g3. RoomLeft'  BY <1>i, <2>q, <2>1, <2>2 DEF RoomLeft
    <2>g4. TombstoneIsTrue'  BY <1>i, <1>t, <2>1, <2>3 DEF TombstoneIsTrue
    <2>g5. QuotaKept'  BY <1>i, <2>q, <1>z, <2>1, <2>2 DEF QuotaKept, ActiveRuns, ManagedRuns
    <2> QED  BY <2>g0, <2>g1, <2>g2, <2>g3, <2>g4, <2>g5 DEF WtSafe
<1>7. ASSUME WriteTombstone PROVE WtSafe'
    <2>1. wt.step = "tombstone" /\ UNCHANGED <<keep, git, expired, unseen>>
        BY <1>7 DEF WriteTombstone, WtGoto, WtEnd, files
    <2>2. wt'.step = "pick" /\ wt'.todo = wt.todo \ {Current}
        BY <1>7, <1>w, <1>g, <1>t, <1>r, <1>k, <1>d DEF WriteTombstone, WtGoto, WtEnd, files, Operations
    <2>3. record' = [record EXCEPT ![Current] = "cleaned"]
        BY <1>7, <1>w, <1>g, <1>t, <1>r, <1>k, <1>d DEF WriteTombstone, WtGoto, WtEnd, files, Operations
    <2>g0. TodoIsExpired'  BY <1>i, <1>t, <1>r, <1>k, <2>1, <2>2, <2>3 DEF TodoIsExpired, Applying
    <2>g1. InHand'  BY <1>i, <1>t, <1>r, <1>k, <2>1, <2>2, <2>3 DEF InHand, Applying
    <2>g2. CreatesNew'  BY <1>i, <1>t, <1>r, <2>1, <2>2, <2>3 DEF CreatesNew, Undoing
    <2>g3. RoomLeft'  BY <1>i, <1>t, <2>1, <2>2, <2>3 DEF RoomLeft
    <2>g4. TombstoneIsTrue'  BY <1>i, <1>t, <1>k, <1>r, <2>1, <2>2, <2>3 DEF TombstoneIsTrue, InHand, CreatesNew, Undoing, TodoIsExpired, Applying
    <2>g5. QuotaKept'  BY <1>v, <1>k, <2>3 DEF QuotaKept, ActiveRuns, ManagedRuns
    <2> QED  BY <2>g0, <2>g1, <2>g2, <2>g3, <2>g4, <2>g5 DEF WtSafe
<1>8. ASSUME CheckQuotas PROVE WtSafe'
    <2>1. wt.step = "quota" /\ UNCHANGED <<record, keep, git, expired, unseen>>
        BY <1>8 DEF CheckQuotas, WtGoto, WtEnd, files
    <2>2. \/ wt'.step = "idle"
          \/ /\ wt'.step = "add" /\ wt'.op = wt.op /\ wt'.run = wt.run /\ wt'.todo = wt.todo /\ record[wt.run] = "none" /\ Classed({"INDETERMINATE"}) = {}
             /\ ~(Cardinality(Classed({"OWNED_ACTIVE"})) >= MaxActive) /\ ~(Cardinality(Classed(Managed)) >= MaxManaged)
        BY <1>8, <1>w, <1>g, <1>t, <1>r, <1>k, <1>d DEF CheckQuotas, WtGoto, WtEnd, files, Operations
    <2>q. ActiveRuns' = ActiveRuns /\ ManagedRuns' = ManagedRuns  BY <1>u, <2>1
    <2>g0. TodoIsExpired'  BY <1>i, <1>t, <1>r, <1>k, <2>1, <2>2 DEF TodoIsExpired, Applying
    <2>g1. InHand'  BY <1>i, <1>t, <1>r, <1>k, <2>1, <2>2 DEF InHand, Applying
    <2>g2. CreatesNew'  BY <1>i, <1>t, <1>r, <2>1, <2>2 DEF CreatesNew, Undoing
    <2>g3. RoomLeft'
        <3> SUFFICES ASSUME wt'.step = "add" \/ wt'.step = "manifest"
                     PROVE  Cardinality(ActiveRuns) < MaxActive /\ Cardinality(ManagedRuns) < MaxManaged
            BY <2>q DEF RoomLeft
        <3>1. Classed({"INDETERMINATE"}) = {}  BY <2>2
        <3>2. /\ Cardinality(ActiveRuns) <= Cardinality(Classed({"OWNED_ACTIVE"}))
              /\ Cardinality(ManagedRuns) <= Cardinality(Classed(Managed))
            BY <3>1, ReportCounts
        <3>3. Classed({"OWNED_ACTIVE"}) \in SUBSET WtRuns /\ Classed(Managed) \in SUBSET WtRuns  BY DEF Classed
        <3>4. Cardinality(Classed({"OWNED_ACTIVE"})) \in Nat /\ Cardinality(Classed(Managed)) \in Nat
            BY <3>3, RunsCounted
        <3> QED  BY <1>z, <2>2, <3>2, <3>4
    <2>g4. TombstoneIsTrue'  BY <1>i, <1>t, <1>k, <1>r, <2>1, <2>2 DEF TombstoneIsTrue, InHand, CreatesNew, Undoing, TodoIsExpired, Applying
    <2>g5. QuotaKept'  BY <1>i, <2>q, <1>z, <2>1, <2>2 DEF QuotaKept, ActiveRuns, ManagedRuns
    <2> QED  BY <2>g0, <2>g1, <2>g2, <2>g3, <2>g4, <2>g5 DEF WtSafe
<1>9. ASSUME AddWorktree PROVE WtSafe'
    <2>1. wt.step = "add" /\ UNCHANGED <<record, keep, expired, unseen>>
        BY <1>9 DEF AddWorktree, WtGoto, WtEnd, files
    <2>2. \/ wt'.step = "idle" /\ git' = git
          \/ /\ wt'.step = "manifest" /\ wt'.op = wt.op /\ wt'.run = wt.run /\ wt'.todo = wt.todo
             /\ \A r \in WtRuns \ {wt.run} : git'[r] = git[r]
        BY <1>9, <1>w, <1>g, <1>t, <1>r, <1>k, <1>d DEF AddWorktree, WtGoto, WtEnd, files, Operations, WtTrees, NoTree
    <2>q. ActiveRuns' = ActiveRuns /\ ManagedRuns' = ManagedRuns  BY <1>u, <2>1
    <2>g0. TodoIsExpired'  BY <1>i, <1>t, <1>r, <1>k, <2>1, <2>2 DEF TodoIsExpired, Applying
    <2>g1. InHand'  BY <1>i, <1>t, <1>r, <1>k, <2>1, <2>2 DEF InHand, Applying
    <2>g2. CreatesNew'  BY <1>i, <1>t, <1>r, <2>1, <2>2 DEF CreatesNew, Undoing
    <2>g3. RoomLeft'  BY <1>i, <2>q, <2>1, <2>2 DEF RoomLeft
    <2>g4. TombstoneIsTrue'  BY <1>i, <1>t, <1>k, <1>r, <2>1, <2>2 DEF TombstoneIsTrue, InHand, CreatesNew, Undoing, TodoIsExpired, Applying
    <2>g5. QuotaKept'  BY <1>i, <2>q, <1>z, <2>1, <2>2 DEF QuotaKept, ActiveRuns, ManagedRuns
    <2> QED  BY <2>g0, <2>g1, <2>g2, <2>g3, <2>g4, <2>g5 DEF WtSafe
<1>10. ASSUME WriteManifest PROVE WtSafe'
    <2>1. wt.step = "manifest" /\ UNCHANGED <<keep, git, expired, unseen>>
        BY <1>10 DEF WriteManifest, WtGoto, WtEnd, files
    <2>2. wt'.step = "verify" /\ wt'.op = wt.op /\ wt'.run = wt.run /\ wt'.todo = wt.todo
        BY <1>10, <1>w, <1>g, <1>t, <1>r, <1>k, <1>d DEF WriteManifest, WtGoto, WtEnd, files, Operations
    <2>3. record' = [record EXCEPT ![wt.run] = "active"]
        BY <1>10, <1>w, <1>g, <1>t, <1>r, <1>k, <1>d DEF WriteManifest, WtGoto, WtEnd, files, Operations
    <2>g0. TodoIsExpired'  BY <1>i, <1>t, <1>r, <1>k, <2>1, <2>2, <2>3 DEF TodoIsExpired, Applying
    <2>g1. InHand'  BY <1>i, <1>t, <1>r, <1>k, <2>1, <2>2, <2>3 DEF InHand, Applying
    <2>g2. CreatesNew'  BY <1>i, <1>t, <1>r, <2>1, <2>2, <2>3 DEF CreatesNew, Undoing
    <2>g3. RoomLeft'  BY <1>i, <1>t, <2>1, <2>2, <2>3 DEF RoomLeft
    <2>g4. TombstoneIsTrue'  BY <1>i, <1>t, <1>k, <1>r, <2>1, <2>2, <2>3 DEF TombstoneIsTrue, InHand, CreatesNew, Undoing, TodoIsExpired, Applying
    <2>g5. QuotaKept'
        <3>1. ActiveRuns' = ActiveRuns \cup {wt.run} /\ ManagedRuns' = ManagedRuns \cup {wt.run}
            BY <1>t, <1>r, <2>3 DEF ActiveRuns, ManagedRuns
        <3>2. ActiveRuns \in SUBSET WtRuns /\ ManagedRuns \in SUBSET WtRuns  BY DEF ActiveRuns, ManagedRuns
        <3>3. IsFiniteSet(ActiveRuns) /\ IsFiniteSet(ManagedRuns)  BY <3>2, RunsCounted
        <3>4. /\ Cardinality(ActiveRuns \cup {wt.run}) <= Cardinality(ActiveRuns) + 1
              /\ Cardinality(ManagedRuns \cup {wt.run}) <= Cardinality(ManagedRuns) + 1
            <4>1. Cardinality(ActiveRuns \cup {wt.run}) = IF wt.run \in ActiveRuns THEN Cardinality(ActiveRuns) ELSE Cardinality(ActiveRuns) + 1
                BY <3>3, FS_AddElement
            <4>2. Cardinality(ManagedRuns \cup {wt.run}) = IF wt.run \in ManagedRuns THEN Cardinality(ManagedRuns) ELSE Cardinality(ManagedRuns) + 1
                BY <3>3, FS_AddElement
            <4> QED  BY <1>z, <4>1, <4>2
        <3>5. Cardinality(ActiveRuns \cup {wt.run}) \in Nat /\ Cardinality(ManagedRuns \cup {wt.run}) \in Nat
            BY <3>3, FS_AddElement, FS_CardinalityType
        <3>6. Cardinality(ActiveRuns) < MaxActive /\ Cardinality(ManagedRuns) < MaxManaged  BY <1>i, <2>1 DEF RoomLeft
        <3>7. Cardinality(ActiveRuns') <= MaxActive /\ Cardinality(ManagedRuns') <= MaxManaged
            BY <1>z, <3>1, <3>4, <3>5, <3>6
        <3> QED  BY <3>7 DEF QuotaKept, ActiveRuns, ManagedRuns
    <2> QED  BY <2>g0, <2>g1, <2>g2, <2>g3, <2>g4, <2>g5 DEF WtSafe
<1>11. ASSUME VerifyCreated PROVE WtSafe'
    <2>1. wt.step = "verify" /\ UNCHANGED <<record, keep, git, expired, unseen>>
        BY <1>11 DEF VerifyCreated, WtGoto, WtEnd, files
    <2>2. wt'.step = "idle" \/ (wt'.step = "undoWorktree" /\ wt'.op = wt.op /\ wt'.run = wt.run /\ wt'.todo = wt.todo)
        BY <1>11, <1>w, <1>g, <1>t, <1>r, <1>k, <1>d DEF VerifyCreated, WtGoto, WtEnd, files, Operations
    <2>q. ActiveRuns' = ActiveRuns /\ ManagedRuns' = ManagedRuns  BY <1>u, <2>1
    <2>g0. TodoIsExpired'  BY <1>i, <1>t, <1>r, <1>k, <2>1, <2>2 DEF TodoIsExpired, Applying
    <2>g1. InHand'  BY <1>i, <1>t, <1>r, <1>k, <2>1, <2>2 DEF InHand, Applying
    <2>g2. CreatesNew'  BY <1>i, <1>t, <1>r, <2>1, <2>2 DEF CreatesNew, Undoing
    <2>g3. RoomLeft'  BY <1>i, <2>q, <2>1, <2>2 DEF RoomLeft
    <2>g4. TombstoneIsTrue'  BY <1>i, <1>t, <1>k, <1>r, <2>1, <2>2 DEF TombstoneIsTrue, InHand, CreatesNew, Undoing, TodoIsExpired, Applying
    <2>g5. QuotaKept'  BY <1>i, <2>q, <1>z, <2>1, <2>2 DEF QuotaKept, ActiveRuns, ManagedRuns
    <2> QED  BY <2>g0, <2>g1, <2>g2, <2>g3, <2>g4, <2>g5 DEF WtSafe
<1>12. ASSUME UndoWorktree PROVE WtSafe'
    <2>1. wt.step = "undoWorktree" /\ UNCHANGED <<record, keep, expired, unseen>>
        BY <1>12 DEF UndoWorktree, WtGoto, WtEnd, files
    <2>2. wt'.step = "undoBranch" /\ wt'.op = wt.op /\ wt'.run = wt.run /\ wt'.todo = wt.todo
        BY <1>12, <1>w, <1>g, <1>t, <1>r, <1>k, <1>d DEF UndoWorktree, WtGoto, WtEnd, files, Operations
    <2>3. \A r \in WtRuns \ {wt.run} : git'[r] = git[r]
        BY <1>12, <1>w, <1>g, <1>t, <1>r, <1>k, <1>d DEF UndoWorktree, WtGoto, WtEnd, files, Operations, WtTrees, NoTree
    <2>q. ActiveRuns' = ActiveRuns /\ ManagedRuns' = ManagedRuns  BY <1>u, <2>1
    <2>g0. TodoIsExpired'  BY <1>i, <1>t, <1>r, <1>k, <2>1, <2>2, <2>3 DEF TodoIsExpired, Applying
    <2>g1. InHand'  BY <1>i, <1>t, <1>r, <1>k, <2>1, <2>2, <2>3 DEF InHand, Applying
    <2>g2. CreatesNew'  BY <1>i, <1>t, <1>r, <2>1, <2>2, <2>3 DEF CreatesNew, Undoing
    <2>g3. RoomLeft'  BY <1>i, <2>q, <2>1, <2>2, <2>3 DEF RoomLeft
    <2>g4. TombstoneIsTrue'  BY <1>i, <1>t, <1>k, <1>r, <2>1, <2>2, <2>3 DEF TombstoneIsTrue, InHand, CreatesNew, Undoing, TodoIsExpired, Applying
    <2>g5. QuotaKept'  BY <1>i, <2>q, <1>z, <2>1, <2>2, <2>3 DEF QuotaKept, ActiveRuns, ManagedRuns
    <2> QED  BY <2>g0, <2>g1, <2>g2, <2>g3, <2>g4, <2>g5 DEF WtSafe
<1>13. ASSUME UndoBranch PROVE WtSafe'
    <2>1. wt.step = "undoBranch" /\ UNCHANGED <<record, keep, expired, unseen>>
        BY <1>13 DEF UndoBranch, WtGoto, WtEnd, files
    <2>2. wt'.step = "undoRecord" /\ wt'.op = wt.op /\ wt'.run = wt.run /\ wt'.todo = wt.todo
        BY <1>13, <1>w, <1>g, <1>t, <1>r, <1>k, <1>d DEF UndoBranch, WtGoto, WtEnd, files, Operations
    <2>3. \A r \in WtRuns \ {wt.run} : git'[r] = git[r]
        BY <1>13, <1>w, <1>g, <1>t, <1>r, <1>k, <1>d DEF UndoBranch, WtGoto, WtEnd, files, Operations, WtTrees, NoTree
    <2>q. ActiveRuns' = ActiveRuns /\ ManagedRuns' = ManagedRuns  BY <1>u, <2>1
    <2>g0. TodoIsExpired'  BY <1>i, <1>t, <1>r, <1>k, <2>1, <2>2, <2>3 DEF TodoIsExpired, Applying
    <2>g1. InHand'  BY <1>i, <1>t, <1>r, <1>k, <2>1, <2>2, <2>3 DEF InHand, Applying
    <2>g2. CreatesNew'  BY <1>i, <1>t, <1>r, <2>1, <2>2, <2>3 DEF CreatesNew, Undoing
    <2>g3. RoomLeft'  BY <1>i, <2>q, <2>1, <2>2, <2>3 DEF RoomLeft
    <2>g4. TombstoneIsTrue'  BY <1>i, <1>t, <1>k, <1>r, <2>1, <2>2, <2>3 DEF TombstoneIsTrue, InHand, CreatesNew, Undoing, TodoIsExpired, Applying
    <2>g5. QuotaKept'  BY <1>i, <2>q, <1>z, <2>1, <2>2, <2>3 DEF QuotaKept, ActiveRuns, ManagedRuns
    <2> QED  BY <2>g0, <2>g1, <2>g2, <2>g3, <2>g4, <2>g5 DEF WtSafe
<1>14. ASSUME UndoRecord PROVE WtSafe'
    <2>1. wt.step = "undoRecord" /\ UNCHANGED <<keep, git, expired, unseen>>
        BY <1>14 DEF UndoRecord, WtGoto, WtEnd, files
    <2>2. wt'.step = "idle"
        BY <1>14, <1>w, <1>g, <1>t, <1>r, <1>k, <1>d DEF UndoRecord, WtGoto, WtEnd, files, Operations
    <2>3. record' = record \/ record' = [record EXCEPT ![wt.run] = "none"]
        BY <1>14, <1>w, <1>g, <1>t, <1>r, <1>k, <1>d DEF UndoRecord, WtGoto, WtEnd, files, Operations
    <2>g0. TodoIsExpired'  BY <1>i, <1>t, <1>r, <1>k, <2>1, <2>2, <2>3 DEF TodoIsExpired, Applying
    <2>g1. InHand'  BY <1>i, <1>t, <1>r, <1>k, <2>1, <2>2, <2>3 DEF InHand, Applying
    <2>g2. CreatesNew'  BY <1>i, <1>t, <1>r, <2>1, <2>2, <2>3 DEF CreatesNew, Undoing
    <2>g3. RoomLeft'  BY <1>i, <1>t, <2>1, <2>2, <2>3 DEF RoomLeft
    <2>g4. TombstoneIsTrue'  BY <1>i, <1>t, <1>k, <1>r, <2>1, <2>2, <2>3 DEF TombstoneIsTrue, InHand, CreatesNew, Undoing, TodoIsExpired, Applying
    <2>g5. QuotaKept'
        <3>1. CASE record' = record  BY <1>u, <1>z, <3>1 DEF QuotaKept, ActiveRuns, ManagedRuns
        <3>2. CASE record' = [record EXCEPT ![wt.run] = "none"]
            BY <1>v, <1>r, <3>2 DEF QuotaKept, ActiveRuns, ManagedRuns
        <3> QED  BY <2>3, <3>1, <3>2
    <2> QED  BY <2>g0, <2>g1, <2>g2, <2>g3, <2>g4, <2>g5 DEF WtSafe
<1>15. ASSUME WtFault PROVE WtSafe'
    <2>1. UNCHANGED <<record, keep, git, expired, unseen>>
        BY <1>15 DEF WtFault, WtGoto, WtEnd, files
    <2>2. \/ wt'.step = "idle"
          \/ wt.step \in {"manifest", "verify"} /\ wt'.step = "undoWorktree" /\ wt'.op = wt.op /\ wt'.run = wt.run /\ wt'.todo = wt.todo
        BY <1>15, <1>w, <1>g, <1>t, <1>r, <1>k, <1>d DEF WtFault, WtGoto, WtEnd, files, Operations
    <2>q. ActiveRuns' = ActiveRuns /\ ManagedRuns' = ManagedRuns  BY <1>u, <2>1
    <2>g0. TodoIsExpired'  BY <1>i, <1>t, <1>r, <1>k, <2>1, <2>2 DEF TodoIsExpired, Applying
    <2>g1. InHand'  BY <1>i, <1>t, <1>r, <1>k, <2>1, <2>2 DEF InHand, Applying
    <2>g2. CreatesNew'  BY <1>i, <1>t, <1>r, <2>1, <2>2 DEF CreatesNew, Undoing
    <2>g3. RoomLeft'  BY <1>i, <2>q, <2>1, <2>2 DEF RoomLeft
    <2>g4. TombstoneIsTrue'  BY <1>i, <1>t, <1>k, <1>r, <2>1, <2>2 DEF TombstoneIsTrue, InHand, CreatesNew, Undoing, TodoIsExpired, Applying
    <2>g5. QuotaKept'  BY <1>i, <2>q, <1>z, <2>1, <2>2 DEF QuotaKept, ActiveRuns, ManagedRuns
    <2> QED  BY <2>g0, <2>g1, <2>g2, <2>g3, <2>g4, <2>g5 DEF WtSafe
<1>16. ASSUME ShowReport PROVE WtSafe'
    <2>1. UNCHANGED <<record, keep, git, expired, wt, unseen>>
        BY <1>16 DEF ShowReport, WtGoto, WtEnd, files
    <2>c. wt'.step # "idle" => Current' = Current  BY <1>c, <2>1 DEF Current
    <2>q. ActiveRuns' = ActiveRuns /\ ManagedRuns' = ManagedRuns  BY <1>u, <2>1
    <2>g0. TodoIsExpired'  BY <1>i, <1>t, <1>r, <1>k, <2>1 DEF TodoIsExpired, Applying
    <2>g1. InHand'  BY <1>i, <1>t, <1>r, <1>k, <2>c, <2>1 DEF InHand, Applying
    <2>g2. CreatesNew'  BY <1>i, <1>t, <1>r, <2>1 DEF CreatesNew, Undoing
    <2>g3. RoomLeft'  BY <1>i, <2>q, <2>1 DEF RoomLeft
    <2>g4. TombstoneIsTrue'  BY <1>i, <1>t, <1>k, <1>r, <2>1 DEF TombstoneIsTrue, InHand, CreatesNew, Undoing, TodoIsExpired, Applying
    <2>g5. QuotaKept'  BY <1>i, <2>q, <1>z, <2>1 DEF QuotaKept, ActiveRuns, ManagedRuns
    <2> QED  BY <2>g0, <2>g1, <2>g2, <2>g3, <2>g4, <2>g5 DEF WtSafe
<1>17. ASSUME NEW r \in WtRuns, CreateWorktree(r) PROVE WtSafe'
    <2>1. UNCHANGED <<record, keep, git, expired, unseen>>
        BY <1>17 DEF CreateWorktree, WtBegin, WtGoto, WtEnd, files
    <2>2. wt'.step = "report"
        BY <1>17, <1>w, <1>g, <1>t, <1>r, <1>k, <1>d DEF CreateWorktree, WtBegin, WtGoto, WtEnd, files, Operations, WtIdle
    <2>q. ActiveRuns' = ActiveRuns /\ ManagedRuns' = ManagedRuns  BY <1>u, <2>1
    <2>g0. TodoIsExpired'  BY <1>i, <1>t, <1>r, <1>k, <2>1, <2>2 DEF TodoIsExpired, Applying
    <2>g1. InHand'  BY <1>i, <1>t, <1>r, <1>k, <2>1, <2>2 DEF InHand, Applying
    <2>g2. CreatesNew'  BY <1>i, <1>t, <1>r, <2>1, <2>2 DEF CreatesNew, Undoing
    <2>g3. RoomLeft'  BY <1>i, <2>q, <2>1, <2>2 DEF RoomLeft
    <2>g4. TombstoneIsTrue'  BY <1>i, <1>t, <1>k, <1>r, <2>1, <2>2 DEF TombstoneIsTrue, InHand, CreatesNew, Undoing, TodoIsExpired, Applying
    <2>g5. QuotaKept'  BY <1>i, <2>q, <1>z, <2>1, <2>2 DEF QuotaKept, ActiveRuns, ManagedRuns
    <2> QED  BY <2>g0, <2>g1, <2>g2, <2>g3, <2>g4, <2>g5 DEF WtSafe
<1>18. ASSUME NEW r \in WtRuns, ApplyShown(r) PROVE WtSafe'
    <2>1. UNCHANGED <<record, keep, git, expired, unseen>>
        BY <1>18 DEF ApplyShown, WtBegin, WtGoto, WtEnd, files
    <2>2. wt'.step = "confirm"
        BY <1>18, <1>w, <1>g, <1>t, <1>r, <1>k, <1>d DEF ApplyShown, WtBegin, WtGoto, WtEnd, files, Operations, WtIdle
    <2>q. ActiveRuns' = ActiveRuns /\ ManagedRuns' = ManagedRuns  BY <1>u, <2>1
    <2>g0. TodoIsExpired'  BY <1>i, <1>t, <1>r, <1>k, <2>1, <2>2 DEF TodoIsExpired, Applying
    <2>g1. InHand'  BY <1>i, <1>t, <1>r, <1>k, <2>1, <2>2 DEF InHand, Applying
    <2>g2. CreatesNew'  BY <1>i, <1>t, <1>r, <2>1, <2>2 DEF CreatesNew, Undoing
    <2>g3. RoomLeft'  BY <1>i, <2>q, <2>1, <2>2 DEF RoomLeft
    <2>g4. TombstoneIsTrue'  BY <1>i, <1>t, <1>k, <1>r, <2>1, <2>2 DEF TombstoneIsTrue, InHand, CreatesNew, Undoing, TodoIsExpired, Applying
    <2>g5. QuotaKept'  BY <1>i, <2>q, <1>z, <2>1, <2>2 DEF QuotaKept, ActiveRuns, ManagedRuns
    <2> QED  BY <2>g0, <2>g1, <2>g2, <2>g3, <2>g4, <2>g5 DEF WtSafe
<1>19. ASSUME NEW r \in WtRuns, MarkTerminal(r) PROVE WtSafe'
    <2>1. UNCHANGED <<record, keep, git, expired, unseen>>
        BY <1>19 DEF MarkTerminal, WtBegin, WtGoto, WtEnd, files
    <2>2. wt'.step = "terminal" /\ wt'.run = r /\ record[r] \in {"active", "terminal"}
        BY <1>19, <1>w, <1>g, <1>t, <1>r, <1>k, <1>d DEF MarkTerminal, WtBegin, WtGoto, WtEnd, files, Operations, WtIdle
    <2>q. ActiveRuns' = ActiveRuns /\ ManagedRuns' = ManagedRuns  BY <1>u, <2>1
    <2>g0. TodoIsExpired'  BY <1>i, <1>t, <1>r, <1>k, <2>1, <2>2 DEF TodoIsExpired, Applying
    <2>g1. InHand'  BY <1>i, <1>t, <1>r, <1>k, <2>1, <2>2 DEF InHand, Applying
    <2>g2. CreatesNew'  BY <1>i, <1>t, <1>r, <2>1, <2>2 DEF CreatesNew, Undoing
    <2>g3. RoomLeft'  BY <1>i, <2>q, <2>1, <2>2 DEF RoomLeft
    <2>g4. TombstoneIsTrue'  BY <1>i, <1>t, <1>k, <1>r, <2>1, <2>2 DEF TombstoneIsTrue, InHand, CreatesNew, Undoing, TodoIsExpired, Applying
    <2>g5. QuotaKept'  BY <1>i, <2>q, <1>z, <2>1, <2>2 DEF QuotaKept, ActiveRuns, ManagedRuns
    <2> QED  BY <2>g0, <2>g1, <2>g2, <2>g3, <2>g4, <2>g5 DEF WtSafe
<1>20. ASSUME NEW r \in WtRuns, RetentionExpires(r) PROVE WtSafe'
    <2>1. UNCHANGED <<record, keep, git, wt, unseen>>
        BY <1>20 DEF RetentionExpires, WtGoto, WtEnd, files
    <2>2. expired \subseteq expired'
        BY <1>20, <1>w, <1>g, <1>t, <1>r, <1>k, <1>d DEF RetentionExpires, WtGoto, WtEnd, files, Operations
    <2>c. wt'.step # "idle" => Current' = Current  BY <1>c, <2>1, <2>2 DEF Current
    <2>q. ActiveRuns' = ActiveRuns /\ ManagedRuns' = ManagedRuns  BY <1>u, <2>1
    <2>g0. TodoIsExpired'  BY <1>i, <1>t, <1>r, <1>k, <2>1, <2>2 DEF TodoIsExpired, Applying
    <2>g1. InHand'  BY <1>i, <1>t, <1>r, <1>k, <2>c, <2>1, <2>2 DEF InHand, Applying
    <2>g2. CreatesNew'  BY <1>i, <1>t, <1>r, <2>1, <2>2 DEF CreatesNew, Undoing
    <2>g3. RoomLeft'  BY <1>i, <2>q, <2>1, <2>2 DEF RoomLeft
    <2>g4. TombstoneIsTrue'  BY <1>i, <1>t, <1>k, <1>r, <2>1, <2>2 DEF TombstoneIsTrue, InHand, CreatesNew, Undoing, TodoIsExpired, Applying
    <2>g5. QuotaKept'  BY <1>i, <2>q, <1>z, <2>1, <2>2 DEF QuotaKept, ActiveRuns, ManagedRuns
    <2> QED  BY <2>g0, <2>g1, <2>g2, <2>g3, <2>g4, <2>g5 DEF WtSafe
<1>21. ASSUME NEW r \in WtRuns, WorkIn(r) PROVE WtSafe'
    <2>1. UNCHANGED <<record, keep, expired, wt, unseen>>
        BY <1>21 DEF WorkIn, WtGoto, WtEnd, files
    <2>2. /\ record[r] = "active" /\ git[r].onDisk /\ \A s \in WtRuns \ {r} : git'[s] = git[s]
          /\ git'[r].registered = git[r].registered /\ git'[r].onDisk = git[r].onDisk /\ git'[r].branch = git[r].branch
        BY <1>21, <1>w, <1>g, <1>t, <1>r, <1>k, <1>d DEF WorkIn, WtGoto, WtEnd, files, Operations, WtTrees, NoTree
    <2>c. wt'.step # "idle" => Current' = Current  BY <1>c, <2>1, <2>2 DEF Current
    <2>q. ActiveRuns' = ActiveRuns /\ ManagedRuns' = ManagedRuns  BY <1>u, <2>1
    <2>g0. TodoIsExpired'  BY <1>i, <1>t, <1>r, <1>k, <2>1, <2>2 DEF TodoIsExpired, Applying
    <2>g1. InHand'  BY <1>i, <1>t, <1>r, <1>k, <2>c, <2>1, <2>2 DEF InHand, Applying
    <2>g2. CreatesNew'  BY <1>i, <1>t, <1>r, <2>1, <2>2 DEF CreatesNew, Undoing
    <2>g3. RoomLeft'  BY <1>i, <2>q, <2>1, <2>2 DEF RoomLeft
    <2>g4. TombstoneIsTrue'  BY <1>i, <1>t, <1>k, <1>r, <2>1, <2>2 DEF TombstoneIsTrue, InHand, CreatesNew, Undoing, TodoIsExpired, Applying
    <2>g5. QuotaKept'  BY <1>i, <2>q, <1>z, <2>1, <2>2 DEF QuotaKept, ActiveRuns, ManagedRuns
    <2> QED  BY <2>g0, <2>g1, <2>g2, <2>g3, <2>g4, <2>g5 DEF WtSafe
<1>22. ASSUME NEW r \in WtRuns, Meddle(r) PROVE WtSafe'
    <2>1. UNCHANGED <<record, keep, expired, wt, unseen>>
        BY <1>22 DEF Meddle, WtGoto, WtEnd, files
    <2>2. /\ git[r].onDisk /\ \A s \in WtRuns \ {r} : git'[s] = git[s]
          /\ git'[r].registered = git[r].registered /\ git'[r].branch = git[r].branch
        BY <1>22, <1>w, <1>g, <1>t, <1>r, <1>k, <1>d DEF Meddle, WtGoto, WtEnd, files, Operations, WtTrees, NoTree
    <2>c. wt'.step # "idle" => Current' = Current  BY <1>c, <2>1, <2>2 DEF Current
    <2>q. ActiveRuns' = ActiveRuns /\ ManagedRuns' = ManagedRuns  BY <1>u, <2>1
    <2>g0. TodoIsExpired'  BY <1>i, <1>t, <1>r, <1>k, <2>1, <2>2 DEF TodoIsExpired, Applying
    <2>g1. InHand'  BY <1>i, <1>t, <1>r, <1>k, <2>c, <2>1, <2>2 DEF InHand, Applying
    <2>g2. CreatesNew'  BY <1>i, <1>t, <1>r, <2>1, <2>2 DEF CreatesNew, Undoing
    <2>g3. RoomLeft'  BY <1>i, <2>q, <2>1, <2>2 DEF RoomLeft
    <2>g4. TombstoneIsTrue'  BY <1>i, <1>t, <1>k, <1>r, <2>1, <2>2 DEF TombstoneIsTrue, InHand, CreatesNew, Undoing, TodoIsExpired, Applying
    <2>g5. QuotaKept'  BY <1>i, <2>q, <1>z, <2>1, <2>2 DEF QuotaKept, ActiveRuns, ManagedRuns
    <2> QED  BY <2>g0, <2>g1, <2>g2, <2>g3, <2>g4, <2>g5 DEF WtSafe
<1>23. CASE UNCHANGED wtVars
    <2>1. UNCHANGED <<record, keep, git, expired, wt, unseen>>  BY <1>23 DEF wtVars
    <2>c. Current' = Current  BY <1>c, <2>1
    <2>q. ActiveRuns' = ActiveRuns /\ ManagedRuns' = ManagedRuns  BY <1>u, <2>1
    <2>g0. TodoIsExpired'  BY <1>i, <1>t, <1>r, <1>k, <2>1 DEF TodoIsExpired, Applying
    <2>g1. InHand'  BY <1>i, <1>t, <1>r, <1>k, <2>c, <2>1 DEF InHand, Applying
    <2>g2. CreatesNew'  BY <1>i, <1>t, <1>r, <2>1 DEF CreatesNew, Undoing
    <2>g3. RoomLeft'  BY <1>i, <2>q, <2>1 DEF RoomLeft
    <2>g4. TombstoneIsTrue'  BY <1>i, <1>t, <1>k, <1>r, <2>1 DEF TombstoneIsTrue, InHand, CreatesNew, Undoing, TodoIsExpired, Applying
    <2>g5. QuotaKept'  BY <1>i, <2>q, <1>z, <2>1 DEF QuotaKept, ActiveRuns, ManagedRuns
    <2> QED  BY <2>g0, <2>g1, <2>g2, <2>g3, <2>g4, <2>g5 DEF WtSafe
<1> QED
    BY <1>1, <1>2, <1>3, <1>4, <1>5, <1>6, <1>7, <1>8, <1>9, <1>10, <1>11, <1>12, <1>13, <1>14, <1>15, <1>16, <1>17, <1>18, <1>19, <1>20, <1>21, <1>22, <1>23, <1>24 DEF WtNext, WtStep

\* Records, Git state and the operation in progress keep their types.
THEOREM WorktreesTyped == WtSpec => []WtTypeOK
BY WtTypedInit, WtTypedStep, PTL DEF WtSpec

\* Whatever throws, dies or meddles, a tombstone written by applyReport is of a worktree that
\* is gone, and of a branch that is gone unless it was to be kept or branchExists failed to
\* see it; and the quotas create checked are kept at all times.
THEOREM WorktreesAreSound == WtSpec => []WorktreesSound
<1>1. WtSafe => WorktreesSound  BY DEF WtSafe, WorktreesSound
<1> QED  BY <1>1, WtTypedInit, WtTypedStep, WtSafeInit, WtSafeStep, PTL DEF WtSpec

\* applyReport acts on a report built before; the manager still takes a registration or a
\* branch only from a terminal run past its retention, or from the run it is creating.
THEOREM RetainedIsKept == WtSpec => OnlyExpiredRemoved
<1> DEFINE Removal(r) ==
             LET mine == wt.op = "create" /\ wt.run = r
                 ended == record[r] = "terminal" /\ r \in expired IN
             /\ git[r].registered /\ ~git'[r].registered => mine \/ ended
             /\ git[r].branch /\ ~git'[r].branch => mine \/ (ended /\ r \notin keep)
<1>1. ASSUME WtTypeOK, WtSafe, [WtNext]_wtVars PROVE [\A r \in WtRuns : Removal(r)]_wtVars
    <2> SUFFICES ASSUME WtNext, NEW r \in WtRuns PROVE Removal(r)  BY <1>1
    <2>g. git \in [WtRuns -> WtTrees]  BY <1>1 DEF WtTypeOK, WtTrees
    <2>k. Current \in WtRuns /\ (wt.todo # {} => Current \in wt.todo)  BY <1>1, CurrentRun
    <2>i. TodoIsExpired /\ InHand /\ CreatesNew  BY <1>1 DEF WtSafe
    <2>u. git'[r] = git[r] => Removal(r)  OBVIOUS
    <2>1. CASE RemoveWorktree
        <3>1. Current \in wt.todo /\ record[Current] = "terminal" /\ Current \in expired
            BY <2>k, <2>i, <2>1 DEF RemoveWorktree, InHand, TodoIsExpired, Applying
        <3>2. CASE r = Current
            <4>1. git'[r].branch = git[r].branch  BY <2>g, <2>1, <3>2 DEF RemoveWorktree, WtTrees, NoTree
            <4> QED  BY <3>1, <3>2, <4>1
        <3>3. CASE r # Current  BY <2>g, <2>u, <2>1, <3>3 DEF RemoveWorktree
        <3> QED  BY <3>2, <3>3
    <2>2. CASE DeleteBranch
        <3>1. Current \in wt.todo /\ record[Current] = "terminal" /\ Current \in expired
            BY <2>k, <2>i, <2>2 DEF DeleteBranch, InHand, TodoIsExpired, Applying
        <3>2. CASE r = Current
            <4>1. git'[r].registered = git[r].registered /\ git'[r].branch = (git[r].branch /\ r \in keep)
                BY <2>g, <2>2, <3>2 DEF DeleteBranch, WtTrees
            <4> QED  BY <3>1, <3>2, <4>1
        <3>3. CASE r # Current  BY <2>g, <2>u, <2>2, <3>3 DEF DeleteBranch
        <3> QED  BY <3>2, <3>3
    <2>3. CASE AddWorktree \/ UndoWorktree \/ UndoBranch
        <3>1. wt.op = "create"  BY <2>i, <2>3 DEF AddWorktree, UndoWorktree, UndoBranch, CreatesNew, Undoing
        <3>2. CASE r = wt.run  BY <3>1, <3>2
        <3>3. CASE r # wt.run  BY <2>g, <2>u, <2>3, <3>3 DEF AddWorktree, UndoWorktree, UndoBranch
        <3> QED  BY <3>2, <3>3
    <2>4. ASSUME NEW s \in WtRuns, WorkIn(s) \/ Meddle(s) PROVE Removal(r)
        <3>1. git'[r].registered = git[r].registered /\ git'[r].branch = git[r].branch
            BY <2>g, <2>4 DEF WorkIn, Meddle, WtTrees
        <3> QED  BY <3>1
    <2>5. CASE git' = git  BY <2>u, <2>5
    <2>6. RemoveWorktree \/ DeleteBranch \/ AddWorktree \/ UndoWorktree \/ UndoBranch \/ git' = git
             \/ \E s \in WtRuns : WorkIn(s) \/ Meddle(s)
        BY DEF WtNext, LookupFails, WtStep, RecordTerminal, BuildReport, ConfirmReport, PickRemovable, WriteTombstone, CheckQuotas,
               WriteManifest, VerifyCreated, UndoRecord, WtFault, ShowReport, CreateWorktree, ApplyShown, MarkTerminal,
               WtBegin, RetentionExpires, files
    <2> QED  BY <2>1, <2>2, <2>3, <2>4, <2>5, <2>6
<1> QED  BY <1>1, WtTypedInit, WtTypedStep, WtSafeInit, WtSafeStep, PTL DEF WtSpec, OnlyExpiredRemoved
=============================================================================
