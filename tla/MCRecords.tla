------------------------------ MODULE MCRecords ------------------------------
(***************************************************************************)
(* Records that decisions are taken from: the attempts and attestations of *)
(* a review sequence, the event log of the pilot, the state of one of its  *)
(* blocks, the chain of its evaluations, and the health of a model         *)
(* binding.  `focus` is the one a behaviour is about; the others stay in   *)
(* their initial states.                                                   *)
(***************************************************************************)
EXTENDS PilotBlock, EventStore, MCPilotEvaluation, BindingHealth, ReviewSequence

VARIABLE focus

recordVars == <<blockVars, eventVars, evaluationVars, healthVars, rvVars, focus>>

RecordsInit ==
    /\ focus \in {"block", "events", "evaluation", "health", "review"}
    /\ BlockInit /\ EventInit /\ EvaluationInit /\ HealthInit /\ RvInit
    /\ focus # "block" => bArm = "DIRECT"
    /\ focus # "evaluation" => eWide
    /\ focus # "health" => hRole = "frontierExecutor" /\ hOthers = {} /\ hQualified = Roles
    /\ focus # "review" => rvGateway /\ rvWork = CHOOSE t \in RvTrees : TRUE

BlockMoves ==
    /\ focus = "block"
    /\ BlockNext /\ UNCHANGED <<eventVars, evaluationVars, healthVars, rvVars, focus>>

EventsMove ==
    /\ focus = "events"
    /\ EventNext /\ UNCHANGED <<blockVars, evaluationVars, healthVars, rvVars, focus>>

EvaluationMoves ==
    /\ focus = "evaluation"
    /\ EvaluationNext /\ UNCHANGED <<blockVars, eventVars, healthVars, rvVars, focus>>

HealthMoves ==
    /\ focus = "health"
    /\ HealthNext /\ UNCHANGED <<blockVars, eventVars, evaluationVars, rvVars, focus>>

ReviewMoves ==
    /\ focus = "review"
    /\ RvNext /\ UNCHANGED <<blockVars, eventVars, evaluationVars, healthVars, focus>>

RecordsNext ==
    BlockMoves \/ EventsMove \/ EvaluationMoves \/ HealthMoves \/ ReviewMoves

RecordsSpec == RecordsInit /\ [][RecordsNext]_recordVars

-----------------------------------------------------------------------------
\* Every variable of every component has its type.
RecordsTypeOK ==
    /\ BlockTypeOK /\ EventTypeOK /\ EvaluationTypeOK /\ HealthTypeOK /\ RvTypeOK

\* What is accepted was validated and independently reviewed, in the pilot's record of a block
\* (BlockSound, state-machine.ts) and in the runtime's review sequence (SequenceSound,
\* reviewer.ts and validation.ts), where only a throw leaves a credential lease behind.
AcceptanceIsEarned == BlockSound /\ SequenceSound
=============================================================================
