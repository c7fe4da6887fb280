-------------------------- MODULE MCPilotEvaluation --------------------------
(* Small instances of PilotEvaluation. *)
EXTENDS PilotEvaluation

\* One triplet profile that speaks for the treatment and one that speaks against it.
TwoProfiles ==
    [better |-> [valid |-> TRUE, gain |-> 3, measured |-> {"cost", "tokens", "wall"}, stratum |-> "s1"],
     other  |-> [valid |-> TRUE, gain |-> -3, measured |-> {"cost"}, stratum |-> "s1"]]

ThreeStages == <<1, 1, 2>>

\* One of two triplets that measured its tokens is enough to judge them.
HalfMeasured == [cost |-> 100, tokens |-> 50]
=============================================================================
