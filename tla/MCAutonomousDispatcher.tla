----------------------- MODULE MCAutonomousDispatcher -----------------------
(* Small instances of the dispatcher for TLC. *)
EXTENDS AutonomousDispatcher

AllCandidates  == Candidates
NoCandidates   == {}
LastCandidate  == {NumCandidates}
AllButLast     == 1..(NumCandidates - 1)
AnyOutcome     == {"failed", "merged", "unmerged"}
FailedOrMerged == {"failed", "merged"}
=============================================================================
