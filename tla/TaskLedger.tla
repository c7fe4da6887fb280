----------------------------- MODULE TaskLedger ------------------------------
(***************************************************************************)
(* What the autonomous dispatcher promises its operator and its task       *)
(* source, without cycles, pages, leases or crashes: every candidate has   *)
(* at most one task, which is claimed, started and ended once, and the     *)
(* source is told at most one disposition, while the task is running.      *)
(*                                                                         *)
(* A task can also end as FAILED without the source being told, or with    *)
(* the source told something else: when its lease is lost.                 *)
(***************************************************************************)
EXTENDS Sequences

CONSTANT Candidates

VARIABLES
    entry,   \* the task of each candidate
    told     \* the dispositions the source was told of each candidate

ledgerVars == <<entry, told>>

Dispositions == {"complete", "reopen", "fail"}

\* The state a disposition is recorded as.
RecordedAs(m) ==
    CASE m = "complete" -> "COMPLETED" [] m = "reopen" -> "REOPENED" [] m = "fail" -> "FAILED"

Init == entry = [c \in Candidates |-> "NONE"] /\ told = [c \in Candidates |-> <<>>]

Claim(c) == entry[c] = "NONE" /\ entry' = [entry EXCEPT ![c] = "CLAIMED"] /\ UNCHANGED told

Start(c) == entry[c] = "CLAIMED" /\ entry' = [entry EXCEPT ![c] = "RUNNING"] /\ UNCHANGED told

Tell(c, m) ==
    /\ entry[c] = "RUNNING" /\ told[c] = <<>>
    /\ told' = [told EXCEPT ![c] = <<m>>] /\ UNCHANGED entry

Record(c, m) ==
    /\ entry[c] = "RUNNING" /\ told[c] = <<m>>
    /\ entry' = [entry EXCEPT ![c] = RecordedAs(m)] /\ UNCHANGED told

Lose(c) ==
    /\ entry[c] \in {"CLAIMED", "RUNNING"}
    /\ entry' = [entry EXCEPT ![c] = "FAILED"] /\ UNCHANGED told

Next ==
    \E c \in Candidates :
        \/ Claim(c) \/ Start(c) \/ Lose(c)
        \/ \E m \in Dispositions : Tell(c, m) \/ Record(c, m)

Spec == Init /\ [][Next]_ledgerVars
=============================================================================
