----------------------------- MODULE MCProgress ------------------------------
(***************************************************************************)
(* What must eventually happen: a run settles, a bounded process, an IPC   *)
(* exchange and a terminated execution come to their end, and an expired   *)
(* worktree is cleaned.  `focus` is the component a behaviour is about;    *)
(* the others stay in their initial states.                                *)
(***************************************************************************)
EXTENDS HostControl, BoundedProcess, BrokerExchange, DockerSandbox, Worktree

VARIABLE focus

progressVars == <<vars, bpVars, xVars, sbVars, wtVars, focus>>

ProgressInit ==
    /\ focus \in {"host", "process", "exchange", "sandbox", "worktree"}
    /\ Init /\ BpInit /\ XInit /\ SbInit /\ WtInit
    /\ focus # "sandbox" => engine = CHOOSE i \in Identities : TRUE

HostMoves     == focus = "host" /\ Next /\ UNCHANGED <<bpVars, xVars, sbVars, wtVars, focus>>
ProcessMoves  == focus = "process" /\ BpNext /\ UNCHANGED <<vars, xVars, sbVars, wtVars, focus>>
ExchangeMoves == focus = "exchange" /\ XNext /\ UNCHANGED <<vars, bpVars, sbVars, wtVars, focus>>
SandboxMoves  == focus = "sandbox" /\ SbNext /\ UNCHANGED <<vars, bpVars, xVars, wtVars, focus>>
WorktreeMoves == focus = "worktree" /\ WtNext /\ UNCHANGED <<vars, bpVars, xVars, sbVars, focus>>

ProgressNext == HostMoves \/ ProcessMoves \/ ExchangeMoves \/ SandboxMoves \/ WorktreeMoves

\* Fair of HostControl, BpFair, XFair, SbFair and WtFair, each for its focus.
Fairness ==
    /\ WF_vars(focus = "host" /\ Exit)
    /\ \A c \in Callers : WF_vars(focus = "host" /\ CallStep(c)) /\ SF_vars(focus = "host" /\ Submit(c))
    /\ \A f \in Flights : WF_vars(focus = "host" /\ FlightStep(f))
    /\ WF_bpVars(focus = "process" /\ BpDeadline) /\ WF_bpVars(focus = "process" /\ FailSettlement)
    /\ \A c \in XClients : /\ WF_xVars(focus = "exchange" /\ Connect(c))
                           /\ WF_xVars(focus = "exchange" /\ VerifyServer(c))
                           /\ WF_xVars(focus = "exchange" /\ Deadline(c))
    /\ \A e \in Executions : /\ WF_sbVars(focus = "sandbox" /\ SbStep(e))
                             /\ WF_sbVars(focus = "sandbox" /\ (TerminateRemoves(e) \/ TerminateEnds(e)))
    /\ WF_wtVars(focus = "worktree" /\ WtStep)

ProgressSpec == ProgressInit /\ [][ProgressNext]_progressVars /\ Fairness

-----------------------------------------------------------------------------
\* Every variable of every component has its type.
ProgressTypeOK == TypeOK /\ BpTypeOK /\ XTypeOK /\ SbTypeOK /\ WtTypeOK

\* RunSettles of HostControl: an accepted run comes to where a client decides, or to its end.
HostSettles == focus = "host" => RunSettles

\* What is waited for comes: the completion of a bounded process settles (failSettlement), a
\* client's send ends unless its connection is closed in order under it (submitOverSocket),
\* terminate of an execution returns although the certification its run waits for may not
\* end, and a worktree past its retention is cleaned whatever crashed before, if cleanups
\* keep being begun (applyReport).
WaitsEnd ==
    (focus = "process" => ProcessSettles) /\ SendEnds /\ TerminateReturns /\ ExpiredIsCleaned
=============================================================================
