----------------------------- MODULE MCResources -----------------------------
(***************************************************************************)
(* What the broker holds outside itself and must give back or account for: *)
(* the repository lock, worktrees, containers, the networks of a           *)
(* certification, the gateway with the provider key, the endpoint, and the *)
(* installations and registry of the host.  The components share no state; *)
(* `focus` is the one a behaviour is about, the others stay in their       *)
(* initial states.                                                         *)
(***************************************************************************)
EXTENDS RepositoryLock, Worktree, ContainerTransaction, DockerSandbox, Certification,
        EgressGateway, BrokerEndpoint, HostInstallation

VARIABLE focus

resourceVars == <<lockVars, wtVars, txVars, sbVars, certVars, gwVars, epVars, hostVars, focus>>

\* Repository ids are interchangeable: one repository has this one.
FirstId == CHOOSE id \in RepositoryIds : TRUE

ResourcesInit ==
    /\ focus \in {"lock", "worktree", "transaction", "sandbox", "certification", "gateway",
                  "endpoint", "installation"}
    /\ LockInit /\ WtInit /\ TxInit /\ SbInit /\ CertInit /\ GwInit /\ EpInit /\ HostInit
    /\ focus # "sandbox" => engine = CHOOSE i \in Identities : TRUE
    /\ focus # "installation" => \A r \in Repositories : iPolicy[r] = FirstId
    /\ iPolicy[CHOOSE r \in Repositories : TRUE] = FirstId

LockMoves ==
    focus = "lock" /\ LockNext /\ UNCHANGED <<wtVars, txVars, sbVars, certVars, gwVars, epVars, hostVars, focus>>

WorktreeMoves ==
    focus = "worktree" /\ WtNext /\ UNCHANGED <<lockVars, txVars, sbVars, certVars, gwVars, epVars, hostVars, focus>>

TransactionMoves ==
    focus = "transaction" /\ TxNext /\ UNCHANGED <<lockVars, wtVars, sbVars, certVars, gwVars, epVars, hostVars, focus>>

SandboxMoves ==
    focus = "sandbox" /\ SbNext /\ UNCHANGED <<lockVars, wtVars, txVars, certVars, gwVars, epVars, hostVars, focus>>

CertificationMoves ==
    focus = "certification" /\ CertNext /\ UNCHANGED <<lockVars, wtVars, txVars, sbVars, gwVars, epVars, hostVars, focus>>

GatewayMoves ==
    focus = "gateway" /\ GwNext /\ UNCHANGED <<lockVars, wtVars, txVars, sbVars, certVars, epVars, hostVars, focus>>

EndpointMoves ==
    focus = "endpoint" /\ EpNext /\ UNCHANGED <<lockVars, wtVars, txVars, sbVars, certVars, gwVars, hostVars, focus>>

InstallationMoves ==
    /\ focus = "installation" /\ HostNext
    /\ UNCHANGED <<lockVars, wtVars, txVars, sbVars, certVars, gwVars, epVars, focus>>

ResourcesNext ==
    \/ LockMoves \/ WorktreeMoves \/ TransactionMoves \/ SandboxMoves \/ CertificationMoves
    \/ GatewayMoves \/ EndpointMoves \/ InstallationMoves

ResourcesSpec == ResourcesInit /\ [][ResourcesNext]_resourceVars

-----------------------------------------------------------------------------
(* What a lookup may return, and the addresses on both sides of the borders of every reserved *)
(* block, on which EgressAllowed must agree with the registries.                              *)

LookupAnswers ==
    { {<<8,8,8,8>>}, {<<10,0,0,1>>}, {<<0,0,0,0,0,65535,2560,1>>}, {<<8193,18528,0,0,0,0,0,1>>},
      {<<8,8,8,8>>, <<169,254,1,1>>} }

BorderAddresses ==
    { <<a, b, c, 1>> :
        a \in {0, 9, 10, 11, 99, 100, 101, 126, 127, 128, 169, 172, 192, 198, 203, 223, 224, 255},
        b \in {0, 15, 16, 17, 18, 19, 20, 31, 32, 51, 63, 64, 88, 127, 128, 168, 253, 254},
        c \in {0, 1, 2, 3, 99, 100, 113} }
    \cup
    { <<a, b, 0, 0, 0, f, g, 257>> :
        a \in {0, 100, 8191, 8192, 8193, 8194, 8195, 16383, 16384, 64512, 65152, 65280},
        b \in {0, 1, 15, 16, 31, 32, 3512, 65435}, f \in {0, 1, 65535},
        g \in {0, 2560, 2056, 32512, 43518, 49320, 51966} }

ASSUME AddressesJudgedAsRegistered == \A a \in BorderAddresses : EgressAllowed(a) = Global(a)

-----------------------------------------------------------------------------
\* Every variable of every component has its type.
ResourcesTypeOK ==
    /\ LockTypeOK /\ WtTypeOK /\ TxTypeOK /\ SbTypeOK /\ CertTypeOK /\ GwTypeOK
    /\ EpTypeOK /\ HostTypeOK

\* No Docker resource is forgotten: a container exists only with a record that a later broker
\* finds (createBrokerOwnedDockerContainerV4), a certification's network only while somebody
\* will still remove it, and a certification that passed has left nothing behind.  What the
\* parts except are creates without an answer that their recovery missed.
NothingForgotten == NoContainerWithoutRecord /\ NoNetworkForgotten /\ CertifiedLeavesNothing

\* Only what is one's own is taken away: worktrees and branches of runs whose retention has
\* passed (applyReport), containers of one's own records (reconcilePendingCreate).
OnlyOwnRemoved == OnlyExpiredRemoved /\ OnlyOwnersRemove
=============================================================================
