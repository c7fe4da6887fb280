------------------------ MODULE ContainerTransaction ------------------------
(***************************************************************************)
(* createBrokerOwnedDockerContainerV4 (docker-container-transaction.ts):   *)
(* the write-ahead records that tie Docker containers to the broker        *)
(* processes that asked for them.  Several processes share the record      *)
(* directory and the Docker daemon, a process may have several calls in    *)
(* progress, a `docker create` may outlive the client that sent it, and    *)
(* processes die at any step.                                              *)
(*                                                                         *)
(* A create is named by its nonce; identity checks of records and labels   *)
(* compare what one create wrote, so only their failing by a fault is      *)
(* modelled.  A pid is not reused.                                         *)
(***************************************************************************)
EXTENDS Naturals, FiniteSets

CONSTANTS
    Brokers,       \* broker processes, a restarted one is another one
    Creates,       \* calls of createBrokerOwnedDockerContainerV4, by their nonce
    NoBroker,      \* the owner of a create that has not begun
    MaxTxFaults    \* bound: effects that fail and processes that die

ASSUME BrokersAssumption == NoBroker \notin Brokers /\ MaxTxFaults \in Nat

VARIABLES
    rec,        \* the record file of each create
    temps,      \* creates with a temporary file in the record directory
    box,        \* the container of each create
    asked,      \* creates the Docker daemon has yet to act on
    ran,        \* the process of each create
    up,         \* processes that are running
    pending,    \* pendingCreates of each process
    live,       \* liveActiveCreates
    external,   \* externallyActiveCreates of each process
    tx,         \* the step of each call, the pending create it reconciles, and whether the
                \* identifier came from `docker create` itself
    missed,     \* creates some recovery found no container of
    txFaults

txVars == <<rec, temps, box, asked, ran, up, pending, live, external, tx, missed, txFaults>>
disk   == <<rec, temps>>
memory == <<pending, live, external>>
docker == <<box, asked>>

TxSteps == {"none", "load", "pick", "recover", "temp", "rename", "remove", "clear", "reject", "intent",
            "intended", "ask", "answer", "inspect", "held", "ended"}

TxInit ==
    /\ rec = [c \in Creates |-> "none"] /\ temps = {} /\ asked = {} /\ missed = {} /\ txFaults = 0
    /\ box = [c \in Creates |-> "none"] /\ ran = [c \in Creates |-> NoBroker] /\ up = Brokers
    /\ pending = [b \in Brokers |-> [c \in Creates |-> "absent"]] /\ live = {}
    /\ external = [b \in Brokers |-> {}]
    /\ tx = [c \in Creates |-> [step |-> "none", on |-> c, direct |-> FALSE]]

-----------------------------------------------------------------------------
TxAt(c, l)   == tx[c].step = l /\ ran[c] \in up
TxGoto(c, l) == tx' = [tx EXCEPT ![c].step = l] /\ UNCHANGED <<ran, up, txFaults>>

\* The create a step works on: its own, or the one it reconciles.
On(c) == tx[c].on

Begin(c, b) ==
    /\ tx[c].step = "none" /\ ran' = [ran EXCEPT ![c] = b] /\ tx' = [tx EXCEPT ![c].step = "load"]
    /\ UNCHANGED <<disk, docker, memory, up, missed, txFaults>>

\* Mutant: a record of another process is taken for one of a process that is gone.
LoadForgetsOwners(c) ==
    LET b == ran[c] IN
    /\ TxAt(c, "load") /\ UNCHANGED <<disk, docker, live, external, missed>>
    /\ pending' = [pending EXCEPT ![b] = [k \in Creates |-> IF rec[k] \in {"intent", "id"} THEN rec[k] ELSE @[k]]]
    /\ TxGoto(c, "pick")

\* loadDurablePending.  Anything in the directory that is not a whole record, or that
\* contradicts what the process remembers, makes the call throw.
LoadDurablePending(c) ==
    LET b == ran[c]
        found == {k \in Creates : rec[k] \in {"intent", "id"}} IN
    /\ TxAt(c, "load") /\ UNCHANGED <<disk, docker, live, missed>>
    /\ IF \/ temps # {} \/ \E k \in Creates : rec[k] = "torn"
          \/ \E k \in found : pending[b][k] = "id" /\ rec[k] = "intent"
       THEN TxGoto(c, "ended") /\ UNCHANGED <<pending, external>>
       ELSE /\ pending' = [pending EXCEPT ![b] = [k \in Creates |-> IF k \in found THEN rec[k] ELSE @[k]]]
            /\ external' = [external EXCEPT ![b] = @ \cup
                  {k \in found : pending[b][k] = "absent" /\ ran[k] # b /\ ran[k] \in up}]
            /\ TxGoto(c, "pick")

\* reconcilePendingCreates: what is not active, in this process or in another live one.
PickPending(c) ==
    LET b == ran[c]
        still == {k \in external[b] : ran[k] \in up}
        idle  == {k \in Creates : pending[b][k] # "absent" /\ k \notin live /\ k \notin still} IN
    /\ TxAt(c, "pick") /\ external' = [external EXCEPT ![b] = still]
    /\ \/ idle = {} /\ TxGoto(c, "reject")
       \/ \E k \in idle : /\ tx' = [tx EXCEPT ![c].on = k,
                                              ![c].step = IF pending[b][k] = "id" THEN "remove" ELSE "recover"]
                          /\ UNCHANGED <<ran, up, txFaults>>
    /\ UNCHANGED <<disk, docker, pending, live, missed>>

\* recoverByNonce: the one container with the label, or none until the deadline.
Recover(c) ==
    LET k == On(c) IN
    /\ TxAt(c, "recover") /\ UNCHANGED <<disk, docker, live, external>>
    /\ IF box[k] = "up"
       THEN pending' = [pending EXCEPT ![ran[c]][k] = "id"] /\ TxGoto(c, "temp") /\ UNCHANGED missed
       ELSE TxGoto(c, "clear") /\ missed' = missed \cup {k} /\ UNCHANGED pending

\* persistPending: a temporary file, then a rename over the record.
WriteTemporary(c) ==
    /\ TxAt(c, "temp") /\ temps' = temps \cup {On(c)} /\ TxGoto(c, "rename")
    /\ UNCHANGED <<rec, docker, memory, missed>>

RenameRecord(c) ==
    /\ TxAt(c, "rename") /\ temps' = temps \ {On(c)} /\ rec' = [rec EXCEPT ![On(c)] = "id"]
    /\ TxGoto(c, IF On(c) = c THEN "inspect" ELSE "remove")
    /\ UNCHANGED <<docker, memory, missed>>

\* Mutant: a removal that the daemon did not confirm counts.
RemoveUnconfirmed(c) ==
    /\ TxAt(c, "remove") /\ TxGoto(c, "clear") /\ UNCHANGED <<disk, memory, asked, missed>>
    /\ box' \in {box, [box EXCEPT ![On(c)] = "gone"]}

\* Removal controller: it returns when the container is verified to be absent.
RemoveContainer(c) ==
    /\ TxAt(c, "remove") /\ TxGoto(c, "clear") /\ UNCHANGED <<disk, memory, asked, missed>>
    /\ box' = [box EXCEPT ![On(c)] = IF @ = "up" THEN "gone" ELSE @]

\* The process drops a create from its maps.
Forget(b, k) ==
    /\ pending' = [pending EXCEPT ![b][k] = "absent"] /\ live' = live \ {k}
    /\ external' = [external EXCEPT ![b] = @ \ {k}]

\* clearPending.  A call that cleared its own record has ended.
ClearPending(c) ==
    /\ TxAt(c, "clear") /\ rec' = [rec EXCEPT ![On(c)] = "none"] /\ Forget(ran[c], On(c))
    /\ tx' = [tx EXCEPT ![c].on = c, ![c].step = IF On(c) = c THEN "ended" ELSE "pick"]
    /\ UNCHANGED <<temps, docker, ran, up, missed, txFaults>>

\* rejectUnknownBrokerContainers: a container no known create accounts for ends the call, at
\* the latest after two seconds of loading again.
RejectUnknown(c) ==
    /\ TxAt(c, "reject") /\ UNCHANGED <<disk, docker, memory, missed>>
    /\ IF \A k \in Creates : box[k] = "up" => pending[ran[c]][k] = "id"
       THEN TxGoto(c, "intent") ELSE TxGoto(c, "load") \/ TxGoto(c, "ended")

-----------------------------------------------------------------------------
(* The create itself: record, `docker create`, identifier, inspection. *)

WriteIntent(c) ==
    /\ TxAt(c, "intent") /\ rec' = [rec EXCEPT ![c] = "torn"] /\ TxGoto(c, "intended")
    /\ UNCHANGED <<temps, docker, memory, missed>>

EndIntent(c) ==
    /\ TxAt(c, "intended") /\ rec' = [rec EXCEPT ![c] = "intent"] /\ TxGoto(c, "ask")
    /\ pending' = [pending EXCEPT ![ran[c]][c] = "intent"]
    /\ UNCHANGED <<temps, docker, live, external, missed>>

AskDocker(c) ==
    /\ TxAt(c, "ask") /\ asked' = asked \cup {c} /\ TxGoto(c, "answer")
    /\ UNCHANGED <<disk, memory, box, missed>>

\* The daemon creates the container, whether or not somebody still waits for it, or refuses.
DaemonCreates(c) ==
    /\ c \in asked /\ asked' = asked \ {c}
    /\ box' \in {box, [box EXCEPT ![c] = "up"]}
    /\ UNCHANGED <<disk, memory, ran, up, tx, missed, txFaults>>

\* The identifier is printed, or the deadline or a cancellation comes first.
CreateAnswers(c) ==
    /\ TxAt(c, "answer") /\ UNCHANGED <<disk, docker, live, external, missed>>
    /\ \/ /\ box[c] # "none" /\ pending' = [pending EXCEPT ![ran[c]][c] = "id"]
          /\ tx' = [tx EXCEPT ![c].step = "temp", ![c].direct = TRUE] /\ UNCHANGED <<ran, up, txFaults>>
       \/ TxGoto(c, "recover") /\ UNCHANGED pending

\* A container that had to be recovered is removed; one created directly is held.
InspectOwned(c) ==
    /\ TxAt(c, "inspect") /\ UNCHANGED <<disk, docker, pending, external, missed>>
    /\ IF box[c] # "up" THEN TxGoto(c, "ended") /\ UNCHANGED live
       ELSE IF tx[c].direct THEN TxGoto(c, "held") /\ live' = live \cup {c}
       ELSE TxGoto(c, "remove") /\ UNCHANGED live

ReleaseContainer(c) ==
    /\ TxAt(c, "held") /\ TxGoto(c, "remove") /\ UNCHANGED <<disk, docker, memory, missed>>

-----------------------------------------------------------------------------
(* Faults. *)

\* An effect throws: the inspection of an own container falls back to its removal, a failed
\* write removes its temporary file again, a held container stays held, and a record whose
\* removal fails may be forgotten already.
TxFault(c) ==
    /\ ran[c] \in up /\ tx[c].step \notin {"none", "ended", "held", "answer"}
    /\ txFaults < MaxTxFaults /\ txFaults' = txFaults + 1
    /\ tx' = [tx EXCEPT ![c].step = IF @ = "inspect" THEN "remove"
                                    ELSE IF @ \in {"remove", "clear"} /\ c \in live THEN "held" ELSE "ended"]
    /\ temps' = (IF tx[c].step = "rename" THEN temps \ {On(c)} ELSE temps)
    /\ UNCHANGED memory \/ (tx[c].step = "clear" /\ Forget(ran[c], On(c)))
    /\ UNCHANGED <<rec, docker, ran, up, missed>>

BrokerDies(b) ==
    /\ b \in up /\ txFaults < MaxTxFaults /\ txFaults' = txFaults + 1 /\ up' = up \ {b}
    /\ UNCHANGED <<disk, docker, memory, ran, tx, missed>>

-----------------------------------------------------------------------------
TxCall(c) ==
    \/ LoadDurablePending(c) \/ PickPending(c) \/ Recover(c) \/ WriteTemporary(c) \/ RenameRecord(c)
    \/ RemoveContainer(c) \/ ClearPending(c) \/ RejectUnknown(c) \/ WriteIntent(c) \/ EndIntent(c)
    \/ AskDocker(c) \/ CreateAnswers(c) \/ InspectOwned(c)

TxNext ==
    \/ \E c \in Creates : \/ TxCall(c) \/ ReleaseContainer(c) \/ DaemonCreates(c) \/ TxFault(c)
                          \/ \E b \in up : Begin(c, b)
    \/ \E b \in Brokers : BrokerDies(b)

TxSpec == TxInit /\ [][TxNext]_txVars

\* Records, containers and creates have their types.
TxTypeOK ==
    /\ rec \in [Creates -> {"none", "torn", "intent", "id"}] /\ box \in [Creates -> {"none", "up", "gone"}]
    /\ temps \in SUBSET Creates /\ asked \in SUBSET Creates /\ missed \in SUBSET Creates
    /\ live \in SUBSET Creates /\ up \in SUBSET Brokers /\ external \in [Brokers -> SUBSET Creates]
    /\ ran \in [Creates -> Brokers \cup {NoBroker}]
    /\ pending \in [Brokers -> [Creates -> {"absent", "intent", "id"}]]
    /\ tx \in [Creates -> [step : TxSteps, on : Creates, direct : BOOLEAN]]
    /\ txFaults \in 0..MaxTxFaults

\* Whatever dies in between, a container that exists has a record from which a later process
\* finds and removes it; the exception is a container that appears after a recovery waited
\* for it in vain.
NoContainerWithoutRecord == \A c \in Creates : box[c] = "up" => rec[c] \in {"intent", "id"} \/ c \in missed

\* A container is taken away by the process it belongs to, or after that process died.
OnlyOwnersRemove ==
    [][\A c, k \in Creates :
         box[k] = "up" /\ box'[k] = "gone" /\ tx[c].step = "remove" /\ tx'[c].step = "clear"
            => ran[k] = ran[c] \/ ran[k] \notin up]_txVars
=============================================================================
