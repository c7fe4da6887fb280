--------------------------- MODULE BrokerEndpoint ---------------------------
(***************************************************************************)
(* The broker's Unix endpoint (runtime/broker-ipc.ts): the token           *)
(* file, the pathname broker.sock and the quarantine slots of one state    *)
(* directory, shared by every server process that starts, serves, closes   *)
(* or dies on it.                                                          *)
(*                                                                         *)
(* A server changes the directory only inside the endpoint coordinator's   *)
(* critical section (RepositoryLock models the coordinator; a dead holder  *)
(* loses it).  Node has no identity-conditional unlink, so an endpoint is  *)
(* never unlinked: it is moved, by a rename that does not replace, into a  *)
(* quarantine slot, and slots are never emptied.  A process outside the    *)
(* coordinator may still put its own socket at the pathname (Intrude).     *)
(***************************************************************************)
EXTENDS Integers, FiniteSets

CONSTANTS
    EpServers,       \* server processes
    QuarantineLimit, \* MAX_LINUX_BROKER_QUARANTINES_V4 (64 in the code)
    MaxSockets,      \* bound on the sockets ever bound
    MaxEpFaults,     \* bound on crashes and failed calls
    MaxIntrusions    \* bound on sockets put there from outside

NoSocket == 0          \* no socket: real ones are numbered from 1 in bind order
Nobody == "nobody"     \* the critical section is free

ASSUME EndpointAssumption ==
    /\ Nobody \notin EpServers /\ QuarantineLimit \in Nat \ {0}
    /\ MaxSockets \in Nat /\ MaxEpFaults \in Nat /\ MaxIntrusions \in Nat


VARIABLES
    epFile,     \* the socket broker.sock names, or NoSocket
    epSlots,    \* sockets in quarantine slots
    epLinked,   \* sockets with two links (restored, and still in quarantine)
    epLive,     \* sockets somebody listens on
    epForeign,  \* sockets bound outside the coordinator
    epLost,     \* endpoints that an intruder replaced
    epNext,     \* number of sockets bound so far
    epToken,    \* the token file: "absent", "torn" or "valid"
    epCrit,     \* the holder of the coordinator's critical section
    epPc,       \* where each server is
    epOwn,      \* the socket each server bound
    epTarget,   \* the socket a server is moving to quarantine
    epWhy,      \* what it is moved for
    epFaults

epVars == <<epFile, epSlots, epLinked, epLive, epForeign, epLost, epNext,
            epToken, epCrit, epPc, epOwn, epTarget, epWhy, epFaults>>

epDir == <<epFile, epSlots, epLinked, epLost>>
epBound == <<epForeign, epNext>>
epMove == <<epTarget, epWhy>>

\* The steps of the three ways into quarantineOwnedEndpoint: a starting server
\* reclaiming a stale endpoint, a failed publication, an orderly close.
Purposes == {"reclaim", "unpublish", "close"}
QSteps == {"read", "reserve", "recheck", "move", "verify"}

\* The state of the endpoint and of the servers on it has its type.
EpTypeOK ==
    /\ epFile \in 0..MaxSockets /\ epNext \in 0..MaxSockets
    /\ epSlots \subseteq 1..epNext /\ epLinked \subseteq epSlots
    /\ epLive \subseteq 1..epNext /\ epForeign \subseteq 1..epNext
    /\ epLost \subseteq 1..epNext
    /\ epToken \in {"absent", "torn", "valid"}
    /\ epCrit \in EpServers \cup {Nobody}
    /\ epPc \in [EpServers -> {"off", "token", "write", "inspect", "listen",
                               "adopt", "publish", "unwind", "serving", "closing"}
                              \cup QSteps]
    /\ epWhy \in [EpServers -> Purposes]
    /\ epOwn \in [EpServers -> 0..MaxSockets]
    /\ epTarget \in [EpServers -> 0..MaxSockets]
    /\ epFaults \in 0..MaxEpFaults

EpInit ==
    /\ epFile = NoSocket /\ epSlots = {} /\ epLinked = {} /\ epLive = {}
    /\ epForeign = {} /\ epLost = {} /\ epNext = 0
    /\ epToken = "absent" /\ epCrit = Nobody
    /\ epPc = [s \in EpServers |-> "off"]
    /\ epOwn = [s \in EpServers |-> NoSocket]
    /\ epTarget = [s \in EpServers |-> NoSocket]
    /\ epWhy = [s \in EpServers |-> "reclaim"]
    /\ epFaults = 0

EpGo(s, step) == epPc' = [epPc EXCEPT ![s] = step]

EpFault == epFaults < MaxEpFaults /\ epFaults' = epFaults + 1

\* assertQuarantineCapacity and the check before a slot is reserved and again
\* before the move: a slot each for what is moved now and what must move later.
HasRoom(now, later) == Cardinality(epSlots) + now + later <= QuarantineLimit

\* metadataAtPath rejects a socket with more than one link.
Readable == epFile \notin epLinked

\* reserveSlotsAfter: a reclaiming server keeps one slot for its own endpoint.
SlotsAfter(purpose) == IF purpose = "reclaim" THEN 1 ELSE 0

StartQuarantine(s, purpose, socket) ==
    /\ epWhy' = [epWhy EXCEPT ![s] = purpose]
    /\ epTarget' = [epTarget EXCEPT ![s] = socket]
    /\ EpGo(s, "read")

\* createBrokerIpcServer enters the critical section; close() enters it too.
EnterStart(s) ==
    /\ epPc[s] = "off" /\ epCrit = Nobody
    /\ epCrit' = s /\ EpGo(s, "token")
    /\ UNCHANGED <<epDir, epBound, epLive, epToken, epOwn, epMove, epFaults>>

\* loadToken: O_EXCL creation, then the bytes; a file whose bytes never came
\* is refused by every later start.
LoadToken(s) ==
    /\ epPc[s] = "token"
    /\ CASE epToken = "absent" -> /\ epToken' = "torn" /\ EpGo(s, "write")
                                  /\ UNCHANGED epCrit
         [] epToken = "valid"  -> /\ EpGo(s, "inspect")
                                  /\ UNCHANGED <<epToken, epCrit>>
         [] OTHER              -> /\ EpGo(s, "off") /\ epCrit' = Nobody
                                  /\ UNCHANGED epToken
    /\ UNCHANGED <<epDir, epBound, epLive, epOwn, epMove, epFaults>>

WriteToken(s) ==
    /\ epPc[s] = "write"
    /\ epToken' = "valid" /\ EpGo(s, "inspect")
    /\ UNCHANGED <<epDir, epBound, epLive, epCrit, epOwn, epMove, epFaults>>

\* Mutant: the endpoint is reclaimed without being probed.
ReclaimUnprobed(s) ==
    /\ epPc[s] = "inspect"
    /\ IF epFile = NoSocket
       THEN EpGo(s, "listen") /\ UNCHANGED epMove
       ELSE StartQuarantine(s, "reclaim", epFile)
    /\ UNCHANGED <<epDir, epBound, epLive, epToken, epOwn, epCrit, epFaults>>

\* reclaimBrokerSocket: an absent endpoint needs one slot, a live or unreadable
\* one ends the start, a stale one goes to quarantine first.  A probe that is
\* not answered counts as live.
ReclaimBrokerSocket(s) ==
    /\ epPc[s] = "inspect"
    /\ \/ /\ epFile = NoSocket /\ HasRoom(1, 0)
          /\ EpGo(s, "listen") /\ UNCHANGED <<epMove, epCrit, epFaults>>
       \/ /\ epFile # NoSocket /\ Readable /\ epFile \notin epLive
          /\ StartQuarantine(s, "reclaim", epFile) /\ UNCHANGED <<epCrit, epFaults>>
       \/ /\ \/ epFile = NoSocket /\ ~HasRoom(1, 0) /\ UNCHANGED epFaults
             \/ epFile # NoSocket /\ (epFile \in epLive \/ ~Readable) /\ UNCHANGED epFaults
             \/ epFile # NoSocket /\ EpFault
          /\ EpGo(s, "off") /\ epCrit' = Nobody /\ UNCHANGED epMove
    /\ UNCHANGED <<epDir, epBound, epLive, epToken, epOwn>>

\* What quarantineOwnedEndpoint throws, or returns, means for its caller: the
\* start is refused, the failed publication unwinds, the close reports it.
AfterQuarantine(s, done) ==
    CASE epWhy[s] = "reclaim" -> IF done THEN EpGo(s, "listen") /\ UNCHANGED epCrit
                                        ELSE EpGo(s, "off") /\ epCrit' = Nobody
      [] epWhy[s] = "unpublish" -> EpGo(s, "unwind") /\ epCrit' = Nobody
      [] epWhy[s] = "close" -> EpGo(s, "off") /\ epCrit' = Nobody

\* quarantineOwnedEndpoint up to the move: the endpoint must still be the one
\* meant ("absent" otherwise), a slot must be free, and both are checked again.
QuarantineChecks(s) ==
    /\ \/ /\ epPc[s] = "read"
          /\ IF ~Readable                  THEN AfterQuarantine(s, FALSE)
             ELSE IF epFile # epTarget[s]  THEN AfterQuarantine(s, TRUE)
             ELSE EpGo(s, "reserve") /\ UNCHANGED epCrit
       \/ /\ epPc[s] = "reserve"
          /\ IF HasRoom(1, SlotsAfter(epWhy[s]))
             THEN EpGo(s, "recheck") /\ UNCHANGED epCrit
             ELSE AfterQuarantine(s, FALSE)
       \/ /\ epPc[s] = "recheck"
          /\ IF Readable /\ epFile = epTarget[s] /\ HasRoom(1, SlotsAfter(epWhy[s]))
             THEN EpGo(s, "move") /\ UNCHANGED epCrit
             ELSE AfterQuarantine(s, FALSE)
    /\ UNCHANGED <<epDir, epBound, epLive, epToken, epOwn, epMove, epFaults>>

\* moveBrokerSocket: the helper's rename moves whatever the pathname names now.
MoveBrokerSocket(s) ==
    /\ epPc[s] = "move"
    /\ \/ /\ epFile # NoSocket
          /\ epSlots' = epSlots \cup {epFile} /\ epFile' = NoSocket
          /\ epTarget' = [epTarget EXCEPT ![s] = IF epFile = epTarget[s] THEN NoSocket ELSE epFile]
          /\ EpGo(s, "verify") /\ UNCHANGED <<epWhy, epCrit, epFaults>>
       \/ /\ \/ epFile = NoSocket /\ UNCHANGED epFaults
             \/ EpFault
          /\ AfterQuarantine(s, FALSE)
          /\ UNCHANGED <<epSlots, epFile, epMove>>
    /\ UNCHANGED <<epLinked, epLost, epBound, epLive, epToken, epOwn>>

\* The moved object is verified; another one than meant is linked back, without
\* overwriting, and keeps its quarantine link (restoreWithoutOverwrite).
VerifyMoved(s) ==
    /\ epPc[s] = "verify"
    /\ IF epTarget[s] = NoSocket
       THEN /\ AfterQuarantine(s, TRUE)
            /\ UNCHANGED <<epFile, epLinked, epMove>>
       ELSE /\ epFile' = IF epFile = NoSocket THEN epTarget[s] ELSE epFile
            /\ epLinked' = IF epFile = NoSocket THEN epLinked \cup {epTarget[s]} ELSE epLinked
            /\ epTarget' = [epTarget EXCEPT ![s] = NoSocket] /\ UNCHANGED epWhy
            /\ AfterQuarantine(s, FALSE)
    /\ UNCHANGED <<epSlots, epLost, epBound, epLive, epToken, epOwn, epFaults>>

\* listenBrokerSocket: the binder process binds and hands the listener over
\* with SCM_RIGHTS; binding fails where the pathname is taken.  When the
\* hand-over fails the listener is closed and the pathname stays behind.
ListenBrokerSocket(s) ==
    /\ epPc[s] = "listen"
    /\ \/ /\ epFile = NoSocket /\ epNext < MaxSockets
          /\ epNext' = epNext + 1 /\ epFile' = epNext'
          /\ \/ /\ epLive' = epLive \cup {epNext'}
                /\ epOwn' = [epOwn EXCEPT ![s] = epNext']
                /\ EpGo(s, "adopt") /\ UNCHANGED <<epCrit, epFaults>>
             \/ /\ EpFault /\ EpGo(s, "off") /\ epCrit' = Nobody
                /\ UNCHANGED <<epLive, epOwn>>
       \/ /\ epFile # NoSocket \/ epNext = MaxSockets
          /\ EpGo(s, "off") /\ epCrit' = Nobody
          /\ UNCHANGED <<epNext, epFile, epLive, epOwn, epFaults>>
    /\ UNCHANGED <<epSlots, epLinked, epLost, epForeign, epToken, epMove>>

\* The rest of listenBrokerSocket: the pathname must name the adopted listener;
\* if not, the listener is closed and its endpoint, where still there, moved.
AdoptListener(s) ==
    /\ epPc[s] = "adopt"
    /\ IF Readable /\ epFile = epOwn[s]
       THEN EpGo(s, "publish") /\ UNCHANGED <<epLive, epMove>>
       ELSE /\ epLive' = epLive \ {epOwn[s]}
            /\ StartQuarantine(s, "unpublish", epOwn[s])
    /\ UNCHANGED <<epDir, epBound, epToken, epCrit, epOwn, epFaults>>

\* publishBrokerSocket: the endpoint must be the bound one and pass the owner
\* proof; if not, it is moved away, and createBrokerIpcServer closes the listener.
PublishBrokerSocket(s) ==
    /\ epPc[s] = "publish"
    /\ \/ /\ epFile = epOwn[s]
          /\ EpGo(s, "serving") /\ epCrit' = Nobody
          /\ UNCHANGED <<epMove, epFaults>>
       \/ /\ \/ epFile # epOwn[s] /\ UNCHANGED epFaults
             \/ EpFault
          /\ StartQuarantine(s, "unpublish", epOwn[s]) /\ UNCHANGED epCrit
    /\ UNCHANGED <<epDir, epBound, epLive, epToken, epOwn>>

\* The catch of createBrokerIpcServer, outside the critical section.
UnwindStart(s) ==
    /\ epPc[s] = "unwind"
    /\ epLive' = epLive \ {epOwn[s]}
    /\ EpGo(s, "off")
    /\ UNCHANGED <<epDir, epBound, epToken, epCrit, epOwn, epMove, epFaults>>

\* close(): inside the critical section the listener is closed, then the owned
\* endpoint moved away; when the section cannot be entered only the first.
EnterClose(s) ==
    /\ epPc[s] = "serving"
    /\ \/ epCrit = Nobody /\ epCrit' = s /\ EpGo(s, "closing") /\ UNCHANGED <<epLive, epFaults>>
       \/ EpFault /\ epLive' = epLive \ {epOwn[s]} /\ EpGo(s, "off") /\ UNCHANGED epCrit
    /\ UNCHANGED <<epDir, epBound, epToken, epOwn, epMove>>

CloseListener(s) ==
    /\ epPc[s] = "closing"
    /\ epLive' = epLive \ {epOwn[s]}
    /\ StartQuarantine(s, "close", epOwn[s])
    /\ UNCHANGED <<epDir, epBound, epToken, epCrit, epOwn, epFaults>>

\* The process dies: its listener with it, and the coordinator's next user
\* takes the critical section over.
EpCrash(s) ==
    /\ epPc[s] # "off" /\ EpFault
    /\ epLive' = epLive \ {epOwn[s]}
    /\ epCrit' = IF epCrit = s THEN Nobody ELSE epCrit
    /\ EpGo(s, "off")
    /\ UNCHANGED <<epDir, epBound, epToken, epOwn, epMove>>

\* Outside the code: a process that ignores the coordinator renames its own
\* listening socket over the pathname, or stops listening on it.
Intrude ==
    /\ Cardinality(epForeign) < MaxIntrusions /\ epNext < MaxSockets
    /\ epNext' = epNext + 1
    /\ epForeign' = epForeign \cup {epNext'} /\ epLive' = epLive \cup {epNext'}
    /\ epLost' = epLost \cup ({epFile} \ ({NoSocket} \cup epSlots))
    /\ epFile' = epNext'
    /\ UNCHANGED <<epSlots, epLinked, epToken, epCrit, epPc, epOwn, epMove, epFaults>>

ForeignStops(i) ==
    /\ i \in epForeign \cap epLive
    /\ epLive' = epLive \ {i}
    /\ UNCHANGED <<epDir, epBound, epToken, epCrit, epPc, epOwn, epMove, epFaults>>

ServerStep(s) ==
    \/ LoadToken(s) \/ WriteToken(s) \/ ReclaimBrokerSocket(s)
    \/ QuarantineChecks(s) \/ MoveBrokerSocket(s) \/ VerifyMoved(s)
    \/ ListenBrokerSocket(s) \/ AdoptListener(s) \/ PublishBrokerSocket(s)
    \/ UnwindStart(s) \/ CloseListener(s)

EpNext ==
    \/ \E s \in EpServers : EnterStart(s) \/ EnterClose(s) \/ ServerStep(s) \/ EpCrash(s)
    \/ Intrude
    \/ \E i \in epForeign : ForeignStops(i)

EpSpec == EpInit /\ [][EpNext]_epVars

(* Properties. *)

\* No start or close of another server takes the endpoint from a server that
\* serves: broker.sock names its socket until an outsider replaces it.
ServingIsReachable ==
    \A s \in EpServers :
        epPc[s] \in {"serving", "closing"} /\ epOwn[s] \notin epLost => epFile = epOwn[s]

\* Slots are never emptied, so capacity is a budget: a server that serves can
\* always move its own endpoint away when it closes, and the budget holds.
RoomToRetire ==
    /\ Cardinality(epSlots) <= QuarantineLimit
    /\ \A s \in EpServers :
           epPc[s] \in {"serving", "closing"} /\ epOwn[s] \notin epLost => HasRoom(1, 0)

\* No socket object is ever destroyed by the broker: each one bound is at the
\* pathname, in a slot, or was replaced by an outsider.
NothingUnlinked ==
    \A i \in 1..epNext : i = epFile \/ i \in epSlots \/ i \in epLost

\* The endpoint's three promises at once.
EndpointSound == ServingIsReachable /\ RoomToRetire /\ NothingUnlinked
=============================================================================
