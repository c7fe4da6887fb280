--------------------------- MODULE BrokerExchange ---------------------------
(***************************************************************************)
(* One command over the broker's socket (src/runtime/broker-ipc.ts):       *)
(* createBrokerIpcClient.send on one side, the connection listener and     *)
(* exchange of createBrokerIpcServer on the other.  The client holds the   *)
(* endpoint coordinator's critical section for the whole request.  The     *)
(* daemon behind the server is BrokerDaemon, reduced to what the exchange  *)
(* sees of it: submit is idempotent by request, and runs advance.          *)
(*                                                                         *)
(* A connection also belongs to any other local process (Raw peers), whose *)
(* frames may carry trailing bytes, declare too large a body or hold the   *)
(* wrong token, and who may own the endpoint instead of the broker.        *)
(***************************************************************************)
EXTENDS Integers, FiniteSets, Sequences

CONSTANTS
    XClients,    \* connections: one client process each
    XRawPeers,   \* the ones that are not createBrokerIpcClient
    XRequests,   \* request identities
    MaxSends,    \* bound on commands sent
    MaxXFaults,  \* bound on lost daemon state, impostors and stopped servers
    MaxRunState  \* bound on the states a run passes through

ASSUME ExchangeAssumption ==
    XRawPeers \subseteq XClients /\ XRequests # {} /\ MaxSends \in Nat /\ MaxXFaults \in Nat /\ MaxRunState \in Nat

NoRun == 0               \* runs are numbered from 1 in the order they are created
NoOne == "noOne"

\* Replies: an error, or the run and state the daemon reported.
Rejected == [ok |-> FALSE, run |-> NoRun, state |-> 0]

VARIABLES
    xEndpoint,  \* who listens at the endpoint: "broker", "impostor" or "nobody"
    xRuns,      \* the daemon's run of each request
    xState,     \* sequence: the state of each run
    xHeld,      \* the client in the endpoint's critical section
    xPc,        \* where each client's send is
    xCmd,       \* the command each client sends: its type and subject
    xPeer,      \* who is at the other end of the connection
    xWire,      \* units of the frame still to arrive: header, body, trailing
    xGot,       \* units the server has
    xHandled,   \* the listener's handled flag
    xJob,       \* the exchange in progress for a connection
    xReply,     \* the exchange's answer
    xAccepted,  \* acceptedRuns of each client
    xResolved,  \* <<client, request, run>> that send resolved
    xTokenSeen, \* who received a frame with the token
    xDispatched,\* commands that reached the daemon on the current connection
    xSends, xFaults

xServer == <<xEndpoint, xRuns, xState>>
xConn == <<xPeer, xWire, xGot, xHandled, xJob, xReply, xDispatched>>
xSeen == <<xAccepted, xResolved, xTokenSeen>>
xVars == <<xServer, xHeld, xPc, xCmd, xConn, xSeen, xSends, xFaults>>

XRuns == 1..Len(xState)
XCommands == [type : {"RUN"}, subject : XRequests] \cup [type : {"CONTROL", "PACKET"}, subject : 1..(MaxXFaults + 1)]

\* The state of the IPC exchanges has its type.
XTypeOK ==
    /\ xEndpoint \in {"broker", "impostor", "nobody"}
    /\ xRuns \in [XRequests -> 0..Len(xState)]
    /\ \A r \in XRuns : xState[r] \in 0..MaxRunState
    /\ xHeld \in XClients \cup {NoOne}
    /\ xPc \in [XClients -> {"idle", "connect", "verify", "wait", "orphan"}]
    /\ xPeer \in [XClients -> {"broker", "impostor", "nobody"}]
    /\ xGot \in [XClients -> 0..3]
    /\ xJob \in [XClients -> {"none", "peer", "decode", "dispatch", "check", "answer"}]
    /\ xAccepted \in [XClients -> [XRequests -> 0..Len(xState)]]

XInit ==
    /\ xEndpoint = "broker" /\ xRuns = [q \in XRequests |-> NoRun] /\ xState = << >>
    /\ xHeld = NoOne /\ xPc = [c \in XClients |-> "idle"]
    /\ xCmd = [c \in XClients |-> [type |-> "RUN", subject |-> CHOOSE q \in XRequests : TRUE]]
    /\ xPeer = [c \in XClients |-> "nobody"]
    /\ xWire = [c \in XClients |-> << >>] /\ xGot = [c \in XClients |-> 0]
    /\ xHandled = [c \in XClients |-> FALSE] /\ xJob = [c \in XClients |-> "none"]
    /\ xReply = [c \in XClients |-> Rejected]
    /\ xAccepted = [c \in XClients |-> [q \in XRequests |-> NoRun]]
    /\ xResolved = {} /\ xTokenSeen = {} /\ xDispatched = [c \in XClients |-> 0]
    /\ xSends = 0 /\ xFaults = 0

XGo(c, step) == xPc' = [xPc EXCEPT ![c] = step]
XFault == xFaults < MaxXFaults /\ xFaults' = xFaults + 1

\* The end of send: the socket is destroyed and the critical section left.  An
\* exchange already running for the connection is not cancelled by that.
Hangup(c) ==
    /\ xPeer' = [xPeer EXCEPT ![c] = "nobody"]
    /\ XGo(c, "idle")
    /\ xHeld' = IF xHeld = c THEN NoOne ELSE xHeld

\* send: the critical section is entered, the endpoint inspected and connected
\* to.  Raw peers connect without the coordinator.
Send(c) ==
    /\ xPc[c] = "idle" /\ xJob[c] = "none" /\ xSends < MaxSends
    /\ c \in XRawPeers \/ xHeld = NoOne
    /\ xHeld' = IF c \in XRawPeers THEN xHeld ELSE c
    /\ \E cmd \in XCommands :
        /\ cmd.type # "RUN" => cmd.subject \in XRuns
        /\ xCmd' = [xCmd EXCEPT ![c] = cmd]
    /\ XGo(c, "connect") /\ xSends' = xSends + 1
    /\ xWire' = [xWire EXCEPT ![c] = << >>] /\ xGot' = [xGot EXCEPT ![c] = 0]
    /\ xHandled' = [xHandled EXCEPT ![c] = FALSE]
    /\ xDispatched' = [xDispatched EXCEPT ![c] = 0]
    /\ UNCHANGED <<xServer, xPeer, xJob, xReply, xSeen, xFaults>>

\* Frames, as the units that arrive: a header that declares a body within or
\* beyond MAX_FRAME_BYTES_V4, the body, bytes after it.
GoodFrame == <<"header", "body">>
RawFrames == {<<"header", "body", "trailing">>, <<"large", "body">>, <<"header", "junk">>}

Connect(c) ==
    /\ xPc[c] = "connect"
    /\ IF xEndpoint = "nobody"
       THEN Hangup(c)
       ELSE /\ xPeer' = [xPeer EXCEPT ![c] = xEndpoint]
            /\ XGo(c, "verify") /\ UNCHANGED xHeld
    /\ UNCHANGED <<xServer, xCmd, xWire, xGot, xHandled, xJob, xReply, xDispatched, xSeen, xSends, xFaults>>

\* verifyServer: only a server of the expected owner is sent the frame.
VerifyServer(c) ==
    /\ xPc[c] = "verify"
    /\ IF c \notin XRawPeers /\ xPeer[c] # "broker"
       THEN Hangup(c) /\ UNCHANGED <<xWire, xTokenSeen>>
       ELSE /\ \E f \in IF c \in XRawPeers THEN RawFrames ELSE {GoodFrame} :
                    xWire' = [xWire EXCEPT ![c] = f]
            /\ xTokenSeen' = IF c \in XRawPeers THEN xTokenSeen ELSE xTokenSeen \cup {xPeer[c]}
            /\ XGo(c, "wait") /\ UNCHANGED <<xPeer, xHeld>>
    /\ UNCHANGED <<xServer, xCmd, xGot, xHandled, xJob, xReply, xDispatched, xAccepted, xResolved, xSends, xFaults>>

\* The data listener, for a chunk of n units: nothing once handled; too large a
\* body is refused at its header, a body with bytes behind it in the same chunk
\* when it is complete; otherwise the exchange starts.
Listener(c, n) ==
    LET got == xGot[c] + n
        frame == xWire[c]
    IN IF xHandled[c] THEN UNCHANGED <<xGot, xHandled, xJob, xReply>>
       ELSE /\ xGot' = [xGot EXCEPT ![c] = got]
            /\ IF frame[1] = "large" \/ got > 2
               THEN /\ xHandled' = [xHandled EXCEPT ![c] = TRUE]
                    /\ xJob' = [xJob EXCEPT ![c] = "answer"]
                    /\ xReply' = [xReply EXCEPT ![c] = Rejected]
               ELSE IF got = 2
               THEN /\ xHandled' = [xHandled EXCEPT ![c] = TRUE]
                    /\ xJob' = [xJob EXCEPT ![c] = "peer"] /\ UNCHANGED xReply
               ELSE UNCHANGED <<xHandled, xJob, xReply>>

Receive(c, n) ==
    /\ xPc[c] = "wait" /\ xPeer[c] = "broker"
    /\ n \in 1..(Len(xWire[c]) - xGot[c])
    /\ Listener(c, n)
    /\ UNCHANGED <<xServer, xHeld, xPc, xCmd, xPeer, xWire, xDispatched, xSeen, xSends, xFaults>>

\* Mutant: the token is not compared.
AuthenticateNobody(c) ==
    /\ xJob[c] \in {"peer", "decode"}
    /\ IF xWire[c][2] = "body"
       THEN xJob' = [xJob EXCEPT ![c] = "dispatch"] /\ UNCHANGED xReply
       ELSE /\ xJob' = [xJob EXCEPT ![c] = "answer"]
            /\ xReply' = [xReply EXCEPT ![c] = Rejected]
    /\ UNCHANGED <<xServer, xHeld, xPc, xCmd, xPeer, xWire, xGot, xHandled, xDispatched, xSeen, xSends, xFaults>>

\* exchange up to the dispatch: the peer's ownership, the canonical JSON of the
\* body, the token, the command's contract.
Authenticate(c) ==
    /\ \/ /\ xJob[c] = "peer"
          /\ xJob' = [xJob EXCEPT ![c] = "decode"] /\ UNCHANGED xReply
       \/ /\ xJob[c] = "decode"
          /\ IF xWire[c][2] = "body" /\ c \notin XRawPeers
             THEN xJob' = [xJob EXCEPT ![c] = "dispatch"] /\ UNCHANGED xReply
             ELSE /\ xJob' = [xJob EXCEPT ![c] = "answer"]
                  /\ xReply' = [xReply EXCEPT ![c] = Rejected]
    /\ UNCHANGED <<xServer, xHeld, xPc, xCmd, xPeer, xWire, xGot, xHandled, xDispatched, xSeen, xSends, xFaults>>

\* The daemon's (or control plane's) answer: submit creates the request's run or
\* finds it again (a review packet is not checked afterwards); a command on a run the daemon does not know is refused.
Dispatch(c) ==
    /\ xJob[c] = "dispatch"
    /\ xDispatched' = [xDispatched EXCEPT ![c] = @ + 1]
    /\ LET q == xCmd[c].subject
           answer(r, s) == /\ xReply' = [xReply EXCEPT ![c] = [ok |-> TRUE, run |-> r, state |-> s]]
                           /\ xJob' = [xJob EXCEPT ![c] = IF xCmd[c].type = "PACKET" THEN "answer" ELSE "check"]
       IN \/ /\ xCmd[c].type = "RUN" /\ xRuns[q] = NoRun
             /\ xState' = Append(xState, 0) /\ xRuns' = [xRuns EXCEPT ![q] = Len(xState')]
             /\ answer(Len(xState'), 0)
          \/ /\ xCmd[c].type = "RUN" /\ xRuns[q] # NoRun
             /\ answer(xRuns[q], xState[xRuns[q]]) /\ UNCHANGED <<xState, xRuns>>
          \/ /\ xCmd[c].type # "RUN"
             /\ IF \E p \in XRequests : xRuns[p] = q
                THEN answer(q, xState[q])
                ELSE /\ xReply' = [xReply EXCEPT ![c] = Rejected]
                     /\ xJob' = [xJob EXCEPT ![c] = "answer"]
             /\ UNCHANGED <<xState, xRuns>>
    /\ UNCHANGED <<xEndpoint, xHeld, xPc, xCmd, xPeer, xWire, xGot, xHandled, xSeen, xSends, xFaults>>

\* verifyDaemonReplyV4 asks the daemon once more: a run that moved on since the
\* reply, or is not known any more, turns the reply into a rejection.
VerifyDaemonReply(c) ==
    /\ xJob[c] = "check"
    /\ LET r == xReply[c]
           known == \E p \in XRequests : xRuns[p] = r.run
       IN xReply' = [xReply EXCEPT ![c] = IF known /\ xState[r.run] = r.state THEN r ELSE Rejected]
    /\ xJob' = [xJob EXCEPT ![c] = "answer"]
    /\ UNCHANGED <<xServer, xHeld, xPc, xCmd, xPeer, xWire, xGot, xHandled, xDispatched, xSeen, xSends, xFaults>>

\* What the client takes: a reply about its own request, and never a second run
\* for a request it already has a run for.
Acceptable(c, r) ==
    \/ xCmd[c].type # "RUN" /\ r.run = xCmd[c].subject
    \/ xCmd[c].type = "RUN" /\ xAccepted[c][xCmd[c].subject] \in {NoRun, r.run}

\* socket.end of the response, which reaches a client that is still there.
Answer(c) ==
    /\ xJob[c] = "answer"
    /\ xJob' = [xJob EXCEPT ![c] = "none"]
    /\ LET r == xReply[c] IN
       IF xPc[c] = "wait" /\ xPeer[c] = "broker"
       THEN /\ IF r.ok /\ c \notin XRawPeers /\ Acceptable(c, r) /\ xCmd[c].type = "RUN"
               THEN /\ xAccepted' = [xAccepted EXCEPT ![c][xCmd[c].subject] = r.run]
                    /\ xResolved' = xResolved \cup {<<c, xCmd[c].subject, r.run>>}
               ELSE UNCHANGED <<xAccepted, xResolved>>
            /\ Hangup(c)
       ELSE UNCHANGED <<xAccepted, xResolved, xPeer, xPc, xHeld>>
    /\ UNCHANGED <<xServer, xCmd, xWire, xGot, xHandled, xReply, xDispatched, xTokenSeen, xSends, xFaults>>

\* The idle timer of the client's socket.
Deadline(c) ==
    /\ xPc[c] \in {"verify", "wait"}
    /\ Hangup(c)
    /\ UNCHANGED <<xServer, xCmd, xWire, xGot, xHandled, xJob, xReply, xDispatched, xSeen, xSends, xFaults>>

\* The server's end goes away: its own idle timer, or its process.  A reset is
\* an 'error', which send handles; an orderly end is not listened for, and the
\* destroyed socket has no timer left, so send stays pending.
PeerGone(c) ==
    /\ xPc[c] = "wait" /\ xPeer[c] # "nobody"
    /\ \/ Hangup(c)
       \/ XGo(c, "orphan") /\ xPeer' = [xPeer EXCEPT ![c] = "nobody"] /\ UNCHANGED xHeld
    /\ XFault
    /\ UNCHANGED <<xServer, xCmd, xWire, xGot, xHandled, xJob, xReply, xDispatched, xSeen, xSends>>

\* Outside: runs advance; the endpoint changes hands; the daemon's state
\* directory is replaced and a request gets a new run.
Advance(r) ==
    /\ r \in XRuns /\ xState[r] < MaxRunState
    /\ xState' = [xState EXCEPT ![r] = @ + 1]
    /\ UNCHANGED <<xEndpoint, xRuns, xHeld, xPc, xCmd, xConn, xSeen, xSends, xFaults>>

ChangeEndpoint(e) ==
    /\ e # xEndpoint /\ XFault /\ xEndpoint' = e
    /\ UNCHANGED <<xRuns, xState, xHeld, xPc, xCmd, xConn, xSeen, xSends>>

ForgetRuns ==
    /\ XFault /\ xRuns' = [q \in XRequests |-> NoRun]
    /\ UNCHANGED <<xEndpoint, xState, xHeld, xPc, xCmd, xConn, xSeen, xSends>>

XNext ==
    \/ \E c \in XClients :
        \/ Send(c) \/ Connect(c) \/ VerifyServer(c) \/ Authenticate(c) \/ Dispatch(c)
        \/ VerifyDaemonReply(c) \/ Answer(c) \/ Deadline(c) \/ PeerGone(c)
        \/ \E n \in 1..3 : Receive(c, n)
    \/ \E r \in XRuns : Advance(r)
    \/ \E e \in {"broker", "impostor", "nobody"} : ChangeEndpoint(e)
    \/ ForgetRuns

XSpec == XInit /\ [][XNext]_xVars

\* The client's own steps are taken by its event loop, and its timer fires; the
\* daemon may take as long as it likes.
XFair == \A c \in XClients : WF_xVars(Connect(c)) /\ WF_xVars(VerifyServer(c)) /\ WF_xVars(Deadline(c))

(* Properties. *)

\* A client never hands its caller two runs for one request, even when a broker
\* that lost its state answers the retry (acceptedRuns).
OneRunPerRequest ==
    \A x, y \in xResolved : x[1] = y[1] /\ x[2] = y[2] => x[3] = y[3]

\* However a frame is cut into chunks, at most one command of a connection reaches
\* the daemon, none of an unauthenticated peer, and the token reaches no
\* impostor that took the endpoint over.
ExchangeGuarded ==
    /\ \A c \in XClients : xDispatched[c] <= IF c \in XRawPeers THEN 0 ELSE 1
    /\ "impostor" \notin xTokenSeen

\* Requests are served once and only to those who may ask.
ExchangeSound == OneRunPerRequest /\ ExchangeGuarded

\* The connection was closed in order under a send: its promise is pending and its critical
\* section held from then on.
Orphaned(c) == xPc[c] = "orphan"

\* A send (submitOverSocket) ends by an answer, an error or its deadline, or it is orphaned.
SendEnds == \A c \in XClients : xPc[c] # "idle" ~> xPc[c] = "idle" \/ Orphaned(c)

\* A send ends by its deadline at the latest.  Does not hold: an orphaned one never does.
EverySendEnds == \A c \in XClients : xPc[c] # "idle" ~> xPc[c] = "idle"
=============================================================================
