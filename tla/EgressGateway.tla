---------------------------- MODULE EgressGateway ----------------------------
(***************************************************************************)
(* provider-egress-gateway.ts: the broker that starts a gateway container, *)
(* hands it the provider key over its standard input and returns a lease,  *)
(* and the gateway itself, which answers the executor's requests from the  *)
(* provider.  Name resolution may give other addresses at every lookup.    *)
(*                                                                         *)
(* An IPv4 address is its four octets, an IPv6 address its eight words;    *)
(* parsing the text is left out.                                           *)
(***************************************************************************)
EXTENDS Naturals, Sequences

CONSTANTS
    GwRequests,     \* requests of the executor
    Answers,      \* sets of addresses a lookup may return: sequences of octets or words
    Nowhere       \* no address

ASSUME AnswersAssumption ==
    \A found \in Answers : \A a \in found : a \in Seq(Nat) /\ Len(a) \in {4, 8}

VARIABLES
    lease,      \* the broker's progress
    gateway,    \* the container: none, up, gone, left to its record
    wired,      \* the networks the container is connected to
    serving,    \* the gateway listens, with the key
    ready,      \* its GATEWAY_READY line has been read
    req,        \* each request
    sentTo      \* the addresses the key has been sent to

gwVars == <<lease, gateway, wired, serving, ready, req, sentTo>>

LeaseSteps == {"none", "create", "wire", "attach", "boot", "await", "leased", "cleanup", "ended", "failed"}
ReqSteps   == {"none", "policy", "body", "lookup", "connect", "upstream", "broken", "allowed", "denied", "dropped"}

-----------------------------------------------------------------------------
(* isProviderEgressAddressAllowedV4. *)

PublicIpv4(a) ==
    LET first == a[1]  second == a[2]  third == a[3] IN
    ~ \/ first \in {0, 10, 127} \/ first >= 224
      \/ first = 100 /\ second \in 64..127
      \/ first = 169 /\ second = 254
      \/ first = 172 /\ second \in 16..31
      \/ first = 192 /\ (second = 168 \/ (second = 0 /\ third \in {0, 2}) \/ (second = 88 /\ third = 99))
      \/ first = 198 /\ (second \in {18, 19} \/ (second = 51 /\ third = 100))
      \/ first = 203 /\ second = 0 /\ third = 113

\* Mapped and compatible addresses are judged by the IPv4 address in them; of the rest only
\* global unicast, without 6to4, Teredo, documentation and ORCHID.
EgressAllowed(a) ==
    IF Len(a) = 4 THEN PublicIpv4(a)
    ELSE IF (\A i \in 1..5 : a[i] = 0) /\ a[6] \in {0, 65535}
    THEN PublicIpv4(<<a[7] \div 256, a[7] % 256, a[8] \div 256, a[8] % 256>>)
    ELSE /\ a[1] \div 8192 = 1 /\ a[1] # 8194
         /\ ~(a[1] = 8193 /\ (a[2] \in {0, 3512} \/ a[2] \div 16 = 1))

-----------------------------------------------------------------------------
GwInit ==
    /\ lease = "none" /\ gateway = "none" /\ wired = {} /\ serving = FALSE /\ ready = FALSE
    /\ req = [r \in GwRequests |-> [step |-> "none", target |-> Nowhere]]
    /\ sentTo = {}

Broker    == <<lease, gateway, wired, ready>>
Proxying  == <<req, sentTo>>
Stage(l)  == lease' = l

\* Request and networks are valid; the container is created by ContainerTransaction.
StartGateway ==
    /\ lease = "none" /\ Stage("create") /\ UNCHANGED <<gateway, wired, serving, ready, Proxying>>

CreateGateway ==
    /\ lease = "create" /\ UNCHANGED <<wired, serving, ready, Proxying>>
    /\ \/ Stage("wire") /\ gateway' = "up"
       \/ Stage("failed") /\ gateway' \in {"none", "left"}

\* Out of none, into the internal network, then into the outbound one.
WireGateway ==
    /\ lease = "wire" /\ UNCHANGED <<gateway, serving, ready, Proxying>>
    /\ \/ "internal" \notin wired /\ wired' = {"internal"} /\ UNCHANGED lease
       \/ "internal" \in wired /\ wired' = wired \cup {"outbound"} /\ Stage("attach")

AttachGateway == lease = "attach" /\ Stage("boot") /\ UNCHANGED <<gateway, wired, serving, ready, Proxying>>

\* The payload goes in once both bindings are seen; the gateway listens on the internal one
\* and says so.
BootGateway ==
    /\ lease = "boot" /\ wired = {"internal", "outbound"} /\ Stage("await")
    /\ UNCHANGED <<gateway, wired, serving, ready, Proxying>>

GatewayListens ==
    /\ lease \in {"await", "cleanup"} /\ gateway = "up" /\ ~serving /\ wired = {"internal", "outbound"}
    /\ serving' = TRUE /\ UNCHANGED <<Broker, Proxying>>

ReturnLease ==
    /\ lease = "await" /\ serving /\ ready' = TRUE /\ Stage("leased")
    /\ UNCHANGED <<gateway, wired, serving, Proxying>>

\* A command, the exit of the container, or the readiness timer; then the cleanup.
StartFails ==
    /\ lease \in {"wire", "attach", "boot", "await"} /\ Stage("cleanup")
    /\ UNCHANGED <<gateway, wired, serving, ready, Proxying>>

Revoke == lease = "leased" /\ Stage("cleanup") /\ UNCHANGED <<gateway, wired, serving, ready, Proxying>>

\* settleBoundedProcessAndCleanupV4: terminate the attach, remove the container; both are
\* tried whatever the other throws, and a lease whose cleanup threw can be revoked again.
CleanupGateway ==
    /\ lease = "cleanup" /\ UNCHANGED <<wired, ready, sentTo>>
    /\ \/ /\ gateway' = "gone" /\ serving' = FALSE /\ Stage(IF ready THEN "ended" ELSE "failed")
          /\ req' = [r \in GwRequests |-> IF req[r].step \in {"none", "allowed", "denied"} THEN req[r]
                                        ELSE [req[r] EXCEPT !.step = "dropped"]]
       \/ /\ gateway' = "left" /\ Stage(IF ready THEN "leased" ELSE "failed") /\ UNCHANGED <<serving, req>>

-----------------------------------------------------------------------------
(* proxyRequest. *)

GwMove(r, l) == req' = [req EXCEPT ![r].step = l] /\ UNCHANGED <<Broker, serving>>

\* The audit line and the response: deny is also the answer to a policy error, an oversized
\* body, a lookup or a connection that failed, and a redirect.
Deny(r) == GwMove(r, "denied")

Arrives(r) == serving /\ req[r].step = "none" /\ GwMove(r, "policy") /\ UNCHANGED sentTo

\* Method, path and target headers; then the bounded body.
CheckPolicy(r) ==
    /\ serving /\ req[r].step = "policy" /\ UNCHANGED sentTo
    /\ \/ Deny(r)
       \/ GwMove(r, "body")

ReadBody(r) ==
    /\ serving /\ req[r].step = "body" /\ UNCHANGED sentTo
    /\ \/ Deny(r)
       \/ GwMove(r, "lookup")

\* Every address of the answer must be allowed; the first is pinned.
Lookup(r) ==
    /\ serving /\ req[r].step = "lookup" /\ UNCHANGED sentTo
    /\ \E found \in Answers :
        IF \E a \in found : ~EgressAllowed(a) THEN Deny(r)
        ELSE \E a \in found :
                /\ req' = [req EXCEPT ![r].step = "connect", ![r].target = a]
                /\ UNCHANGED <<Broker, serving>>

\* Mutant: the connection looks the name up again.
ConnectByName(r) ==
    /\ serving /\ req[r].step = "connect"
    /\ \E found \in Answers : \E a \in found :
        /\ sentTo' = sentTo \cup {a} /\ GwMove(r, "upstream")

\* The key travels to the pinned address.
ConnectUpstream(r) ==
    /\ serving /\ req[r].step = "connect"
    /\ \/ sentTo' = sentTo \cup {req[r].target} /\ GwMove(r, "upstream")
       \/ Deny(r) /\ UNCHANGED sentTo

\* The provider answers, redirects, stays silent until the timeout, or its response breaks
\* off or grows too large after its headers: no callback of the code sees that one.
UpstreamEnds(r) ==
    /\ serving /\ req[r].step = "upstream" /\ UNCHANGED sentTo
    /\ \/ GwMove(r, "allowed") \/ Deny(r)
       \/ GwMove(r, "broken")

-----------------------------------------------------------------------------
GwNext ==
    \/ StartGateway \/ CreateGateway \/ WireGateway \/ AttachGateway \/ BootGateway \/ GatewayListens
    \/ ReturnLease \/ StartFails \/ Revoke \/ CleanupGateway
    \/ \E r \in GwRequests : Arrives(r) \/ CheckPolicy(r) \/ ReadBody(r) \/ Lookup(r) \/ ConnectUpstream(r) \/ UpstreamEnds(r)

GwSpec == GwInit /\ [][GwNext]_gwVars

\* The state of the gateway and its requests has its type.
GwTypeOK ==
    /\ lease \in LeaseSteps /\ gateway \in {"none", "up", "gone", "left"}
    /\ wired \in SUBSET {"internal", "outbound"} /\ serving \in BOOLEAN /\ ready \in BOOLEAN
    /\ \A r \in GwRequests : req[r].step \in ReqSteps
    /\ sentTo \in SUBSET UNION Answers

-----------------------------------------------------------------------------
(* The reserved blocks of the address registries, as a first address and a length. *)

\* Whether the first `bits` bits of a are those of the block.  Compared octet by octet.
InBlock(a, block, bits) ==
    \A i \in 1..4 :
        LET left == IF bits >= 8 * i THEN 8 ELSE IF bits <= 8 * (i - 1) THEN 0 ELSE bits - 8 * (i - 1) IN
        a[i] \div 2^(8 - left) = block[i] \div 2^(8 - left)

ReservedIpv4 ==
    { <<<<0,0,0,0>>, 8>>, <<<<10,0,0,0>>, 8>>, <<<<100,64,0,0>>, 10>>, <<<<127,0,0,0>>, 8>>,
      <<<<169,254,0,0>>, 16>>, <<<<172,16,0,0>>, 12>>, <<<<192,0,0,0>>, 24>>, <<<<192,0,2,0>>, 24>>,
      <<<<192,88,99,0>>, 24>>, <<<<192,168,0,0>>, 16>>, <<<<198,18,0,0>>, 15>>, <<<<198,51,100,0>>, 24>>,
      <<<<203,0,113,0>>, 24>>, <<<<224,0,0,0>>, 4>>, <<<<240,0,0,0>>, 4>> }

CarriesIpv4(a) == Len(a) = 4 \/ ((\A i \in 1..5 : a[i] = 0) /\ a[6] \in {0, 65535})
UnreservedIpv4(a) == \A b \in ReservedIpv4 : ~InBlock(a, b[1], b[2])
GlobalIpv6(a) == a[1] \in 8192..16383 /\ a[1] # 8194 /\ ~(a[1] = 8193 /\ a[2] \in {0, 3512} \cup (16..31))

Global(a) ==
    LET v4 == IF Len(a) = 4 THEN a ELSE <<a[7] \div 256, a[7] % 256, a[8] \div 256, a[8] % 256>> IN
    IF CarriesIpv4(a) THEN UnreservedIpv4(v4) ELSE GlobalIpv6(a)

\* The provider key is sent to global addresses only, whatever name resolution says before
\* and after the check, and each address of an answer is judged as the registries do.
KeyStaysGlobal == \A a \in sentTo : Global(a)

\* A lease is returned for a gateway that listens with its key in both networks, and when
\* start or revoke have ended the container is gone or left to its record.
LeaseIsServed ==
    /\ lease = "leased" /\ gateway = "up" => serving /\ wired = {"internal", "outbound"}
    /\ lease \in {"ended", "failed"} => gateway # "up"

\* The key stays with the provider, and a lease stands for a gateway that serves.
GatewaySound == KeyStaysGlobal /\ LeaseIsServed
=============================================================================
