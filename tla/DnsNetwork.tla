----------------------------- MODULE DnsNetwork -----------------------------
(***************************************************************************)
(* SendDNS over a network: the ports of its sockets and the datagrams      *)
(* under way.  A datagram that was sent stays in wire and may arrive at    *)
(* any time, any number of times, in any order, or never.  Anyone may send *)
(* one to an open port, and a port that was closed may be given out again. *)
(*                                                                         *)
(* Each request looks up a name of its own, so a request stands for its    *)
(* name, too.  The actions of SendDNS are taken whole, so every behaviour  *)
(* of DnsNetwork is one of SendDNS.                                        *)
(***************************************************************************)
EXTENDS SendDNS

CONSTANTS
    Ports,     \* the local ports the system hands out
    MayQueue   \* TRUE: uv_udp_send may find the socket not ready to send

ASSUME MayQueueAssumption == MayQueue \in BOOLEAN

VARIABLES
    port,    \* of each request: the port of its socket
    queued,  \* the requests whose datagram libuv still holds
    wire,    \* the datagrams sent so far, by either side
    heard    \* of each request: what its answer is an answer to

netVars == <<request, port, queued, wire, heard>>

(* The bytes of a stack frame that is gone. *)
Garbage == "garbage"
Nothing == "none"

(* What somebody sends who was not asked. *)
Stranger == "stranger"

(* None of these is a request. *)
ASSUME MarksAssumption == Requests \cap {Garbage, Nothing, Stranger} = {}

NetInit ==
    /\ Init
    /\ port = [r \in Requests |-> Nothing]
    /\ queued = {}
    /\ wire = {}
    /\ heard = [r \in Requests |-> Nothing]

-----------------------------------------------------------------------------
(* The socket is bound, from the call until uv_close. *)
Bound(r) == request[r].returned = 1 /\ request[r].handle["udp_handle"] = "open"

(* Mutation of FreePorts: the socket is bound so that others may share its *)
(* port (UV_UDP_REUSEADDR).                                                *)
FreePorts_shared == Ports

(* uv_udp_bind to port 0: a port no socket has, though one may have had it. *)
FreePorts == {p \in Ports : \A r \in Requests : Bound(r) => port[r] # p}

ToServer(name, p) == [to |-> "server", name |-> name, port |-> p]
ToClient(name, p) == [to |-> "client", name |-> name, port |-> p]

(* The request this step makes, if it makes one. *)
Asked == {r \in Requests : request[r].returned # 1 /\ request'[r].returned = 1}

(* Its datagram is sent at once or, if the socket is not ready, queued: a  *)
(* pointer to the local array dns_packet.                                  *)
Send ==
    IF Asked = {} THEN UNCHANGED <<port, queued, wire>>
    ELSE \E r \in Asked, p \in FreePorts :
            /\ port' = [port EXCEPT ![r] = p]
            /\ \/ wire' = wire \cup {ToServer(r, p)} /\ UNCHANGED queued
               \/ MayQueue /\ queued' = queued \cup {r} /\ UNCHANGED wire

NetCall(r) == Call(r) /\ Send /\ UNCHANGED heard

(* The socket is ready: what dns_packet's place on the stack holds now.    *)
Flush(r) ==
    /\ Running
    /\ r \in queued
    /\ Bound(r)
    /\ queued' = queued \ {r}
    /\ \E name \in {r, Garbage} : wire' = wire \cup {ToServer(name, port[r])}
    /\ UNCHANGED <<request, port, heard>>

Sent(r) ==
    /\ on_udp_send(r)
    /\ r \in queued => ~Bound(r)
    /\ queued' = queued \ {r}
    /\ UNCHANGED <<port, wire, heard>>

(* A DNS server: external.  It cannot read garbage. *)
ServerAnswers ==
    /\ Running
    /\ \E d \in wire :
          /\ d.to = "server"
          /\ d.name # Garbage
          /\ wire' = wire \cup {ToClient(d.name, d.port)}
    /\ UNCHANGED <<request, port, queued, heard>>

(* What may come to the port of r. *)
Arrivals(r) == {d.name : d \in {e \in wire : e.to = "client" /\ e.port = port[r]}} \cup {Stranger}

(* on_udp_read: whatever comes to the port is the answer; neither the      *)
(* sender nor the id nor the question is compared.                         *)
Receive(r) ==
    /\ Bound(r)
    /\ \E name \in Arrivals(r) : heard' = [heard EXCEPT ![r] = name]
    /\ on_udp_read(r)
    /\ Send

TimesOut(r) == on_dns_timeout(r) /\ Send /\ UNCHANGED heard

Closed(r) ==
    /\ \E h \in DnsHandles : on_dns_close(r, h)
    /\ UNCHANGED <<port, queued, wire, heard>>

NetNext ==
    \/ ServerAnswers
    \/ \E r \in Requests :
          NetCall(r) \/ Flush(r) \/ Sent(r) \/ Receive(r) \/ TimesOut(r) \/ Closed(r)

NetSpec == NetInit /\ [][NetNext]_netVars

(* The fairness of SendDNS.  Nothing is assumed of the network: datagrams  *)
(* may all be lost, and a socket may never be ready to send.               *)
NetFairness ==
    \A r \in Requests :
        WF_netVars(TimesOut(r)) /\ WF_netVars(Sent(r)) /\ WF_netVars(Closed(r))

NetFairSpec == NetSpec /\ NetFairness

-----------------------------------------------------------------------------
(* Two requests that wait at the same time do not take each other's        *)
(* answers, however late, often or out of order these come, although       *)
(* on_udp_read compares nothing (SendDNS.c:136): when one takes an answer  *)
(* to another, the other waits no more.                                    *)
NotStolen ==
    [][\A r, q \in Requests :
          q # r /\ heard[r] # q /\ heard'[r] = q => ~Bound(q)]_netVars

(* What was answered was heard, and a request that heard an answer in time *)
(* is no timeout: answer and timer do not both report (SendDNS.c:206).     *)
HeardOrTimedOut ==
    \A r \in Requests :
        request[r].calls > 0 => (heard[r] = Nothing <=> request[r].status = -1)

-----------------------------------------------------------------------------
(* What the code does not keep to; no run checks these (README.md).        *)

(* The answer a request takes is one to its own question (SendDNS.c:136).  *)
OwnAnswer == \A r \in Requests : heard[r] \in {r, Nothing}

(* What a server gets is the query that was made (SendDNS.c:297).          *)
QueryIntact == \A d \in wire : d.to = "server" => d.name # Garbage
=============================================================================
