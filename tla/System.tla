------------------------------- MODULE System -------------------------------
(***************************************************************************)
(* The connections of Proxy and the DNS requests of SendDNS together.      *)
(* Proxy only counts the requests a connection has in flight and lets each *)
(* be answered some day; here each is a request of SendDNS, with a socket, *)
(* a timer and an owner, and the answer on_dns gets is the one the request *)
(* brings.                                                                 *)
(*                                                                         *)
(* A step of both modules is the conjunction of their actions: the query   *)
(* is sent by the callback that needs it, and on_dns runs inside the       *)
(* callback of the request.                                                *)
(***************************************************************************)
EXTENDS ProxyProperties

CONSTANT Requests

(* The system resolver, Dns = {}, makes no request. *)
ASSUME OwnServersAssumption == Dns # {}

VARIABLES
    request,  \* the dns_request_t of each call of send_dns_query
    owner     \* its client_data and its dns_address

D == INSTANCE SendDNS

sysVars == <<client, client_count, request, owner>>

Nobody == <<"none", "none">>

SysInit ==
    /\ Init
    /\ D!Init
    /\ owner = [r \in Requests |-> Nobody]

(* The requests made by this step. *)
Made == {r \in Requests : request'[r].returned # request[r].returned}

Sent(r) == request'[r].returned = 1

(* Its callback is still to come. *)
Pending(r) == request[r].returned = 1 /\ request[r].calls = 0

-----------------------------------------------------------------------------
(* Mutation of Asked: the second server is asked first. *)
Asked_second(c) == <<c, "dns_2">>

(* read_data sends its query to the first server; the request keeps the    *)
(* client for on_dns.                                                      *)
Asked(c) == <<c, "dns_1">>

Ask(c) ==
    \E r \in Requests :
        /\ D!Call(r)
        /\ Sent(r) \in Outcomes("query")
        /\ Resolve(c, Sent(r))
        /\ owner' = [owner EXCEPT ![r] = Asked(c)]

(* Mutation of AskedAgain: it goes to the server that failed. *)
AskedAgain_same(r) == owner[r]

(* on_dns tries the second server if the client is there and the first one *)
(* failed.                                                                 *)
AskedAgain(r) == <<owner[r][1], "dns_2">>

AsksAgain(r, status) ==
    /\ IsUp(client[owner[r][1]], "proxyClient")
    /\ status # 1
    /\ owner[r][2] = "dns_1"
    /\ "dns_2" \in Dns

(* on_dns inside the callback of request r: its answer, and whether the    *)
(* query to the second server could be sent, are what SendDNS says.        *)
on_dns_called(r) ==
    LET status     == request'[r].status
        Reply(ok)  == DnsReply(owner[r][1], owner[r][2], status, ok)
    IN  IF AsksAgain(r, status)
        THEN \E n \in Made :
                /\ Sent(n) \in Outcomes("query")
                /\ Reply(Sent(n))
                /\ owner' = [owner EXCEPT ![n] = AskedAgain(r)]
        ELSE Made = {} /\ Reply(FALSE) /\ UNCHANGED owner

Answer(r) == Pending(r) /\ D!on_udp_read(r) /\ on_dns_called(r)

TimesOut(r) == Pending(r) /\ D!on_dns_timeout(r) /\ on_dns_called(r)

(* The callbacks of a request the client has no part in. *)
Alone(r) ==
    /\ D!on_udp_send(r) \/ \E h \in D!DnsHandles : D!on_dns_close(r, h)
    /\ UNCHANGED <<client, client_count, owner>>

(* The callbacks of a connection that involve no request. *)
OfClient(c) ==
    /\ \/ on_new_connection(c)
       \/ read_data_end(c)
       \/ read_data_rejected(c)
       \/ read_data_address(c)
       \/ on_connect_porxy(c)
       \/ read_data_porxy_end(c)
       \/ on_timeout(c)
       \/ \E h \in Handles : Closed(c, h)
    /\ UNCHANGED <<request, owner>>

SysNext ==
    \/ \E c \in Clients : OfClient(c) \/ Ask(c)
    \/ \E r \in Requests : Answer(r) \/ TimesOut(r) \/ Alone(r)

SysSpec == SysInit /\ [][SysNext]_sysVars

(* The loop's own duties, as in Proxy and SendDNS: closing, due timers,    *)
(* cancelled connects.  No answer of a DNS server is among them.           *)
SysFairness ==
    /\ \A c \in Clients :
          /\ \A h \in Handles : WF_sysVars(OfClient(c) /\ Closed(c, h))
          /\ WF_sysVars(client[c].handle["targetClient"] = "closing"
                            /\ OfClient(c) /\ on_connect_porxy(c))
          /\ WF_sysVars(OfClient(c) /\ on_timeout(c))
    /\ \A r \in Requests : WF_sysVars(TimesOut(r)) /\ WF_sysVars(Alone(r))

SysFairSpec == SysSpec /\ SysFairness

-----------------------------------------------------------------------------
(* What Proxy counts is there: the requests in flight of a connection at a *)
(* server are those SendDNS still has a callback to make for, after every  *)
(* failure, retry and timeout on either side.                              *)
QueriesCounted ==
    \A c \in Clients, s \in DnsServers :
        client[c].dns[s] = Cardinality({r \in Requests : Pending(r) /\ owner[r] = <<c, s>>})

(* The Client a request will hand to on_dns is not freed while it waits    *)
(* (dns_response_t.client_data, kept by the ref_client of read_data).      *)
ClientOutlivesQuery ==
    \A r \in Requests : Pending(r) => client[owner[r][1]].mem = "live"

(* A name is asked at the second server only when the first has failed it, *)
(* and a success of the first is final (on_dns, the retry).                *)
SecondAfterFirst ==
    \A r \in Requests :
        owner[r][2] = "dns_2" =>
            \E first \in Requests :
                /\ owner[first] = <<owner[r][1], "dns_1">>
                /\ request[first].calls = 1
                /\ request[first].status # 1

(* With a DNS request's own timer the connections do all that Proxy says,  *)
(* its fairness included: every request is answered.                       *)
ImplementsProxy == FairSpec

-----------------------------------------------------------------------------
(* What the code does not keep to; no run checks it (README.md).           *)

(* A connection is started to an address the answer held: ConnectTarget-   *)
(* Server has no other (PorxyClient.h).                                    *)
ConnectsToAddress ==
    [][\A r \in Requests :
          request'[r].calls # request[r].calls
                /\ client'[owner[r][1]].connecting /\ ~client[owner[r][1]].connecting
              => request'[r].address = "A"]_sysVars
=============================================================================
