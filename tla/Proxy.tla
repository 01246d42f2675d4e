-------------------------------- MODULE Proxy --------------------------------
(***************************************************************************)
(* The life of the connections the proxy serves: Main.c (accept, read,     *)
(* DNS answer, timeout), PorxyClient.c (the connection to the target) and  *)
(* the close callback of Global.c.                                         *)
(*                                                                         *)
(* The program is one libuv loop, so a callback runs to its end before the *)
(* next one starts: every action below is one whole callback.  Which       *)
(* pending callback runs next is up to the loop, the peers and the         *)
(* resolver, and is left open.                                             *)
(*                                                                         *)
(* The bytes relayed are not here: read_data with state = 1,               *)
(* read_data_porxy with nread > 0 and on_write leave everything this       *)
(* module keeps unchanged.                                                 *)
(***************************************************************************)
EXTENDS Client

CONSTANTS
    Clients,     \* the structs Create_client may return, one per connection
    TimeOut,     \* SERVER_CONFIG.timeOut
    Dns,         \* the addresses set in SERVER_CONFIG.dns; {}: the system resolver
    MaxQueries,  \* bound: DNS requests one connection may have in flight
    Mishaps      \* what the environment of this instance may do wrong

(* The calls that can fail and the one thing a client can do that its      *)
(* protocol does not expect:                                               *)
(*   accept      uv_accept fails         read_start  uv_read_start fails   *)
(*   connect     uv_tcp_connect fails at once                              *)
(*   query       a DNS request cannot be sent                              *)
(*   early_data  a client sends on before its first request is answered    *)
MishapKinds == {"accept", "read_start", "connect", "query", "early_data"}

ASSUME TimeOutAssumption == TimeOut \in Nat
ASSUME DnsAssumption == Dns \in {{}, {"dns_1"}, {"dns_1", "dns_2"}}
ASSUME MaxQueriesAssumption == MaxQueries \in Nat \ {0}
ASSUME MishapsAssumption == Mishaps \subseteq MishapKinds

VARIABLES
    client,       \* the Client struct of each connection
    client_count  \* the global of Global.c

vars == <<client, client_count>>

(* Whether a call of this kind succeeds. *)
Outcomes(kind) == IF kind \in Mishaps THEN BOOLEAN ELSE {TRUE}

Init ==
    /\ client = [c \in Clients |-> Unused]
    /\ client_count = 0

(* Nothing is said about the program once a fault has happened. *)
Running == \A c \in Clients : client[c].fault = "none"

(* A callback turns the struct of c into cl; unref_client counts the       *)
(* connection off when it frees the struct.                                *)
Handle(c, cl) ==
    /\ Running
    /\ client[c].mem = "live"
    /\ client' = [client EXCEPT ![c] = cl]
    /\ client_count' = IF cl.mem = "freed" THEN client_count - 1 ELSE client_count

-----------------------------------------------------------------------------
(* PorxyClient.c, ConnectTargetServer: the handle is initialised whatever  *)
(* uv_tcp_connect returns; its data is set only if the connect was         *)
(* started.                                                                *)
ConnectTargetServer(cl, started) ==
    LET inited == uv_init(cl, "targetClient")
    IN  IF started
        THEN [inited EXCEPT !.data = @ \cup {"targetClient"}, !.connecting = TRUE]
        ELSE inited

(* SendDNS.c, as far as the Client is concerned: on_dns is now awaited. *)
send_dns_query(cl, server) == [cl EXCEPT !.dns[server] = @ + 1]

(* The answer could not be used, and there is no server left to ask. *)
GiveUp(cl) == unref_client(uv_close(cl, "proxyClient"))

(* Main.c, on_dns: the callback of one DNS request, sent to server, with   *)
(* status 1 (an address), -1 (timeout) or -2 (no such host).  The caller   *)
(* has taken the request off cl.dns.                                       *)
on_dns(cl, server, status, connectOk, queryOk) ==
    LET connected == ConnectTargetServer(ref_client(cl), connectOk)
        retry     == server = "dns_1" /\ "dns_2" \in Dns /\ queryOk
    IN  CASE ~IsUp(cl, "proxyClient") -> unref_client(cl)
          [] IsUp(cl, "proxyClient") /\ status = 1 ->
                IF connectOk THEN unref_client([connected EXCEPT !.state = 1])
                             ELSE GiveUp(connected)
          [] OTHER ->
                IF retry THEN send_dns_query(cl, "dns_2") ELSE GiveUp(cl)

(* SendDNS.c, send_default_dns: the system resolver blocks the loop, and   *)
(* on_dns has run when the call returns.                                   *)
send_default_dns(cl, connectOk) == on_dns(cl, "none", 1, connectOk, TRUE)

-----------------------------------------------------------------------------
(* on_new_connection *)

(* Mutation of Accepted: the running timer owns no reference. *)
Accepted_uncounted(readOk) ==
    LET cl    == [ref_client(uv_init(Create_client, "proxyClient")) EXCEPT !.data = {"proxyClient"}]
        timed == [uv_init(cl, "timeout_timer") EXCEPT !.data = @ \cup {"timeout_timer"}, !.armed = TRUE]
    IN  IF readOk THEN timed ELSE uv_close(timed, "proxyClient")

Accepted(readOk) ==
    LET timed == TimeOut # 0
        cl    == [ref_client(uv_init(Create_client, "proxyClient")) EXCEPT !.data = {"proxyClient"}]
        withTimer ==
            ref_client([uv_init(cl, "timeout_timer") EXCEPT
                            !.data = @ \cup {"timeout_timer"},
                            !.armed = TRUE])
        ready == IF timed THEN withTimer ELSE cl
    IN  IF readOk THEN ready ELSE uv_close(ready, "proxyClient")

(* uv_accept failed: the handle is closed before its data was set. *)
NotAccepted == uv_close(ref_client(uv_init(Create_client, "proxyClient")), "proxyClient")

on_new_connection(c) ==
    /\ Running
    /\ client[c].mem = "unused"
    /\ \/ \E readOk \in Outcomes("read_start") :
             client' = [client EXCEPT ![c] = Accepted(readOk)]
       \/ /\ "accept" \in Mishaps
          /\ client' = [client EXCEPT ![c] = NotAccepted]
    /\ client_count' = client_count + 1

-----------------------------------------------------------------------------
(* read_data: the proxy side of the connection is readable as long as it   *)
(* is open.                                                                *)
Readable(c) == client[c].handle["proxyClient"] = "open"

(* Mutation of read_data_end: the target is left to its own end. *)
read_data_end_alone(c) ==
    /\ Readable(c)
    /\ Handle(c, uv_close(client[c], "proxyClient"))

(* nread <= 0: the client is gone, or the read came back empty. *)
read_data_end(c) ==
    /\ Readable(c)
    /\ Handle(c, CloseIfUp(uv_close(client[c], "proxyClient"), "targetClient"))

(* The branch "first connection" is taken by every read until state is 1;  *)
(* a well-behaved client sends one request and waits for its answer.       *)
FirstRequest(c) ==
    /\ Readable(c)
    /\ client[c].state = 0
    /\ client[c].host => "early_data" \in Mishaps

(* The header does not parse, or a plain request lacks its proxy headers. *)
read_data_rejected(c) ==
    /\ FirstRequest(c)
    /\ Handle(c, uv_close(client[c], "proxyClient"))

(* Mutation of Requested: no reference for the callback to come. *)
Requested_uncounted(cl) == [cl EXCEPT !.host = TRUE]

(* The host of the request is kept and on_dns, or the target, gets a       *)
(* reference.                                                              *)
Requested(cl) == ref_client([cl EXCEPT !.host = TRUE])

(* The host is an address: connect right away. *)
read_data_address(c) ==
    /\ FirstRequest(c)
    /\ \E connectOk \in Outcomes("connect") :
          LET connected == ConnectTargetServer(Requested(client[c]), connectOk)
          IN  Handle(c, IF connectOk THEN [connected EXCEPT !.state = 1]
                                     ELSE unref_client(connected))

(* The host is a name: it is resolved at once, or a request is sent and    *)
(* on_dns is left to a later callback.                                     *)
Resolve(c, queryOk) ==
    /\ FirstRequest(c)
    /\ InFlight(client[c]) < MaxQueries
    /\ \E connectOk \in Outcomes("connect") :
          LET requested == Requested(client[c])
          IN  Handle(c,
                CASE ~queryOk -> uv_close(unref_client(requested), "proxyClient")
                  [] queryOk /\ Dns = {} -> send_default_dns(requested, connectOk)
                  [] OTHER -> send_dns_query(requested, "dns_1"))

read_data_name(c) == \E queryOk \in Outcomes("query") : Resolve(c, queryOk)

-----------------------------------------------------------------------------
(* Mutation of DnsReply: an answered request can still time out. *)
DnsReply_again(c, server, status, queryOk) ==
    Handle(c, on_dns([client[c] EXCEPT !.dns[server] = @ - 1], server, status, TRUE, queryOk))

(* One request at this server is answered or times out; queryOk: another   *)
(* one can be sent.                                                        *)
DnsReply(c, server, status, queryOk) ==
    /\ client[c].dns[server] > 0
    /\ \E connectOk \in Outcomes("connect") :
          Handle(c, on_dns([client[c] EXCEPT !.dns[server] = @ - 1],
                           server, status, connectOk, queryOk))

DnsAnswer(c, server) ==
    \E status \in {1, -1, -2}, queryOk \in Outcomes("query") :
        DnsReply(c, server, status, queryOk)

-----------------------------------------------------------------------------
(* on_connect_porxy: libuv calls it with the outcome of the connect, or    *)
(* with UV_ECANCELED on its way to close the target.                       *)
on_connect_porxy(c) ==
    LET done == [client[c] EXCEPT !.connecting = FALSE]
        CloseBoth == CloseIfUp(CloseIfUp(done, "targetClient"), "proxyClient")
    IN  /\ client[c].connecting
        /\ \/ /\ client[c].handle["targetClient"] = "open"
              /\ Handle(c, done)
           \/ Handle(c, CloseBoth)

(* Mutation of read_data_porxy_end: the client is not told. *)
read_data_porxy_end_alone(c) ==
    /\ IsUp(client[c], "targetClient")
    /\ ~client[c].connecting
    /\ Handle(c, uv_close(client[c], "targetClient"))

(* read_data_porxy with nread <= 0: the target is read once it is          *)
(* connected.                                                              *)
read_data_porxy_end(c) ==
    /\ IsUp(client[c], "targetClient")
    /\ ~client[c].connecting
    /\ Handle(c, CloseIfUp(uv_close(client[c], "targetClient"), "proxyClient"))

(* Mutation of on_timeout: only the client's side is closed. *)
on_timeout_alone(c) ==
    /\ client[c].handle["timeout_timer"] = "open"
    /\ client[c].armed
    /\ Handle(c, CloseIfUp([client[c] EXCEPT !.armed = FALSE], "proxyClient"))

(* The timer was started with repeat 0: it fires once, and uv_timer_again  *)
(* in the read handlers leaves it as it is.                                *)
on_timeout(c) ==
    /\ client[c].handle["timeout_timer"] = "open"
    /\ client[c].armed
    /\ LET stopped == [client[c] EXCEPT !.armed = FALSE]
       IN  Handle(c, CloseIfUp(CloseIfUp(stopped, "proxyClient"), "targetClient"))

(* The loop's closing phase; the connect request of a stream is cancelled  *)
(* before the stream's close callback runs.                                *)
Closed(c, h) ==
    /\ client[c].handle[h] = "closing"
    /\ h = "targetClient" => ~client[c].connecting
    /\ Handle(c, close_cb(client[c], h))

Next ==
    \E c \in Clients :
        \/ on_new_connection(c)
        \/ read_data_end(c)
        \/ read_data_rejected(c)
        \/ read_data_address(c)
        \/ read_data_name(c)
        \/ \E s \in DnsServers : DnsAnswer(c, s)
        \/ on_connect_porxy(c)
        \/ read_data_porxy_end(c)
        \/ on_timeout(c)
        \/ \E h \in Handles : Closed(c, h)

Spec == Init /\ [][Next]_vars

(* The loop runs its closing phase in every iteration, a DNS request has   *)
(* a timer of its own (SendDNS), and so has the connection if TimeOut is   *)
(* not 0.  Peers owe nothing.                                              *)
Fairness ==
    \A c \in Clients :
        /\ \A h \in Handles : WF_vars(Closed(c, h))
        /\ \A s \in DnsServers : WF_vars(DnsAnswer(c, s))
        /\ WF_vars(client[c].handle["targetClient"] = "closing" /\ on_connect_porxy(c))
        /\ WF_vars(on_timeout(c))

FairSpec == Spec /\ Fairness
=============================================================================
