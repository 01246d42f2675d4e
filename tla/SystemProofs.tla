---------------------------- MODULE SystemProofs ----------------------------
(***************************************************************************)
(* The composition of connections and DNS requests, for every number of    *)
(* both: it implements Proxy, so what is proved of Proxy holds in it, and  *)
(* what Proxy counts is there.                                             *)
(***************************************************************************)
EXTENDS System, ProxyProofs

DP == INSTANCE SendDNSProofs

(* The requests connection c awaits of server s. *)
Waiting(c, s) == {r \in Requests : Pending(r) /\ owner[r] = <<c, s>>}

SysInv ==
    /\ CoverInv
    /\ DP!IInv
    /\ owner \in [Requests -> (Clients \X DnsServers) \cup {Nobody}]
    /\ \A r \in Requests : request[r].returned = 0 <=> owner[r] = Nobody
    /\ \A c \in Clients, s \in DnsServers :
          IsFiniteSet(Waiting(c, s)) /\ client[c].dns[s] = Cardinality(Waiting(c, s))
    /\ SecondAfterFirst

-----------------------------------------------------------------------------
(* What a call leaves of the requests a connection has in flight.          *)
SameDns(cl, new) == Typed(new) /\ new.dns = cl.dns

LEMMA FailDns ==
    ASSUME NEW cl, Typed(cl), NEW kind \in FaultKinds
    PROVE  SameDns(cl, Fail(cl, kind))
BY DEF Fail, SameDns, Typed, ClientRec

LEMMA CloseDns ==
    ASSUME NEW cl, Typed(cl), NEW h \in Handles
    PROVE  SameDns(cl, uv_close(cl, h)) /\ SameDns(cl, CloseIfUp(cl, h))
<1>1. SameDns(cl, uv_close(cl, h))
  <2>1. uv_close(cl, h) \in {Fail(cl, "use_after_free"), Fail(cl, "double_close"),
                            [cl EXCEPT !.handle[h] = "closing"]}
    BY DEF uv_close
  <2>2. SameDns(cl, [cl EXCEPT !.handle[h] = "closing"])
    BY DEF SameDns, Typed, ClientRec, HandleStatus
  <2> QED
    BY <2>1, <2>2, FailDns DEF FaultKinds
<1> QED
  BY <1>1 DEF CloseIfUp, SameDns

LEMMA RefDns ==
    ASSUME NEW cl, Typed(cl)
    PROVE  SameDns(cl, ref_client(cl))
BY DEF ref_client, SameDns, Typed, ClientRec

LEMMA UnrefDns ==
    ASSUME NEW cl, Typed(cl)
    PROVE  SameDns(cl, unref_client(cl))
<1> DEFINE dropped == [cl EXCEPT !.ref_count = @ - 1]
           freed   == [dropped EXCEPT !.mem = "freed"]
<1>1. SameDns(cl, dropped)
  BY DEF SameDns, Typed, ClientRec
<1>2. SameDns(cl, freed)
  <2> HIDE DEF dropped
  <2> QED
    BY <1>1 DEF SameDns, Typed, ClientRec
<1>3. unref_client(cl) \in {Fail(cl, "use_after_free"), dropped, Fail(freed, FreeFault(cl))}
  BY DEF unref_client
<1>4. FreeFault(cl) \in FaultKinds
  BY DEF FreeFault, FaultKinds
<1> HIDE DEF dropped, freed
<1> QED
  BY <1>1, <1>2, <1>3, <1>4, FailDns DEF SameDns, FaultKinds

LEMMA ConnectDns ==
    ASSUME NEW cl, Typed(cl), NEW started \in BOOLEAN
    PROVE  SameDns(cl, ConnectTargetServer(cl, started))
<1> DEFINE inited == uv_init(cl, "targetClient")
           up     == [inited EXCEPT !.data = @ \cup {"targetClient"}, !.connecting = TRUE]
<1>1. ConnectTargetServer(cl, started) = IF started THEN up ELSE inited
  BY DEF ConnectTargetServer
<1>2. inited \in {[cl EXCEPT !.handle["targetClient"] = "open"], Fail(cl, "reinit")}
  BY DEF uv_init
<1>3. SameDns(cl, [cl EXCEPT !.handle["targetClient"] = "open"])
  BY DEF SameDns, Typed, ClientRec, Handles, Sockets, HandleStatus
<1>4. SameDns(cl, inited)
  BY <1>2, <1>3, FailDns DEF FaultKinds
<1> HIDE DEF inited
<1>5. SameDns(cl, up)
  BY <1>4 DEF SameDns, Typed, ClientRec, Handles, Sockets
<1> QED
  BY <1>1, <1>4, <1>5

LEMMA GiveUpDns ==
    ASSUME NEW cl, Typed(cl)
    PROVE  SameDns(cl, GiveUp(cl))
<1>1. SameDns(cl, uv_close(cl, "proxyClient"))
  BY CloseDns DEF Handles, Sockets
<1> QED
  BY <1>1, UnrefDns DEF GiveUp, SameDns

LEMMA RequestedDns ==
    ASSUME NEW cl, Typed(cl)
    PROVE  SameDns(cl, Requested(cl))
<1> DEFINE hosted == [cl EXCEPT !.host = TRUE]
<1>1. SameDns(cl, hosted)
  BY DEF SameDns, Typed, ClientRec
<1> HIDE DEF hosted
<1> QED
  BY <1>1, RefDns DEF Requested, SameDns, hosted

LEMMA CloseCbDns ==
    ASSUME NEW cl, Typed(cl), NEW h \in Handles
    PROVE  SameDns(cl, close_cb(cl, h))
<1> DEFINE closed  == [cl EXCEPT !.handle[h] = "closed", !.data = @ \ {h}]
           stopped == [closed EXCEPT !.armed = FALSE]
           noTimer == IF SocketsGone(closed) THEN uv_close(stopped, "timeout_timer") ELSE closed
<1>1. CASE h \notin cl.data
  BY <1>1, FailDns DEF close_cb, FaultKinds
<1>2. CASE h \in cl.data
  <2>1. close_cb(cl, h) = unref_client(noTimer)
    BY <1>2 DEF close_cb
  <2>2. SameDns(cl, closed)
    BY DEF SameDns, Typed, ClientRec, HandleStatus
  <2> HIDE DEF closed
  <2>3. SameDns(cl, stopped)
    BY <2>2 DEF SameDns, Typed, ClientRec
  <2> HIDE DEF stopped
  <2>4. SameDns(cl, noTimer)
    BY <2>2, <2>3, CloseDns DEF SameDns, Handles
  <2> QED
    BY <2>1, <2>4, UnrefDns DEF SameDns
<1> QED
  BY <1>1, <1>2

(* Only the retry of on_dns adds a request. *)
Retries(cl, server, status) ==
    IsUp(cl, "proxyClient") /\ status # 1 /\ server = "dns_1" /\ "dns_2" \in Dns

LEMMA OnDnsDns ==
    ASSUME NEW cl, Typed(cl), NEW server, NEW status, NEW connectOk \in BOOLEAN,
           NEW queryOk \in BOOLEAN
    PROVE  /\ Retries(cl, server, status) /\ queryOk =>
                 on_dns(cl, server, status, connectOk, queryOk) = send_dns_query(cl, "dns_2")
           /\ ~(Retries(cl, server, status) /\ queryOk) =>
                 on_dns(cl, server, status, connectOk, queryOk).dns = cl.dns
           /\ ~Retries(cl, server, status) =>
                 on_dns(cl, server, status, connectOk, queryOk)
                    = on_dns(cl, server, status, connectOk, TRUE)
<1> DEFINE connected == ConnectTargetServer(ref_client(cl), connectOk)
           up        == [connected EXCEPT !.state = 1]
           final     == on_dns(cl, server, status, connectOk, queryOk)
<1>1. SameDns(cl, connected)
  BY RefDns, ConnectDns DEF SameDns
<1>2. SameDns(cl, up)
  <2> HIDE DEF connected
  <2> QED
    BY <1>1 DEF SameDns, Typed, ClientRec
<1>3. \/ final \in {unref_client(cl), unref_client(up), GiveUp(connected), GiveUp(cl)}
      \/ Retries(cl, server, status) /\ queryOk
  BY DEF on_dns, Retries
<1>4. \A x \in {unref_client(cl), unref_client(up), GiveUp(connected), GiveUp(cl)} : x.dns = cl.dns
  <2> HIDE DEF connected, up
  <2> QED
    BY <1>1, <1>2, UnrefDns, GiveUpDns DEF SameDns
<1>5. Retries(cl, server, status) /\ queryOk => final = send_dns_query(cl, "dns_2")
  BY DEF on_dns, Retries
<1>6. ~Retries(cl, server, status) => final = on_dns(cl, server, status, connectOk, TRUE)
  BY DEF on_dns, Retries
<1> QED
  BY <1>3, <1>4, <1>5, <1>6

-----------------------------------------------------------------------------
(* The steps of SendDNS, as its own module and its proofs name them.       *)
LEMMA SameActions ==
    ASSUME NEW r \in Requests
    PROVE  /\ D!Call(r) => DP!Call(r)
           /\ D!on_udp_read(r) => DP!on_udp_read(r)
           /\ D!on_dns_timeout(r) => DP!on_dns_timeout(r)
           /\ D!on_udp_send(r) => DP!on_udp_send(r)
           /\ \A h \in D!DnsHandles : D!on_dns_close(r, h) => h \in DP!DnsHandles /\ DP!on_dns_close(r, h)
<1> USE DEF D!Running, DP!Running, D!send_dns_query, DP!send_dns_query, D!Returns, DP!Returns,
            D!Allocated, DP!Allocated, D!Unused, DP!Unused, D!CloseBoth, DP!CloseBoth,
            D!uv_close, DP!uv_close, D!Both, DP!Both, D!DnsHandles, DP!DnsHandles
<1>1. D!Call(r) => DP!Call(r)
  BY DEF D!Call, DP!Call
<1>2. D!on_udp_read(r) => DP!on_udp_read(r)
  BY DEF D!on_udp_read, DP!on_udp_read, D!CallBack, DP!CallBack, D!Answered, DP!Answered,
         D!Addresses, DP!Addresses
<1>3. D!on_dns_timeout(r) => DP!on_dns_timeout(r)
  BY DEF D!on_dns_timeout, DP!on_dns_timeout, D!CallBack, DP!CallBack
<1>4. D!on_udp_send(r) => DP!on_udp_send(r)
  BY DEF D!on_udp_send, DP!on_udp_send
<1>5. ASSUME NEW h \in D!DnsHandles, D!on_dns_close(r, h)
      PROVE  h \in DP!DnsHandles /\ DP!on_dns_close(r, h)
  BY <1>5 DEF D!on_dns_close, DP!on_dns_close, D!BothClosed, DP!BothClosed
<1> QED
  BY <1>1, <1>2, <1>3, <1>4, <1>5

(* What the composition asks of a callback of request r: it is called, and *)
(* at most one request is made meanwhile.                                  *)
LEMMA CalledReports ==
    ASSUME SysInv, NEW r \in Requests, Pending(r), D!on_udp_read(r) \/ D!on_dns_timeout(r)
    PROVE  /\ DP!IInv'
           /\ \E status \in {1, -1, -2} : DP!Reports(r, status)
<1>1. DP!IInv /\ request[r].calls = 0
  BY DEF SysInv, Pending
<1>2. CASE D!on_udp_read(r)
  <2>1. DP!IInv' /\ \E status \in {request[r].status, -2} : DP!Reports(r, status)
    BY <1>1, <1>2, SameActions, DP!ReadStep, DP!ReadReports
  <2>2. request[r].status \in {1, -1, -2}
    BY <1>1 DEF DP!IInv, DP!RequestRec
  <2> QED
    BY <2>1, <2>2
<1>3. CASE D!on_dns_timeout(r)
  BY <1>1, <1>3, SameActions, DP!TimeoutStep, DP!TimeoutReports
<1> QED
  BY <1>2, <1>3

(* So r has been answered, and whatever was made inside was not there      *)
(* before.                                                                 *)
LEMMA PendingAfter ==
    ASSUME SysInv, NEW r \in Requests, NEW status, DP!Reports(r, status)
    PROVE  /\ ~Pending(r)' /\ r \notin Made
           /\ \E n \in Requests : Made \subseteq {n}
           /\ \A q \in Requests \ {r} : q \notin Made => request'[q] = request[q]
           /\ \A q \in Made : /\ request[q].returned = 0 /\ request'[q].returned # 0
                              /\ Pending(q)' <=> Sent(q)
<1>1. PICK n \in Requests : \A q \in Requests \ {r} : request'[q] = request[q] \/ (q = n /\ DP!Makes(q))
  BY DEF DP!Reports
<1>2. ~Pending(r)' /\ r \notin Made
  BY DEF DP!Reports, Pending, Made
<1>3. \A q \in Made : q = n /\ DP!Makes(q)
  BY <1>1, <1>2 DEF Made
<1>4. \A q \in Requests \ {r} : q \notin Made => request'[q] = request[q]
  BY <1>1 DEF DP!Makes, DP!Returns, Made
<1>5. \A q \in Made : /\ request[q].returned = 0 /\ request'[q].returned # 0
                      /\ Pending(q)' <=> Sent(q)
  BY <1>3 DEF DP!Makes, DP!Returns, Pending, Sent
<1> QED
  BY <1>2, <1>3, <1>4, <1>5

(* A request that is answered has an owner, and one that was never made    *)
(* has no answer.                                                          *)
LEMMA OwnerOf ==
    ASSUME SysInv, NEW r \in Requests
    PROVE  /\ Pending(r) => /\ owner[r][1] \in Clients /\ owner[r][2] \in DnsServers
                            /\ owner[r] = <<owner[r][1], owner[r][2]>>
           /\ request[r].returned = 0 => ~Pending(r) /\ request[r].calls = 0
<1>1. request[r].returned = 0 => request[r].calls = 0
  BY DEF SysInv, DP!IInv, DP!Sound
<1>2. request[r].returned = 1 => owner[r] \in Clients \X DnsServers
  BY DEF SysInv
<1> QED
  BY <1>1, <1>2 DEF Pending

-----------------------------------------------------------------------------
(* on_dns, called by request r, does to the connection what Proxy lets an  *)
(* answer do, and counts what SendDNS then still owes it.                  *)
LEMMA OnDnsStep ==
    ASSUME SysInv, NEW r \in Requests, Pending(r), NEW status \in {1, -1, -2},
           DP!Reports(r, status), on_dns_called(r)
    PROVE  LET c == owner[r][1]
               s == owner[r][2]
           IN  /\ DnsAnswer(c, s)
               /\ client' = [client EXCEPT ![c] = client'[c]]
               /\ \/ /\ Made = {} /\ owner' = owner
                     /\ client'[c].dns = [client[c].dns EXCEPT ![s] = @ - 1]
                  \/ /\ status # 1 /\ s = "dns_1"
                     /\ \E q \in Made :
                           /\ owner' = [owner EXCEPT ![q] = <<c, "dns_2">>]
                           /\ client'[c].dns = [client[c].dns EXCEPT
                                 !["dns_1"] = @ - 1,
                                 !["dns_2"] = IF Sent(q) THEN @ + 1 ELSE @]
<1> DEFINE c == owner[r][1]
           s == owner[r][2]
           answered == [client[c] EXCEPT !.dns[s] = @ - 1]
           Owed(q) == [client[c].dns EXCEPT !["dns_1"] = @ - 1,
                                            !["dns_2"] = IF Sent(q) THEN @ + 1 ELSE @]
<1>1. c \in Clients /\ s \in DnsServers
  BY OwnerOf
<1>2. request'[r].status = status
  BY DEF DP!Reports
<1>3. CoverInv /\ client \in [Clients -> ClientRec] /\ Covered(client[c]) /\ Typed(client[c])
  BY <1>1 DEF SysInv, CoverInv, IInv, Covered
<1>4. ASSUME NEW ok, DnsReply(c, s, status, ok)
      PROVE  \E connectOk \in BOOLEAN :
                /\ connectOk \in Outcomes("connect")
                /\ client[c].dns[s] > 0
                /\ Handle(c, on_dns(answered, s, status, connectOk, ok))
  BY <1>4, OutcomesBoolean DEF DnsReply
<1>5. client[c].dns[s] > 0 =>
         /\ Typed(answered) /\ answered.dns = [client[c].dns EXCEPT ![s] = @ - 1]
         /\ answered.handle = client[c].handle /\ answered.data = client[c].data
  <2>1. client[c].dns[s] > 0 => Typed(answered)
    BY <1>1, <1>3, OthersCovered DEF Covered
  <2>2. /\ answered.dns = [client[c].dns EXCEPT ![s] = @ - 1]
        /\ answered.handle = client[c].handle /\ answered.data = client[c].data
    BY <1>3 DEF Typed, ClientRec
  <2> QED
    BY <2>1, <2>2
<1>6. \A cl : Handle(c, cl) => client'[c] = cl /\ client' = [client EXCEPT ![c] = client'[c]]
  BY <1>1, <1>3 DEF Handle
<1> HIDE DEF answered
<1>7. client[c].dns[s] > 0 => (Retries(answered, s, status) <=> AsksAgain(r, status))
  BY <1>5 DEF Retries, AsksAgain, IsUp, uv_is_closing
<1>8. ASSUME client[c].dns[s] > 0, NEW connectOk \in BOOLEAN, NEW ok \in BOOLEAN
      PROVE  /\ Retries(answered, s, status) /\ ok =>
                   on_dns(answered, s, status, connectOk, ok) = send_dns_query(answered, "dns_2")
             /\ ~(Retries(answered, s, status) /\ ok) =>
                   on_dns(answered, s, status, connectOk, ok).dns = answered.dns
             /\ ~Retries(answered, s, status) =>
                   on_dns(answered, s, status, connectOk, ok)
                      = on_dns(answered, s, status, connectOk, TRUE)
  <2>1. Typed(answered)
    BY <1>5, <1>8
  <2> QED
    BY <2>1, OnDnsDns, Zenon
<1>9. CASE AsksAgain(r, status)
  <2>1. PICK q \in Made :
            /\ Sent(q) \in Outcomes("query")
            /\ DnsReply(c, s, status, Sent(q))
            /\ owner' = [owner EXCEPT ![q] = <<c, "dns_2">>]
    BY <1>2, <1>9 DEF on_dns_called, AskedAgain
  <2>2. DnsAnswer(c, s)
    BY <2>1 DEF DnsAnswer
  <2>3. PICK connectOk \in BOOLEAN :
            /\ client[c].dns[s] > 0
            /\ Handle(c, on_dns(answered, s, status, connectOk, Sent(q)))
    BY <1>4, <2>1
  <2>4. /\ status # 1 /\ s = "dns_1" /\ "dns_2" \in Dns
        /\ Retries(answered, s, status)
    BY <1>7, <1>9, <2>3 DEF AsksAgain
  <2>5. client'[c] = on_dns(answered, s, status, connectOk, Sent(q))
    BY <1>6, <2>3
  <2>8. Sent(q) \in BOOLEAN
    BY DEF Sent
  <2>6. CASE Sent(q)
    <3>1. client'[c] = send_dns_query(answered, "dns_2")
      BY <1>8, <2>3, <2>4, <2>5, <2>6, <2>8
    <3>2. client'[c].dns = [answered.dns EXCEPT !["dns_2"] = @ + 1]
      BY <1>5, <2>3, <3>1 DEF send_dns_query, Typed, ClientRec
    <3>3. client'[c].dns = Owed(q)
      BY <1>3, <1>5, <2>3, <2>4, <2>6, <3>2 DEF Typed, ClientRec, DnsServers
    <3> QED
      BY <1>6, <2>1, <2>2, <2>3, <2>4, <3>3
  <2>7. CASE ~Sent(q)
    <3>1. client'[c].dns = answered.dns
      BY <1>8, <2>3, <2>5, <2>7, <2>8
    <3>2. client'[c].dns = Owed(q)
      BY <1>3, <1>5, <2>3, <2>4, <2>7, <3>1 DEF Typed, ClientRec, DnsServers
    <3> QED
      BY <1>6, <2>1, <2>2, <2>3, <2>4, <3>2
  <2> QED
    BY <2>6, <2>7
<1>10. CASE ~AsksAgain(r, status)
  <2>1. Made = {} /\ owner' = owner /\ DnsReply(c, s, status, FALSE)
    BY <1>2, <1>10 DEF on_dns_called
  <2>2. PICK connectOk \in BOOLEAN :
            /\ connectOk \in Outcomes("connect") /\ client[c].dns[s] > 0
            /\ Handle(c, on_dns(answered, s, status, connectOk, FALSE))
    BY <1>4, <2>1
  <2>3. Handle(c, on_dns(answered, s, status, connectOk, TRUE))
    BY <1>7, <1>10, <1>8, <2>2
  <2>4. DnsReply(c, s, status, TRUE)
    BY <2>2, <2>3 DEF DnsReply, answered
  <2>5. DnsAnswer(c, s)
    <3>1. TRUE \in Outcomes("query")
      BY DEF Outcomes
    <3> QED
      BY <2>4, <3>1 DEF DnsAnswer
  <2>6. client'[c].dns = answered.dns
    BY <1>6, <1>7, <1>10, <1>8, <2>2
  <2> QED
    BY <1>5, <1>6, <2>1, <2>2, <2>5, <2>6
<1> QED
  BY <1>9, <1>10

(* The callbacks without a request leave the requests as they were.        *)
LEMMA OfClientDns ==
    ASSUME SysInv, NEW c \in Clients, OfClient(c)
    PROVE  /\ client' = [client EXCEPT ![c] = client'[c]]
           /\ client'[c].dns = client[c].dns
<1>1. client \in [Clients -> ClientRec]
  BY DEF SysInv, CoverInv, IInv
<1>2. ASSUME NEW cl, Handle(c, cl)
      PROVE  /\ client' = [client EXCEPT ![c] = client'[c]] /\ client'[c] = cl
             /\ Typed(client[c])
  BY <1>1, <1>2 DEF Handle, SysInv, CoverInv, Covered
<1>3. CASE on_new_connection(c)
  <2>1. PICK cl : /\ client' = [client EXCEPT ![c] = cl]
                  /\ cl = NotAccepted \/ \E readOk \in BOOLEAN : cl = Accepted(readOk)
    BY <1>3, OutcomesBoolean DEF on_new_connection
  <2>2. client[c].dns = [s \in DnsServers |-> 0]
    <3>1. client[c] = Unused
      BY <1>3 DEF on_new_connection, SysInv, CoverInv, IInv, Sound
    <3> QED
      BY <3>1 DEF Unused
  <2>3. NotAccepted.dns = [s \in DnsServers |-> 0]
    BY NewClientFields, CloseDns DEF NotAccepted, NewClient, SameDns, Handles, Sockets
  <2>4. ASSUME NEW readOk \in BOOLEAN PROVE Accepted(readOk).dns = [s \in DnsServers |-> 0]
    BY AcceptedIsOne, AcceptedFields, TimedFields, CloseDns DEF SameDns, Handles, Sockets
  <2> QED
    BY <1>1, <2>1, <2>2, <2>3, <2>4
<1>4. CASE read_data_end(c)
  <2>1. Handle(c, CloseIfUp(uv_close(client[c], "proxyClient"), "targetClient"))
    BY <1>4 DEF read_data_end
  <2> QED
    BY <1>2, <2>1, CloseDns DEF SameDns, Handles, Sockets
<1>5. CASE read_data_rejected(c)
  <2>1. Handle(c, uv_close(client[c], "proxyClient"))
    BY <1>5 DEF read_data_rejected
  <2> QED
    BY <1>2, <2>1, CloseDns DEF SameDns, Handles, Sockets
<1>6. CASE read_data_address(c)
  <2> DEFINE connected(ok) == ConnectTargetServer(Requested(client[c]), ok)
             up(ok)        == [connected(ok) EXCEPT !.state = 1]
  <2>1. PICK connectOk \in BOOLEAN :
            Handle(c, IF connectOk THEN up(connectOk) ELSE unref_client(connected(connectOk)))
    BY <1>6, OutcomesBoolean DEF read_data_address
  <2>2. SameDns(client[c], connected(connectOk))
    BY <1>2, <2>1, RequestedDns, ConnectDns DEF SameDns
  <2>3. SameDns(client[c], up(connectOk))
    <3> HIDE DEF connected
    <3> QED
      BY <2>2 DEF SameDns, Typed, ClientRec
  <2>4. SameDns(client[c], unref_client(connected(connectOk)))
    BY <2>2, UnrefDns DEF SameDns
  <2> HIDE DEF connected, up
  <2> QED
    BY <1>2, <2>1, <2>3, <2>4 DEF SameDns
<1>7. CASE on_connect_porxy(c)
  <2> DEFINE done == [client[c] EXCEPT !.connecting = FALSE]
  <2>1. PICK cl \in {done, CloseIfUp(CloseIfUp(done, "targetClient"), "proxyClient")} : Handle(c, cl)
    BY <1>7 DEF on_connect_porxy
  <2>2. SameDns(client[c], done)
    BY <1>2, <2>1 DEF SameDns, Typed, ClientRec
  <2> HIDE DEF done
  <2> QED
    BY <1>2, <2>1, <2>2, CloseDns DEF SameDns, Handles, Sockets
<1>8. CASE read_data_porxy_end(c)
  <2>1. Handle(c, CloseIfUp(uv_close(client[c], "targetClient"), "proxyClient"))
    BY <1>8 DEF read_data_porxy_end
  <2> QED
    BY <1>2, <2>1, CloseDns DEF SameDns, Handles, Sockets
<1>9. CASE on_timeout(c)
  <2> DEFINE stopped == [client[c] EXCEPT !.armed = FALSE]
  <2>1. Handle(c, CloseIfUp(CloseIfUp(stopped, "proxyClient"), "targetClient"))
    BY <1>9 DEF on_timeout
  <2>2. SameDns(client[c], stopped)
    BY <1>2, <2>1 DEF SameDns, Typed, ClientRec
  <2> HIDE DEF stopped
  <2> QED
    BY <1>2, <2>1, <2>2, CloseDns DEF SameDns, Handles, Sockets
<1>10. ASSUME NEW h \in Handles, Closed(c, h)
       PROVE  client' = [client EXCEPT ![c] = client'[c]] /\ client'[c].dns = client[c].dns
  <2>1. Handle(c, close_cb(client[c], h))
    BY <1>10 DEF Closed
  <2> QED
    BY <1>2, <2>1, CloseCbDns DEF SameDns
<1> QED
  BY <1>3, <1>4, <1>5, <1>6, <1>7, <1>8, <1>9, <1>10 DEF OfClient

(* read_data, which asks, and has a request in flight only if it was sent. *)
LEMMA AskStep ==
    ASSUME SysInv, NEW c \in Clients, NEW r \in Requests,
           Sent(r) \in Outcomes("query"), Resolve(c, Sent(r))
    PROVE  /\ read_data_name(c)
           /\ client' = [client EXCEPT ![c] = client'[c]]
           /\ client'[c].dns = IF Sent(r) THEN [client[c].dns EXCEPT !["dns_1"] = @ + 1]
                                          ELSE client[c].dns
<1> DEFINE requested == Requested(client[c])
<1>1. PICK connectOk :
          Handle(c, CASE ~Sent(r) -> uv_close(unref_client(requested), "proxyClient")
                      [] Sent(r) /\ Dns = {} -> send_default_dns(requested, connectOk)
                      [] OTHER -> send_dns_query(requested, "dns_1"))
  BY Zenon DEF Resolve
<1>2. Handle(c, IF Sent(r) THEN send_dns_query(requested, "dns_1")
                           ELSE uv_close(unref_client(requested), "proxyClient"))
  BY <1>1, OwnServersAssumption
<1>3. Typed(client[c]) /\ client \in [Clients -> ClientRec]
  BY DEF SysInv, CoverInv, Covered, IInv
<1>4. SameDns(client[c], requested)
  BY <1>3, RequestedDns
<1> HIDE DEF requested
<1>5. SameDns(client[c], uv_close(unref_client(requested), "proxyClient"))
  BY <1>4, UnrefDns, CloseDns DEF SameDns, Handles, Sockets
<1>6. send_dns_query(requested, "dns_1").dns = [client[c].dns EXCEPT !["dns_1"] = @ + 1]
  BY <1>4 DEF send_dns_query, SameDns, Typed, ClientRec
<1>7. /\ client' = [client EXCEPT ![c] = client'[c]]
      /\ client'[c] = IF Sent(r) THEN send_dns_query(requested, "dns_1")
                                 ELSE uv_close(unref_client(requested), "proxyClient")
  BY <1>2, <1>3 DEF Handle
<1>8. read_data_name(c)
  BY DEF read_data_name
<1> QED
  BY <1>5, <1>6, <1>7, <1>8 DEF SameDns

-----------------------------------------------------------------------------
(* Each kind of step keeps the count.                                      *)
Counted(c, s) ==
    IsFiniteSet(Waiting(c, s)) /\ client[c].dns[s] = Cardinality(Waiting(c, s))

LEMMA CountKept ==
    ASSUME NEW c, NEW s, Counted(c, s), Waiting(c, s)' = Waiting(c, s),
           client'[c].dns[s] = client[c].dns[s]
    PROVE  Counted(c, s)'
BY DEF Counted

LEMMA CountAdded ==
    ASSUME NEW c, NEW s, Counted(c, s), NEW q, q \notin Waiting(c, s),
           Waiting(c, s)' = Waiting(c, s) \cup {q},
           client'[c].dns[s] = client[c].dns[s] + 1
    PROVE  Counted(c, s)'
<1>1. /\ IsFiniteSet(Waiting(c, s) \cup {q})
      /\ Cardinality(Waiting(c, s) \cup {q}) = Cardinality(Waiting(c, s)) + 1
  BY FS_AddElement DEF Counted
<1> QED
  BY <1>1 DEF Counted

LEMMA CountRemoved ==
    ASSUME NEW c, NEW s, Counted(c, s), NEW r \in Waiting(c, s),
           Waiting(c, s)' = Waiting(c, s) \ {r},
           client'[c].dns[s] = client[c].dns[s] - 1
    PROVE  Counted(c, s)'
<1>1. /\ IsFiniteSet(Waiting(c, s) \ {r})
      /\ Cardinality(Waiting(c, s) \ {r}) = Cardinality(Waiting(c, s)) - 1
  BY FS_RemoveElement DEF Counted
<1> QED
  BY <1>1 DEF Counted

(* The part of SysInv that is about the composition.                       *)
OwnInv ==
    /\ owner \in [Requests -> (Clients \X DnsServers) \cup {Nobody}]
    /\ \A r \in Requests : request[r].returned = 0 <=> owner[r] = Nobody
    /\ \A c \in Clients, s \in DnsServers : Counted(c, s)
    /\ SecondAfterFirst

LEMMA SysInvIs == SysInv <=> CoverInv /\ DP!IInv /\ OwnInv
BY DEF SysInv, OwnInv, Counted

(* What the first server failed to resolve stays so.                       *)
LEMMA SecondKept ==
    ASSUME SecondAfterFirst, owner' = owner,
           \A q \in Requests : request[q].calls = 1 => /\ request'[q].calls = 1
                                                       /\ request'[q].status = request[q].status
    PROVE  SecondAfterFirst'
<1> SUFFICES ASSUME NEW q \in Requests, owner[q][2] = "dns_2"
             PROVE  \E first \in Requests : /\ owner[first] = <<owner[q][1], "dns_1">>
                                            /\ request'[first].calls = 1
                                            /\ request'[first].status # 1
  BY DEF SecondAfterFirst
<1>1. PICK first \in Requests : /\ owner[first] = <<owner[q][1], "dns_1">>
                                /\ request[first].calls = 1
                                /\ request[first].status # 1
  BY DEF SecondAfterFirst
<1> QED
  BY <1>1

LEMMA OwnOfClient ==
    ASSUME SysInv, NEW c \in Clients, OfClient(c)
    PROVE  OwnInv'
<1>1. /\ client' = [client EXCEPT ![c] = client'[c]]
      /\ client'[c].dns = client[c].dns
  BY OfClientDns
<1>2. request' = request /\ owner' = owner
  BY DEF OfClient
<1>3. OwnInv /\ client \in [Clients -> ClientRec]
  BY SysInvIs DEF SysInv, CoverInv, IInv
<1>4. ASSUME NEW d \in Clients, NEW s \in DnsServers PROVE Counted(d, s)'
  <2>1. Waiting(d, s)' = Waiting(d, s)
    BY <1>2 DEF Waiting, Pending
  <2>2. client'[d].dns[s] = client[d].dns[s]
    BY <1>1, <1>3
  <2> QED
    BY <1>3, <2>1, <2>2, CountKept DEF OwnInv
<1> QED
  BY <1>2, <1>3, <1>4 DEF OwnInv, SecondAfterFirst

LEMMA OwnAlone ==
    ASSUME SysInv, NEW r \in Requests, Alone(r)
    PROVE  OwnInv' /\ DP!IInv'
<1>1. client' = client /\ owner' = owner /\ OwnInv /\ DP!IInv
  BY SysInvIs DEF Alone
<1>2. DP!on_udp_send(r) \/ \E h \in DP!DnsHandles : DP!on_dns_close(r, h)
  BY SameActions DEF Alone
<1>3. \A q \in Requests : /\ request'[q].calls = request[q].calls
                          /\ request'[q].status = request[q].status
                          /\ request'[q].returned = request[q].returned
  BY <1>1, <1>2, DP!LoopReportsNot
<1>4. DP!IInv'
  BY <1>1, <1>2, DP!SendStep, DP!CloseStep
<1>5. ASSUME NEW d \in Clients, NEW s \in DnsServers PROVE Counted(d, s)'
  <2>1. Waiting(d, s)' = Waiting(d, s)
    BY <1>1, <1>3 DEF Waiting, Pending
  <2> QED
    BY <1>1, <2>1, CountKept DEF OwnInv
<1>6. \A q \in Requests : request'[q].returned = 0 <=> owner'[q] = Nobody
  BY <1>1, <1>3 DEF OwnInv
<1>7. SecondAfterFirst'
  BY <1>1, <1>3, SecondKept DEF OwnInv
<1> QED
  BY <1>1, <1>4, <1>5, <1>6, <1>7 DEF OwnInv

LEMMA OwnAsk ==
    ASSUME SysInv, NEW c \in Clients, Ask(c)
    PROVE  OwnInv' /\ DP!IInv' /\ read_data_name(c)
<1>1. PICK r \in Requests : /\ D!Call(r)
                            /\ Sent(r) \in Outcomes("query")
                            /\ Resolve(c, Sent(r))
                            /\ owner' = [owner EXCEPT ![r] = <<c, "dns_1">>]
  BY DEF Ask, Asked
<1>2. OwnInv /\ DP!IInv /\ client \in [Clients -> ClientRec]
  BY SysInvIs DEF SysInv, CoverInv, IInv
<1>3. DP!Call(r)
  BY <1>1, SameActions
<1>4. DP!IInv'
  BY <1>2, <1>3, DP!CallStep
<1>5. PICK result \in DP!Returns : request' = [request EXCEPT ![r] = DP!send_dns_query(result)]
  BY <1>3 DEF DP!Call
<1>6. /\ request[r].returned = 0 /\ request'[r].returned # 0
      /\ request'[r].calls = 0
      /\ \A q \in Requests \ {r} : request'[q] = request[q]
  BY <1>2, <1>3, <1>5, DP!SendSound DEF DP!Call, DP!IInv, DP!Returns
<1>7. /\ read_data_name(c)
      /\ client' = [client EXCEPT ![c] = client'[c]]
      /\ client'[c].dns = IF Sent(r) THEN [client[c].dns EXCEPT !["dns_1"] = @ + 1]
                                     ELSE client[c].dns
  BY <1>1, AskStep
<1>8. /\ owner[r] = Nobody /\ owner'[r] = <<c, "dns_1">>
      /\ \A q \in Requests \ {r} : owner'[q] = owner[q]
      /\ owner' \in [Requests -> (Clients \X DnsServers) \cup {Nobody}]
  BY <1>1, <1>2, <1>6 DEF OwnInv, DnsServers
<1>9. ~Pending(r) /\ (Pending(r)' <=> Sent(r)) /\ \A q \in Requests \ {r} : Pending(q)' <=> Pending(q)
  BY <1>6 DEF Pending, Sent
<1>10. ASSUME NEW d \in Clients, NEW s \in DnsServers PROVE Counted(d, s)'
  <2>1. Counted(d, s) /\ r \notin Waiting(d, s)
    BY <1>2, <1>9 DEF OwnInv, Waiting
  <2>2. client[c].dns \in [DnsServers -> Int]
    BY <1>2 DEF ClientRec
  <2>3. CASE d = c /\ s = "dns_1" /\ Sent(r)
    <3>1. Waiting(d, s)' = Waiting(d, s) \cup {r}
      BY <1>8, <1>9, <2>3 DEF Waiting
    <3>2. client'[d].dns[s] = client[d].dns[s] + 1
      BY <1>7, <2>2, <2>3 DEF DnsServers
    <3> QED
      BY <2>1, <3>1, <3>2, CountAdded
  <2>4. CASE ~(d = c /\ s = "dns_1" /\ Sent(r))
    <3>1. Waiting(d, s)' = Waiting(d, s)
      BY <1>8, <1>9, <2>4 DEF Waiting
    <3>2. client'[d].dns[s] = client[d].dns[s]
      BY <1>2, <1>7, <2>2, <2>4 DEF DnsServers
    <3> QED
      BY <2>1, <3>1, <3>2, CountKept
  <2> QED
    BY <2>3, <2>4
<1>11. \A q \in Requests : request'[q].returned = 0 <=> owner'[q] = Nobody
  BY <1>2, <1>6, <1>8 DEF OwnInv, Nobody
<1>12. SecondAfterFirst'
  <2> SUFFICES ASSUME NEW q \in Requests, owner'[q][2] = "dns_2"
               PROVE  \E first \in Requests : /\ owner'[first] = <<owner'[q][1], "dns_1">>
                                              /\ request'[first].calls = 1
                                              /\ request'[first].status # 1
    BY DEF SecondAfterFirst
  <2>1. q # r /\ owner'[q] = owner[q]
    BY <1>8
  <2>2. PICK first \in Requests : /\ owner[first] = <<owner[q][1], "dns_1">>
                                  /\ request[first].calls = 1
                                  /\ request[first].status # 1
    BY <1>2, <2>1 DEF OwnInv, SecondAfterFirst
  <2>3. first # r
    BY <1>8, <2>2 DEF Nobody
  <2> QED
    BY <1>6, <1>8, <2>1, <2>2, <2>3
<1> QED
  BY <1>4, <1>7, <1>8, <1>10, <1>11, <1>12 DEF OwnInv

LEMMA OwnCalled ==
    ASSUME SysInv, NEW r \in Requests, Answer(r) \/ TimesOut(r)
    PROVE  OwnInv' /\ DP!IInv' /\ \E c \in Clients, s \in DnsServers : DnsAnswer(c, s)
<1> DEFINE c == owner[r][1]
           s == owner[r][2]
<1>1. Pending(r) /\ on_dns_called(r) /\ (D!on_udp_read(r) \/ D!on_dns_timeout(r))
  BY DEF Answer, TimesOut
<1>2. DP!IInv' /\ OwnInv /\ client \in [Clients -> ClientRec]
  BY <1>1, CalledReports, SysInvIs DEF SysInv, CoverInv, IInv
<1>3. PICK status \in {1, -1, -2} : DP!Reports(r, status)
  BY <1>1, CalledReports
<1>4. c \in Clients /\ s \in DnsServers /\ owner[r] = <<c, s>>
  BY <1>1, OwnerOf
<1>5. /\ DnsAnswer(c, s)
      /\ client' = [client EXCEPT ![c] = client'[c]]
      /\ \/ /\ Made = {} /\ owner' = owner
            /\ client'[c].dns = [client[c].dns EXCEPT ![s] = @ - 1]
         \/ /\ status # 1 /\ s = "dns_1"
            /\ \E q \in Made :
                  /\ owner' = [owner EXCEPT ![q] = <<c, "dns_2">>]
                  /\ client'[c].dns = [client[c].dns EXCEPT
                        !["dns_1"] = @ - 1,
                        !["dns_2"] = IF Sent(q) THEN @ + 1 ELSE @]
  BY <1>1, <1>3, OnDnsStep
<1>6. /\ ~Pending(r)' /\ r \notin Made
      /\ \E n \in Requests : Made \subseteq {n}
      /\ \A q \in Requests \ {r} : q \notin Made => request'[q] = request[q]
      /\ \A q \in Made : /\ request[q].returned = 0 /\ request'[q].returned # 0
                         /\ Pending(q)' <=> Sent(q)
  BY <1>3, PendingAfter
<1>7. /\ request[r].returned = 1 /\ request'[r].returned = 1
      /\ request[r].calls = 0 /\ request'[r].calls = 1 /\ request'[r].status = status
  BY <1>3 DEF DP!Reports
<1>8. client[c].dns \in [DnsServers -> Int]
  BY <1>2, <1>4 DEF ClientRec
<1>9. Made \subseteq Requests
  BY DEF Made
<1> HIDE DEF c, s
<1>10. CASE /\ Made = {} /\ owner' = owner
            /\ client'[c].dns = [client[c].dns EXCEPT ![s] = @ - 1]
  <2>1. \A q \in Requests \ {r} : request'[q] = request[q]
    BY <1>6, <1>10
  <2>2. ASSUME NEW d \in Clients, NEW t \in DnsServers PROVE Counted(d, t)'
    <3>1. Counted(d, t)
      BY <1>2 DEF OwnInv
    <3>2. CASE d = c /\ t = s
      <4>1. r \in Waiting(d, t) /\ Waiting(d, t)' = Waiting(d, t) \ {r}
        BY <1>1, <1>4, <1>6, <1>10, <2>1, <3>2 DEF Waiting, Pending
      <4>2. client'[d].dns[t] = client[d].dns[t] - 1
        BY <1>4, <1>8, <1>10, <3>2
      <4> QED
        BY <3>1, <4>1, <4>2, CountRemoved
    <3>3. CASE ~(d = c /\ t = s)
      <4>1. Waiting(d, t)' = Waiting(d, t)
        BY <1>1, <1>4, <1>6, <1>10, <2>1, <3>3 DEF Waiting, Pending
      <4>2. client'[d].dns[t] = client[d].dns[t]
        BY <1>2, <1>4, <1>5, <1>8, <1>10, <3>3
      <4> QED
        BY <3>1, <4>1, <4>2, CountKept
    <3> QED
      BY <3>2, <3>3
  <2>3. \A q \in Requests : request'[q].returned = 0 <=> owner'[q] = Nobody
    BY <1>2, <1>7, <1>10, <2>1 DEF OwnInv
  <2>4. SecondAfterFirst'
    <3>1. \A q \in Requests : request[q].calls = 1 => /\ request'[q].calls = 1
                                                       /\ request'[q].status = request[q].status
      BY <1>7, <2>1
    <3> QED
      BY <1>2, <1>10, <3>1, SecondKept DEF OwnInv
  <2> QED
    BY <1>2, <1>4, <1>5, <1>10, <2>2, <2>3, <2>4 DEF OwnInv
<1>11. ASSUME NEW q \in Made, status # 1, s = "dns_1",
              owner' = [owner EXCEPT ![q] = <<c, "dns_2">>],
              client'[c].dns = [client[c].dns EXCEPT
                    !["dns_1"] = @ - 1,
                    !["dns_2"] = IF Sent(q) THEN @ + 1 ELSE @]
       PROVE  OwnInv'
  <2>1. /\ q \in Requests /\ q # r /\ request[q].returned = 0 /\ request'[q].returned # 0
        /\ Pending(q)' <=> Sent(q)
        /\ \A p \in Requests \ {r, q} : request'[p] = request[p]
    BY <1>6, <1>9, <1>11
  <2>2. /\ owner[q] = Nobody /\ ~Pending(q) /\ request[q].calls = 0
        /\ owner'[q] = <<c, "dns_2">>
        /\ \A p \in Requests \ {q} : owner'[p] = owner[p]
        /\ owner' \in [Requests -> (Clients \X DnsServers) \cup {Nobody}]
    BY <1>2, <1>4, <1>11, <2>1, OwnerOf DEF OwnInv, DnsServers
  <2>3. \A p \in Requests \ {r, q} : Pending(p)' <=> Pending(p)
    BY <2>1 DEF Pending
  <2>4. ASSUME NEW d \in Clients, NEW t \in DnsServers PROVE Counted(d, t)'
    <3>1. Counted(d, t) /\ q \notin Waiting(d, t)
      BY <1>2, <2>2 DEF OwnInv, Waiting
    <3>2. CASE d = c /\ t = "dns_1"
      <4>1. r \in Waiting(d, t) /\ Waiting(d, t)' = Waiting(d, t) \ {r}
        BY <1>1, <1>4, <1>6, <1>11, <2>1, <2>2, <2>3, <3>2 DEF Waiting
      <4>2. client'[d].dns[t] = client[d].dns[t] - 1
        BY <1>8, <1>11, <3>2 DEF DnsServers
      <4> QED
        BY <3>1, <4>1, <4>2, CountRemoved
    <3>3. CASE d = c /\ t = "dns_2" /\ Sent(q)
      <4>1. Waiting(d, t)' = Waiting(d, t) \cup {q}
        BY <1>4, <1>6, <1>11, <2>1, <2>2, <2>3, <3>3 DEF Waiting
      <4>2. client'[d].dns[t] = client[d].dns[t] + 1
        BY <1>8, <1>11, <3>3 DEF DnsServers
      <4> QED
        BY <3>1, <4>1, <4>2, CountAdded
    <3>4. CASE ~(d = c /\ t = "dns_1") /\ ~(d = c /\ t = "dns_2" /\ Sent(q))
      <4>1. Waiting(d, t)' = Waiting(d, t)
        BY <1>1, <1>4, <1>6, <1>11, <2>1, <2>2, <2>3, <3>4 DEF Waiting
      <4>2. client'[d].dns[t] = client[d].dns[t]
        BY <1>2, <1>4, <1>5, <1>8, <1>11, <3>4 DEF DnsServers
      <4> QED
        BY <3>1, <4>1, <4>2, CountKept
    <3> QED
      BY <3>2, <3>3, <3>4
  <2>5. \A p \in Requests : request'[p].returned = 0 <=> owner'[p] = Nobody
    BY <1>2, <1>7, <2>1, <2>2 DEF OwnInv, Nobody
  <2>6. SecondAfterFirst'
    <3> SUFFICES ASSUME NEW p \in Requests, owner'[p][2] = "dns_2"
                 PROVE  \E first \in Requests : /\ owner'[first] = <<owner'[p][1], "dns_1">>
                                                /\ request'[first].calls = 1
                                                /\ request'[first].status # 1
      BY DEF SecondAfterFirst
    <3>1. CASE p = q
      BY <1>4, <1>7, <1>11, <2>1, <2>2, <3>1
    <3>2. CASE p # q
      <4>1. owner'[p] = owner[p]
        BY <2>2, <3>2
      <4>2. PICK first \in Requests : /\ owner[first] = <<owner[p][1], "dns_1">>
                                      /\ request[first].calls = 1
                                      /\ request[first].status # 1
        BY <1>2, <4>1 DEF OwnInv, SecondAfterFirst
      <4>3. first # r /\ first # q
        BY <1>7, <2>2, <4>2
      <4> QED
        BY <2>1, <2>2, <4>1, <4>2, <4>3
    <3> QED
      BY <3>1, <3>2
  <2> QED
    BY <2>2, <2>4, <2>5, <2>6 DEF OwnInv
<1>12. OwnInv'
  BY <1>5, <1>10, <1>11
<1> QED
  BY <1>2, <1>4, <1>5, <1>12

-----------------------------------------------------------------------------
(* Every step is one of Proxy, or leaves the connections alone.            *)
LEMMA SysStep ==
    ASSUME SysInv, [SysNext]_sysVars
    PROVE  SysInv' /\ [Next]_vars
<1>1. CoverInv /\ DP!IInv /\ OwnInv
  BY SysInvIs
<1>2. OwnInv' /\ DP!IInv' /\ [Next]_vars
  <2>1. CASE UNCHANGED sysVars
    <3>1. UNCHANGED <<client, client_count, request, owner>>
      BY <2>1 DEF sysVars
    <3>2. OwnInv'
      <4>1. \A c \in Clients, s \in DnsServers : Counted(c, s)'
        BY <1>1, <3>1 DEF OwnInv, Counted, Waiting, Pending
      <4>2. SecondAfterFirst'
        BY <1>1, <3>1, SecondKept DEF OwnInv
      <4> QED
        BY <1>1, <3>1, <4>1, <4>2 DEF OwnInv
    <3>3. DP!IInv'
      BY <1>1, <3>1 DEF DP!IInv, DP!Sound, DP!BothClosed
    <3> QED
      BY <3>1, <3>2, <3>3 DEF vars
  <2>2. ASSUME NEW c \in Clients, OfClient(c) PROVE OwnInv' /\ DP!IInv' /\ [Next]_vars
    <3>1. OwnInv'
      BY <2>2, OwnOfClient
    <3>2. DP!IInv'
      BY <1>1, <2>2 DEF OfClient, DP!IInv, DP!Sound, DP!BothClosed
    <3>3. Next
      BY <2>2 DEF OfClient, Next
    <3> QED
      BY <3>1, <3>2, <3>3
  <2>3. ASSUME NEW c \in Clients, Ask(c) PROVE OwnInv' /\ DP!IInv' /\ [Next]_vars
    BY <2>3, OwnAsk DEF Next
  <2>4. ASSUME NEW r \in Requests, Answer(r) \/ TimesOut(r)
        PROVE  OwnInv' /\ DP!IInv' /\ [Next]_vars
    BY <2>4, OwnCalled DEF Next
  <2>5. ASSUME NEW r \in Requests, Alone(r) PROVE OwnInv' /\ DP!IInv' /\ [Next]_vars
    BY <2>5, OwnAlone DEF Alone, vars
  <2> QED
    BY <2>1, <2>2, <2>3, <2>4, <2>5 DEF SysNext
<1>3. CoverInv'
  BY <1>1, <1>2, StepCovers
<1>4. (CoverInv /\ DP!IInv /\ OwnInv)' => SysInv'
  BY DEF SysInv, OwnInv, Counted
<1> QED
  BY <1>2, <1>3, <1>4

(* The invariant of the composition holds, for any number of connections   *)
(* and requests.                                                           *)
THEOREM SysInvariance == SysSpec => []SysInv
<1>1. SysInit => SysInv
  <2> SUFFICES ASSUME SysInit PROVE CoverInv /\ DP!IInv /\ OwnInv
    BY SysInvIs
  <2>1. CoverInv
    BY CoverInit DEF SysInit
  <2>2. DP!IInv
    BY DEF SysInit, D!Init, D!Unused, D!Both, D!DnsHandles, DP!IInv, DP!RequestRec, DP!Returns,
           DP!Addresses, DP!Sound, DP!BothClosed, DP!DnsHandles
  <2>3. \A r \in Requests : request[r].returned = 0 /\ request[r].calls = 0 /\ owner[r] = Nobody
    BY DEF SysInit, D!Init, D!Unused
  <2>4. ASSUME NEW c \in Clients, NEW s \in DnsServers PROVE Counted(c, s)
    <3>1. Waiting(c, s) = {}
      BY <2>3 DEF Waiting, Pending
    <3>2. client[c].dns[s] = 0
      BY DEF SysInit, Init, Unused
    <3> QED
      BY <3>1, <3>2, FS_EmptySet DEF Counted
  <2>5. SecondAfterFirst
    BY <2>3 DEF SecondAfterFirst, Nobody
  <2>6. owner \in [Requests -> (Clients \X DnsServers) \cup {Nobody}]
    BY DEF SysInit
  <2> QED
    BY <2>1, <2>2, <2>3, <2>4, <2>5, <2>6 DEF OwnInv
<1>2. SysInv /\ [SysNext]_sysVars => SysInv'
  BY SysStep
<1> QED
  BY <1>1, <1>2, PTL DEF SysSpec

(* With the requests of SendDNS in place of its guess, the connections     *)
(* still do nothing Proxy does not say: every safety theorem about Proxy   *)
(* holds of the composition.                                               *)
THEOREM SysImplementsProxy == SysSpec => Spec
<1>1. SysInit => Init
  BY DEF SysInit
<1>2. SysInv /\ [SysNext]_sysVars => [Next]_vars
  BY SysStep
<1> QED
  BY <1>1, <1>2, SysInvariance, PTL DEF SysSpec, Spec

(* The number Proxy keeps for a connection is the number of its requests   *)
(* SendDNS still owes a callback.                                          *)
THEOREM QueriesAlwaysCounted == SysSpec => []QueriesCounted
<1>1. SysInv => QueriesCounted
  BY DEF SysInv, Waiting, QueriesCounted
<1> QED
  BY <1>1, SysInvariance, PTL

(* No name is asked at the second server unless the first one failed it.   *)
THEOREM SecondAlwaysAfterFirst == SysSpec => []SecondAfterFirst
<1>1. SysInv => SecondAfterFirst
  BY DEF SysInv
<1> QED
  BY <1>1, SysInvariance, PTL

(* What is proved of Proxy holds here: no request outlives the Client it   *)
(* will hand to on_dns, because the Client still counts it.                *)
THEOREM ClientAlwaysOutlives ==
    ASSUME NoKnownFault
    PROVE  SysSpec => []ClientOutlivesQuery
<1>1. SysInv /\ ExactInv => ClientOutlivesQuery
  <2> SUFFICES ASSUME SysInv, ExactInv, NEW r \in Requests, Pending(r)
               PROVE  client[owner[r][1]].mem = "live"
    BY DEF ClientOutlivesQuery
  <2> DEFINE c == owner[r][1]
             s == owner[r][2]
  <2>1. c \in Clients /\ s \in DnsServers /\ owner[r] = <<c, s>>
    BY OwnerOf
  <2>2. r \in Waiting(c, s)
    BY <2>1 DEF Waiting
  <2>3. client[c].dns[s] # 0
    BY <2>1, <2>2, FS_EmptySet DEF SysInv
  <2>4. Typed(client[c])
    BY <2>1 DEF SysInv, CoverInv, Covered
  <2> HIDE DEF c, s
  <2>5. InFlight(client[c]) # 0
    BY <2>1, <2>3, <2>4 DEF Typed, ClientRec, InFlight, DnsServers
  <2>6. Uses(client[c]) # 0
    BY <2>4, <2>5, UsesNat
  <2>7. client[c] # Unused
    BY <2>1, <2>3 DEF Unused
  <2>8. Busy(client[c])
    BY <2>1, <2>6, <2>7 DEF ExactInv, Freed
  <2> QED
    BY <2>8 DEF Busy, Exact, c
<1> QED
  BY <1>1, SysInvariance, SysImplementsProxy, ExactInvariance, PTL
=============================================================================
