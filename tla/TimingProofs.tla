---------------------------- MODULE TimingProofs ----------------------------
(***************************************************************************)
(* The times of a connection, for every number of connections and every    *)
(* timeout, when no call fails in one of the ways NoKnownFault leaves out: *)
(* a name is answered in time, a connection that has fallen silent is      *)
(* freed in time, and one is cut short by no more than the others held the *)
(* loop up.                                                                *)
(***************************************************************************)
EXTENDS Timing, ProxyProofs

ClockRec == [accepted : Nat, due : Nat, read : Nat, asked : Nat, dns_due : Nat]

(* The connections that have asked for a target; only the system resolver  *)
(* holds the loop up, and only for these.                                  *)
Hosted == {c \in Clients : client[c].host = TRUE}

DelayBy(S) == IF Dns = {} THEN Cardinality(S) * MaxStall ELSE 0

Delay == DelayBy(Hosted)

Grace == IF Dns = {} THEN 0 ELSE DnsTimeout

(* What the times t of a connection cl have to do with the time n, when    *)
(* the loop was held up for at most d so far.                              *)
OnClock(cl, t, n, d) ==
    /\ cl.mem = "live" =>
          /\ t.due =< t.accepted + TimeOut
          /\ t.accepted + TimeOut + MaxStall =< t.due + TotalStall
          /\ TimeOut # 0 => n =< t.due + d + Grace
    /\ cl.armed = TRUE => n =< t.due + d
    /\ InFlight(cl) > 0 =>
          /\ Dns # {}
          /\ n =< t.dns_due
          /\ TimeOut # 0 => t.dns_due =< t.due + DnsTimeout
          /\ t.dns_due + (IF cl.dns["dns_1"] > 0 /\ "dns_2" \in Dns THEN DnsTimeout ELSE 0)
                =< t.asked + Cardinality(Dns) * DnsTimeout

TimesOK ==
    /\ now \in Nat /\ loop_time \in Nat /\ clock \in [Clients -> ClockRec]
    /\ loop_time =< now /\ now =< loop_time + Delay
    /\ \A c \in Clients : OnClock(client[c], clock[c], now, Delay)

(* A connection is read from when it was accepted on. *)
ReadOK == \A c \in Clients : clock[c].accepted =< clock[c].read /\ clock[c].read =< now

TimeInv == ExactInv /\ CoverInv /\ TimesOK /\ ReadOK

-----------------------------------------------------------------------------
(* What most operators leave of a struct, as far as its times go.          *)
Steady(cl, new) ==
    Typed(new) /\ new.dns = cl.dns /\ new.host = cl.host /\ new.armed = cl.armed

LEMMA SteadyTrans ==
    ASSUME NEW a, NEW b, NEW c, Steady(a, b), Steady(b, c)
    PROVE  Steady(a, c)
BY DEF Steady

LEMMA FailSteady ==
    ASSUME NEW cl, Typed(cl), NEW kind \in FaultKinds
    PROVE  Steady(cl, Fail(cl, kind))
<1>1. Steady(cl, cl) /\ Steady(cl, [cl EXCEPT !.fault = kind])
  BY DEF Steady, Typed, ClientRec
<1> QED
  BY <1>1 DEF Fail

LEMMA KindsOfFault == {"use_after_free", "double_close", "reinit"} \subseteq FaultKinds
BY DEF FaultKinds

LEMMA CloseSteady ==
    ASSUME NEW cl, Typed(cl), NEW h \in Handles
    PROVE  Steady(cl, uv_close(cl, h)) /\ Steady(cl, CloseIfUp(cl, h))
<1>1. Steady(cl, cl) /\ Steady(cl, [cl EXCEPT !.handle[h] = "closing"])
  BY DEF Steady, Typed, ClientRec, HandleStatus
<1>2. Steady(cl, uv_close(cl, h))
  BY <1>1, FailSteady, KindsOfFault DEF uv_close
<1> QED
  BY <1>1, <1>2 DEF CloseIfUp

(* Two closes in one callback.                                             *)
LEMMA ClosesSteady ==
    ASSUME NEW cl, Typed(cl), NEW h \in Handles, NEW s \in Handles
    PROVE  /\ Steady(cl, CloseIfUp(uv_close(cl, h), s))
           /\ Steady(cl, CloseIfUp(CloseIfUp(cl, h), s))
<1> DEFINE a == uv_close(cl, h)
           b == CloseIfUp(cl, h)
<1>1. Steady(cl, a) /\ Steady(cl, b)
  BY CloseSteady
<1> HIDE DEF a, b
<1>2. Steady(a, CloseIfUp(a, s)) /\ Steady(b, CloseIfUp(b, s))
  BY <1>1, CloseSteady DEF Steady
<1>3. Steady(cl, CloseIfUp(a, s)) /\ Steady(cl, CloseIfUp(b, s))
  BY <1>1, <1>2, SteadyTrans
<1> QED
  BY <1>3 DEF a, b

LEMMA RefSteady ==
    ASSUME NEW cl, Typed(cl)
    PROVE  Steady(cl, ref_client(cl))
BY DEF ref_client, Steady, Typed, ClientRec

LEMMA UnrefSteady ==
    ASSUME NEW cl, Typed(cl)
    PROVE  Steady(cl, unref_client(cl))
<1> DEFINE dropped == [cl EXCEPT !.ref_count = @ - 1]
           freed   == [dropped EXCEPT !.mem = "freed"]
<1>1. Steady(cl, dropped)
  BY DEF Steady, Typed, ClientRec
<1>2. unref_client(cl) \in {Fail(cl, "use_after_free"), dropped, Fail(freed, FreeFault(cl))}
  BY DEF unref_client
<1>3. FreeFault(cl) \in FaultKinds
  BY DEF FreeFault, FaultKinds
<1> HIDE DEF dropped
<1>4. Steady(dropped, freed)
  BY <1>1 DEF Steady, Typed, ClientRec
<1> HIDE DEF freed
<1>5. Steady(freed, Fail(freed, FreeFault(cl)))
  BY <1>3, <1>4, FailSteady DEF Steady
<1>6. Steady(cl, Fail(freed, FreeFault(cl)))
  BY <1>1, <1>4, <1>5, SteadyTrans
<1> QED
  BY <1>1, <1>2, <1>6, FailSteady, KindsOfFault

LEMMA ConnectSteady ==
    ASSUME NEW cl, Typed(cl)
    PROVE  Steady(cl, [ConnectTargetServer(cl, TRUE) EXCEPT !.state = 1])
<1> DEFINE inited == uv_init(cl, "targetClient")
           up     == [inited EXCEPT !.data = @ \cup {"targetClient"}, !.connecting = TRUE]
           r      == [up EXCEPT !.state = 1]
<1>1. ConnectTargetServer(cl, TRUE) = up
  BY DEF ConnectTargetServer
<1>2. Steady(cl, [cl EXCEPT !.handle["targetClient"] = "open"])
  BY DEF Steady, Typed, ClientRec, Handles, Sockets, HandleStatus
<1>3. Steady(cl, inited)
  BY <1>2, FailSteady, KindsOfFault DEF uv_init
<1> HIDE DEF inited
<1>4. Steady(inited, up)
  BY <1>3 DEF Steady, Typed, ClientRec, Handles, Sockets
<1> HIDE DEF up
<1>5. Steady(up, r)
  BY <1>4 DEF Steady, Typed, ClientRec
<1> HIDE DEF r
<1>6. Steady(cl, r)
  BY <1>3, <1>4, <1>5, SteadyTrans
<1> QED
  BY <1>1, <1>6 DEF r

LEMMA GiveUpSteady ==
    ASSUME NEW cl, Typed(cl)
    PROVE  Steady(cl, GiveUp(cl))
<1>1. Steady(cl, uv_close(cl, "proxyClient"))
  BY CloseSteady, ProxyIsHandle
<1>2. Steady(uv_close(cl, "proxyClient"), GiveUp(cl))
  BY <1>1, UnrefSteady DEF GiveUp, Steady
<1> QED
  BY <1>1, <1>2, SteadyTrans

(* on_dns asks the second server once more, or starts no clock.            *)
LEMMA OnDnsSteady ==
    ASSUME NEW cl, NEW server, NEW status, NEW queryOk, Typed(cl)
    PROVE  LET r == on_dns(cl, server, status, TRUE, queryOk)
           IN  \/ Steady(cl, r)
               \/ /\ server = "dns_1" /\ "dns_2" \in Dns /\ status # 1 /\ IsUp(cl, "proxyClient")
                  /\ r = send_dns_query(cl, "dns_2")
<1> DEFINE counted == ref_client(cl)
           up      == [ConnectTargetServer(counted, TRUE) EXCEPT !.state = 1]
<1>1. Steady(cl, counted)
  BY RefSteady
<1> HIDE DEF counted
<1>2. Steady(counted, up)
  BY <1>1, ConnectSteady DEF Steady
<1> HIDE DEF up
<1>3. Steady(up, unref_client(up))
  BY <1>2, UnrefSteady DEF Steady
<1>4. Steady(cl, unref_client(up))
  BY <1>1, <1>2, <1>3, SteadyTrans
<1>5. Steady(cl, unref_client(cl)) /\ Steady(cl, GiveUp(cl))
  BY UnrefSteady, GiveUpSteady
<1>6. LET r == on_dns(cl, server, status, TRUE, queryOk)
      IN  \/ r \in {unref_client(cl), unref_client(up), GiveUp(cl)}
          \/ /\ server = "dns_1" /\ "dns_2" \in Dns /\ status # 1 /\ IsUp(cl, "proxyClient")
             /\ r = send_dns_query(cl, "dns_2")
  BY DEF on_dns, up, counted
<1> QED
  BY <1>4, <1>5, <1>6

(* The timer is stopped with the last socket.                              *)
LEMMA CloseCbSteady ==
    ASSUME NEW cl, NEW h \in Handles, Typed(cl)
    PROVE  LET new == close_cb(cl, h)
           IN  /\ Typed(new) /\ new.dns = cl.dns /\ new.host = cl.host
               /\ new.armed = TRUE => cl.armed = TRUE
               /\ new.armed # cl.armed => Sockets \cap (cl.data \ {h}) = {}
<1> DEFINE closed  == [cl EXCEPT !.handle[h] = "closed", !.data = @ \ {h}]
           stopped == [closed EXCEPT !.armed = FALSE]
           noTimer == IF SocketsGone(closed) THEN uv_close(stopped, "timeout_timer") ELSE closed
<1>1. Steady(cl, closed) /\ closed.data = cl.data \ {h}
  BY DEF Steady, Typed, ClientRec, HandleStatus
<1>2. close_cb(cl, h) \in {unref_client(noTimer), Fail(cl, "null_data")}
  BY DEF close_cb
<1> HIDE DEF closed
<1>3. /\ Typed(stopped) /\ stopped.dns = closed.dns /\ stopped.host = closed.host
      /\ stopped.armed = FALSE
  BY <1>1 DEF Steady, Typed, ClientRec
<1> HIDE DEF stopped
<1>4. Steady(stopped, uv_close(stopped, "timeout_timer"))
  BY <1>3, CloseSteady DEF Handles
<1>5. /\ Typed(noTimer) /\ noTimer.dns = cl.dns /\ noTimer.host = cl.host
      /\ noTimer.armed = TRUE => cl.armed = TRUE
      /\ noTimer.armed # cl.armed => Sockets \cap (cl.data \ {h}) = {}
  BY <1>1, <1>3, <1>4 DEF Steady, SocketsGone
<1> HIDE DEF noTimer
<1>6. Steady(noTimer, unref_client(noTimer))
  BY <1>5, UnrefSteady
<1>7. Steady(cl, Fail(cl, "null_data"))
  BY FailSteady DEF FaultKinds
<1> QED
  BY <1>2, <1>5, <1>6, <1>7 DEF Steady
-----------------------------------------------------------------------------
(* The callbacks of Proxy, as far as the times go: the connection c is     *)
(* used, and no other.                                                     *)
Used(c) ==
    /\ \A d \in Clients \ {c} : client'[d] = client[d]
    /\ client[c].mem = "live"
    /\ client[c].host = TRUE => client'[c].host = TRUE
    /\ client'[c].armed = TRUE => client[c].armed = TRUE

LEMMA HandleUses ==
    ASSUME ExactInv, NEW c \in Clients, NEW cl, Handle(c, cl)
    PROVE  /\ client'[c] = cl /\ client[c].mem = "live"
           /\ \A d \in Clients \ {c} : client'[d] = client[d]
           /\ Busy(client[c]) /\ Typed(client[c])
BY BusyPre DEF Handle, ExactInv, IInv

LEMMA SteadyUses ==
    ASSUME ExactInv, NEW c \in Clients, NEW cl, Handle(c, cl), Steady(client[c], cl)
    PROVE  Used(c) /\ client'[c].dns = client[c].dns /\ client'[c].armed = client[c].armed
BY HandleUses DEF Used, Steady

LEMMA QuietUses ==
    ASSUME ExactInv, NEW c \in Clients,
           \/ read_data_end(c)
           \/ read_data_rejected(c)
           \/ on_connect_porxy(c)
           \/ read_data_porxy_end(c)
    PROVE  Used(c) /\ client'[c].dns = client[c].dns /\ client'[c].armed = client[c].armed
<1> DEFINE cl   == client[c]
           done == [cl EXCEPT !.connecting = FALSE]
           both == CloseIfUp(CloseIfUp(done, "targetClient"), "proxyClient")
<1>1. \/ Handle(c, CloseIfUp(uv_close(cl, "proxyClient"), "targetClient"))
      \/ Handle(c, CloseIfUp(uv_close(cl, "targetClient"), "proxyClient"))
      \/ Handle(c, uv_close(cl, "proxyClient"))
      \/ Handle(c, done)
      \/ Handle(c, both)
  BY DEF read_data_end, read_data_rejected, on_connect_porxy, read_data_porxy_end
<1>2. Typed(cl)
  BY <1>1, HandleUses
<1>3. "targetClient" \in Handles /\ "proxyClient" \in Handles
  BY DEF Handles, Sockets
<1>4. /\ Steady(cl, CloseIfUp(uv_close(cl, "proxyClient"), "targetClient"))
      /\ Steady(cl, CloseIfUp(uv_close(cl, "targetClient"), "proxyClient"))
      /\ Steady(cl, uv_close(cl, "proxyClient"))
  BY <1>2, <1>3, ClosesSteady, CloseSteady
<1>5. Steady(cl, done)
  BY <1>2 DEF Steady, Typed, ClientRec
<1>6. Steady(cl, both)
  <2> HIDE DEF done
  <2>1. Steady(done, both)
    BY <1>3, <1>5, ClosesSteady DEF Steady
  <2> QED
    BY <1>5, <2>1, SteadyTrans
<1> HIDE DEF done, both
<1> QED
  BY <1>1, <1>4, <1>5, <1>6, SteadyUses

LEMMA TimeoutUses ==
    ASSUME ExactInv, NEW c \in Clients, on_timeout(c)
    PROVE  Used(c) /\ client'[c].dns = client[c].dns
<1> DEFINE stopped == [client[c] EXCEPT !.armed = FALSE]
           both    == CloseIfUp(CloseIfUp(stopped, "proxyClient"), "targetClient")
<1>1. Handle(c, both)
  BY DEF on_timeout
<1>2. Typed(client[c])
  BY <1>1, HandleUses
<1>3. /\ Typed(stopped) /\ stopped.dns = client[c].dns /\ stopped.host = client[c].host
      /\ stopped.armed = FALSE
  BY <1>2 DEF Typed, ClientRec
<1> HIDE DEF stopped
<1>4. Steady(stopped, both)
  BY <1>3, ClosesSteady DEF Handles, Sockets
<1> HIDE DEF both
<1> QED
  BY <1>1, <1>3, <1>4, HandleUses DEF Used, Steady

LEMMA ClosedUses ==
    ASSUME ExactInv, NEW c \in Clients, NEW h \in Handles, Closed(c, h)
    PROVE  /\ Used(c) /\ client'[c].dns = client[c].dns
           /\ Serving(client[c], "proxyClient") => client'[c].armed = client[c].armed
<1>1. Handle(c, close_cb(client[c], h)) /\ client[c].handle[h] = "closing"
  BY DEF Closed
<1>2. Typed(client[c])
  BY <1>1, HandleUses
<1>3. LET new == close_cb(client[c], h)
      IN  /\ new.dns = client[c].dns /\ new.host = client[c].host
          /\ new.armed = TRUE => client[c].armed = TRUE
          /\ new.armed # client[c].armed => Sockets \cap (client[c].data \ {h}) = {}
  BY <1>2, CloseCbSteady
<1>4. Serving(client[c], "proxyClient") => "proxyClient" \in Sockets \cap (client[c].data \ {h})
  BY <1>1 DEF Serving, Sockets
<1> QED
  BY <1>1, <1>3, <1>4, HandleUses DEF Used

(* The request of a connection is accepted.                                *)
LEMMA FirstOf ==
    ASSUME NoKnownFault, ExactInv, NEW c \in Clients, FirstRequest(c)
    PROVE  /\ Busy(client[c]) /\ Typed(client[c]) /\ client[c].host = FALSE
           /\ InFlight(client[c]) = 0 /\ Serving(client[c], "proxyClient")
<1>1. client[c].handle["proxyClient"] = "open"
  BY DEF FirstRequest, Readable
<1>2. Busy(client[c])
  BY <1>1, ProxyIsHandle DEF ExactInv, Unused, Freed, Listed
<1>3. Typed(client[c]) /\ client[c].host \in BOOLEAN
  BY <1>2 DEF Busy, Exact, Typed, ClientRec
<1>4. client[c].host = FALSE
  BY <1>3, OutcomesKnown DEF FirstRequest
<1>5. "proxyClient" \in client[c].data
  BY <1>1, <1>2, ProxyIsHandle DEF Busy, Exact
<1> QED
  BY <1>1, <1>2, <1>3, <1>4, <1>5 DEF Busy, OneUse, Serving

LEMMA RequestedSteady ==
    ASSUME NEW cl, Typed(cl)
    PROVE  /\ Typed(Requested(cl)) /\ Requested(cl).dns = cl.dns
           /\ Requested(cl).host = TRUE /\ Requested(cl).armed = cl.armed
<1> DEFINE hosted == [cl EXCEPT !.host = TRUE]
<1>1. Typed(hosted) /\ hosted.dns = cl.dns /\ hosted.host = TRUE /\ hosted.armed = cl.armed
  BY DEF Typed, ClientRec
<1> HIDE DEF hosted
<1>2. Steady(hosted, Requested(cl))
  BY <1>1, RefSteady DEF Requested, hosted
<1> QED
  BY <1>1, <1>2 DEF Steady

LEMMA AddressUses ==
    ASSUME NoKnownFault, ExactInv, NEW c \in Clients, read_data_address(c)
    PROVE  /\ Used(c) /\ client'[c].dns = client[c].dns /\ client'[c].armed = client[c].armed
           /\ client[c].host = FALSE /\ client'[c].host = TRUE
<1> DEFINE requested == Requested(client[c])
           r         == [ConnectTargetServer(requested, TRUE) EXCEPT !.state = 1]
<1>1. PICK connectOk \in Outcomes("connect") :
          LET connected == ConnectTargetServer(requested, connectOk)
          IN  Handle(c, IF connectOk THEN [connected EXCEPT !.state = 1]
                                     ELSE unref_client(connected))
  BY Zenon DEF read_data_address
<1>2. connectOk = TRUE
  BY OutcomesKnown
<1>3. Handle(c, r)
  BY <1>1, <1>2
<1>4. Typed(client[c]) /\ client[c].host = FALSE
  BY FirstOf DEF read_data_address
<1>5. /\ Typed(requested) /\ requested.dns = client[c].dns
      /\ requested.host = TRUE /\ requested.armed = client[c].armed
  BY <1>4, RequestedSteady
<1> HIDE DEF requested
<1>6. Steady(requested, r)
  BY <1>5, ConnectSteady
<1> HIDE DEF r
<1> QED
  BY <1>3, <1>4, <1>5, <1>6, HandleUses DEF Used, Steady

LEMMA NameUses ==
    ASSUME NoKnownFault, ExactInv, NEW c \in Clients, read_data_name(c)
    PROVE  /\ Used(c) /\ client'[c].armed = client[c].armed
           /\ client[c].host = FALSE /\ client'[c].host = TRUE
           /\ Serving(client[c], "proxyClient")
           /\ InFlight(client'[c]) = 0 \/ Dns # {}
<1> DEFINE requested == Requested(client[c])
           dropped   == unref_client(requested)
           refused   == uv_close(dropped, "proxyClient")
           resolved  == on_dns(requested, "none", 1, TRUE, TRUE)
           asked     == send_dns_query(requested, "dns_1")
<1>1. PICK queryOk \in Outcomes("query"), connectOk \in Outcomes("connect") :
          Handle(c, CASE ~queryOk -> refused
                      [] queryOk /\ Dns = {} -> on_dns(requested, "none", 1, connectOk, TRUE)
                      [] OTHER -> asked)
  BY Zenon DEF read_data_name, Resolve, send_default_dns
<1>2. connectOk = TRUE /\ queryOk \in BOOLEAN
  BY OutcomesKnown, OutcomesBoolean
<1>3. Handle(c, refused) \/ Handle(c, resolved) \/ (Handle(c, asked) /\ Dns # {})
  <2> HIDE DEF refused, asked, requested
  <2> QED
    BY <1>1, <1>2
<1>4. /\ Typed(client[c]) /\ client[c].host = FALSE /\ InFlight(client[c]) = 0
      /\ Serving(client[c], "proxyClient")
  BY FirstOf DEF read_data_name, Resolve
<1>5. /\ Typed(requested) /\ requested.dns = client[c].dns
      /\ requested.host = TRUE /\ requested.armed = client[c].armed
  BY <1>4, RequestedSteady
<1> HIDE DEF requested
<1>6. Steady(requested, refused)
  <2>1. Steady(requested, dropped)
    BY <1>5, UnrefSteady
  <2> HIDE DEF dropped
  <2>2. Steady(dropped, refused)
    BY <2>1, CloseSteady, ProxyIsHandle DEF Steady
  <2> HIDE DEF refused
  <2> QED
    BY <2>1, <2>2, SteadyTrans
<1>7. Steady(requested, resolved)
  BY <1>5, OnDnsSteady
<1>8. asked.host = TRUE /\ asked.armed = client[c].armed
  BY <1>5 DEF send_dns_query, Typed, ClientRec
<1> HIDE DEF refused, resolved, asked
<1>9. CASE Handle(c, refused) \/ Handle(c, resolved)
  BY <1>4, <1>5, <1>6, <1>7, <1>9, HandleUses DEF Used, Steady, InFlight
<1>10. CASE Handle(c, asked) /\ Dns # {}
  BY <1>4, <1>8, <1>10, HandleUses DEF Used
<1> QED
  BY <1>3, <1>9, <1>10

(* A request ends: it was the one in flight, and the second server is      *)
(* asked only for a client that is up.                                     *)
LEMMA ReplyUses ==
    ASSUME NoKnownFault, ExactInv, NEW c \in Clients, NEW s \in DnsServers, NEW status,
           NEW queryOk, DnsReply(c, s, status, queryOk)
    PROVE  /\ Used(c) /\ client'[c].armed = client[c].armed
           /\ InFlight(client[c]) > 0
           /\ \/ InFlight(client'[c]) = 0
              \/ /\ Serving(client[c], "proxyClient")
                 /\ client[c].dns["dns_1"] > 0 /\ "dns_2" \in Dns
                 /\ ~(client'[c].dns["dns_1"] > 0)
<1> DEFINE answered == [client[c] EXCEPT !.dns[s] = @ - 1]
           r        == on_dns(answered, s, status, TRUE, queryOk)
<1>1. Handle(c, r) /\ client[c].dns[s] > 0
  BY OutcomesKnown DEF DnsReply
<1>2. Busy(client[c]) /\ Typed(client[c]) /\ client[c].fault = "none"
  BY <1>1, HandleUses DEF Busy, Exact
<1>3. /\ client[c].dns["dns_1"] \in Nat /\ client[c].dns["dns_2"] \in Nat
      /\ InFlight(client[c]) = client[c].dns["dns_1"] + client[c].dns["dns_2"]
      /\ s = "dns_1" \/ s = "dns_2"
  BY <1>2 DEF Typed, ClientRec, InFlight, DnsServers
<1>4. InFlight(client[c]) = 1
  BY <1>1, <1>2, <1>3 DEF Busy, OneUse
<1>5. /\ Typed(answered) /\ answered.host = client[c].host /\ answered.armed = client[c].armed
      /\ answered.handle = client[c].handle /\ answered.data = client[c].data
      /\ answered.dns["dns_1"] = 0 /\ answered.dns["dns_2"] = 0
  <2>1. client[c].dns \in [DnsServers -> Nat]
    BY <1>2 DEF Typed, ClientRec
  <2>2. client[c].dns[s] - 1 \in Nat
    BY <1>1, <2>1
  <2>3. /\ Typed(answered) /\ answered.host = client[c].host /\ answered.armed = client[c].armed
        /\ answered.handle = client[c].handle /\ answered.data = client[c].data
        /\ answered.dns = [client[c].dns EXCEPT ![s] = client[c].dns[s] - 1]
    BY <1>2, <2>1, <2>2 DEF Typed, ClientRec
  <2> HIDE DEF answered
  <2>4. answered.dns["dns_1"] = 0 /\ answered.dns["dns_2"] = 0
    BY <1>1, <1>3, <1>4, <2>1, <2>3 DEF DnsServers
  <2> QED
    BY <2>3, <2>4
<1> HIDE DEF answered
<1>6. \/ Steady(answered, r)
      \/ /\ s = "dns_1" /\ "dns_2" \in Dns /\ IsUp(answered, "proxyClient")
         /\ r = send_dns_query(answered, "dns_2")
  BY <1>5, OnDnsSteady
<1>7. CASE Steady(answered, r)
  <2> HIDE DEF r
  <2> QED
    BY <1>1, <1>4, <1>5, <1>7, HandleUses DEF Used, Steady, InFlight
<1>8. CASE /\ s = "dns_1" /\ "dns_2" \in Dns /\ IsUp(answered, "proxyClient")
           /\ r = send_dns_query(answered, "dns_2")
  <2>1. r.host = answered.host /\ r.armed = answered.armed /\ r.dns["dns_1"] = answered.dns["dns_1"]
    BY <1>5, <1>8 DEF send_dns_query, Typed, ClientRec, DnsServers
  <2>2. Serving(client[c], "proxyClient")
    <3>1. "proxyClient" \in client[c].data /\ client[c].handle["proxyClient"] \notin {"closing", "closed"}
      BY <1>5, <1>8 DEF IsUp, uv_is_closing
    <3> QED
      BY <1>2, <3>1, ProxyIsHandle DEF Busy, Exact, Serving
  <2> HIDE DEF r
  <2> QED
    BY <1>1, <1>4, <1>5, <1>8, <2>1, <2>2, HandleUses DEF Used
<1> QED
  BY <1>6, <1>7, <1>8

(* A struct is handed out; no other is touched.                            *)
LEMMA AcceptUses ==
    ASSUME NoKnownFault, ExactInv, NEW c \in Clients, on_new_connection(c)
    PROVE  /\ client[c] = Unused /\ \A d \in Clients \ {c} : client'[d] = client[d]
           /\ client'[c].host = FALSE /\ InFlight(client'[c]) = 0
<1>1. client[c] = Unused
  BY DEF on_new_connection, ExactInv, Busy, Exact, Freed
<1>2. PICK readOk \in BOOLEAN : client' = [client EXCEPT ![c] = Accepted(readOk)]
  BY OutcomesKnown, OutcomesBoolean DEF on_new_connection
<1>3. client'[c] = Accepted(readOk) /\ \A d \in Clients \ {c} : client'[d] = client[d]
  BY <1>2 DEF ExactInv, IInv
<1> DEFINE ready == IF TimeOut # 0 THEN TimedClient ELSE AcceptedClient
<1>4. Typed(ready) /\ ready.host = FALSE /\ ready.dns = [s \in DnsServers |-> 0]
  BY AcceptedFields, TimedFields
<1>5. Accepted(readOk) = IF readOk THEN ready ELSE uv_close(ready, "proxyClient")
  BY AcceptedIsOne
<1> HIDE DEF ready
<1>6. Steady(ready, uv_close(ready, "proxyClient"))
  BY <1>4, CloseSteady, ProxyIsHandle
<1>7. Accepted(readOk).host = FALSE /\ Accepted(readOk).dns = [s \in DnsServers |-> 0]
  BY <1>4, <1>5, <1>6 DEF Steady
<1>8. InFlight(Accepted(readOk)) = 0
  BY <1>7 DEF InFlight, DnsServers
<1> QED
  BY <1>1, <1>3, <1>7, <1>8

-----------------------------------------------------------------------------
(* How long the loop can have been held up.                                *)
LEMMA MoreStall ==
    ASSUME NEW k \in Nat, NEW n \in Nat, NEW m \in Nat, k =< n
    PROVE  k * m \in Nat /\ k * m =< n * m /\ (k + 1) * m = k * m + m
<1>1. PICK i \in Nat : n = k + i
  <2>1. n - k \in Nat /\ n = k + (n - k)
    OBVIOUS
  <2> QED
    BY <2>1
<1>2. i * m \in Nat /\ k * m \in Nat
  OBVIOUS
<1>3. n * m = k * m + i * m
  BY <1>1
<1> QED
  BY <1>2, <1>3

LEMMA DelayGrows ==
    ASSUME IsFiniteSet(Clients), NEW S, NEW T, S \subseteq T, T \subseteq Clients
    PROVE  DelayBy(S) \in Nat /\ DelayBy(T) \in Nat /\ DelayBy(S) =< DelayBy(T)
<1>1. IsFiniteSet(T) /\ IsFiniteSet(S)
  BY FS_Subset
<1>2. Cardinality(S) \in Nat /\ Cardinality(T) \in Nat /\ Cardinality(S) =< Cardinality(T)
  BY <1>1, FS_CardinalityType, FS_Subset
<1>3. MaxStall \in Nat
  BY TimingAssumption
<1> DEFINE k == Cardinality(S)
           n == Cardinality(T)
<1> HIDE DEF k, n
<1>4. k \in Nat /\ n \in Nat /\ k =< n
  BY <1>2 DEF k, n
<1>5. k * MaxStall \in Nat /\ n * MaxStall \in Nat /\ k * MaxStall =< n * MaxStall
  BY <1>3, <1>4, MoreStall
<1> QED
  BY <1>5 DEF DelayBy, k, n

LEMMA DelayOfOneMore ==
    ASSUME IsFiniteSet(Clients), NEW S, S \subseteq Clients, NEW c \in Clients \ S
    PROVE  /\ DelayBy(S) + MaxStall =< TotalStall /\ TotalStall \in Nat
           /\ Dns = {} => DelayBy(S \cup {c}) = DelayBy(S) + MaxStall
<1>1. IsFiniteSet(S) /\ IsFiniteSet(S \cup {c}) /\ Cardinality(S \cup {c}) = Cardinality(S) + 1
  BY FS_Subset, FS_AddElement
<1>2. /\ Cardinality(S) \in Nat /\ Cardinality(Clients) \in Nat
      /\ Cardinality(S \cup {c}) =< Cardinality(Clients)
  BY <1>1, FS_CardinalityType, FS_Subset
<1>3. MaxStall \in Nat
  BY TimingAssumption
<1> DEFINE k == Cardinality(S)
           n == Cardinality(Clients)
<1> HIDE DEF k, n
<1>4. k \in Nat /\ n \in Nat /\ k + 1 =< n
  BY <1>1, <1>2 DEF k, n
<1>5. /\ (k + 1) * MaxStall =< n * MaxStall /\ n * MaxStall \in Nat /\ k * MaxStall \in Nat
      /\ (k + 1) * MaxStall = k * MaxStall + MaxStall
  BY <1>3, <1>4, MoreStall
<1>6. /\ TotalStall = n * MaxStall /\ DelayBy(S) = IF Dns = {} THEN k * MaxStall ELSE 0
      /\ Dns = {} => DelayBy(S \cup {c}) = (k + 1) * MaxStall
  BY <1>1 DEF TotalStall, DelayBy, k, n
<1> QED
  BY <1>3, <1>5, <1>6

LEMMA DelayWithin ==
    ASSUME IsFiniteSet(Clients)
    PROVE  /\ Hosted \subseteq Clients /\ Delay \in Nat /\ TotalStall \in Nat
           /\ Delay =< TotalStall
           /\ Dns # {} => Delay = 0
<1>1. Hosted \subseteq Clients
  BY DEF Hosted
<1>2. Delay \in Nat /\ (Dns # {} => Delay = 0)
  BY <1>1, DelayGrows DEF Delay, DelayBy
<1>3. DelayBy(Hosted) =< DelayBy(Clients) /\ DelayBy(Clients) \in Nat
  BY <1>1, DelayGrows
<1>4. TotalStall \in Nat
  BY FS_CardinalityType, TimingAssumption, MoreStall DEF TotalStall
<1>5. Dns = {} => DelayBy(Clients) = TotalStall
  BY DEF DelayBy, TotalStall
<1> QED
  BY <1>1, <1>2, <1>3, <1>4, <1>5 DEF Delay

LEMMA DnsWait ==
    /\ DnsTimeout \in Nat \ {0} /\ Grace \in Nat /\ TimeOut \in Nat
    /\ Dns # {} => Cardinality(Dns) * DnsTimeout
                      = DnsTimeout + (IF "dns_2" \in Dns THEN DnsTimeout ELSE 0)
<1>1. DnsTimeout \in Nat \ {0} /\ Grace \in Nat /\ TimeOut \in Nat
  BY TimingAssumption, TimeOutAssumption DEF Grace
<1>2. Cardinality({"dns_1"}) = 1
  BY FS_Singleton
<1>3. Cardinality({"dns_1", "dns_2"}) = 2
  <2>1. Cardinality({"dns_1"} \cup {"dns_2"}) = 2
    BY <1>2, FS_AddElement, FS_Singleton
  <2>2. {"dns_1", "dns_2"} = {"dns_1"} \cup {"dns_2"}
    OBVIOUS
  <2> QED
    BY <2>1, <2>2
<1>4. CASE Dns = {"dns_1"}
  BY <1>1, <1>2, <1>4
<1>5. CASE Dns = {"dns_1", "dns_2"}
  BY <1>1, <1>3, <1>5
<1> QED
  BY <1>1, <1>4, <1>5, DnsAssumption

-----------------------------------------------------------------------------
(* The times of a connection that no clock was started for.                *)
SameTimes(t, u) ==
    u.due = t.due /\ u.accepted = t.accepted /\ u.asked = t.asked /\ u.dns_due = t.dns_due

LEMMA ClockKept ==
    ASSUME NEW cl, NEW new, NEW t \in ClockRec, NEW u, SameTimes(t, u),
           NEW n \in Nat, NEW d \in Nat, NEW d2 \in Nat, d =< d2, OnClock(cl, t, n, d),
           new.mem = "live" => cl.mem = "live",
           new.armed = TRUE => cl.armed = TRUE,
           new.dns = cl.dns \/ InFlight(new) = 0
    PROVE  OnClock(new, u, n, d2)
<1>1. t.due \in Nat
  BY DEF ClockRec
<1>2. new.dns = cl.dns => InFlight(new) = InFlight(cl)
  BY DEF InFlight
<1> QED
  BY <1>1, <1>2, DnsWait DEF OnClock, SameTimes

(* The loop is held up by no more than is allowed for.                     *)
LEMMA ClockStalled ==
    ASSUME NEW cl, NEW t \in ClockRec, NEW n \in Nat, NEW d \in Nat,
           NEW k \in Nat, NEW m \in Nat, k =< m, Dns = {}, OnClock(cl, t, n, d)
    PROVE  OnClock(cl, t, n + k, d + m)
<1>1. t.due \in Nat
  BY DEF ClockRec
<1> QED
  BY <1>1, DnsWait DEF OnClock
-----------------------------------------------------------------------------
(* Every step is a step of the connections, or leaves them alone.          *)
LEMMA TimingIsProxy ==
    ASSUME [TimingNext]_timingVars
    PROVE  [Next]_vars
<1>1. CASE UNCHANGED timingVars
  BY <1>1 DEF timingVars, vars
<1>2. CASE Tick \/ Turn
  BY <1>2 DEF Tick, Turn
<1>3. ASSUME NEW c \in Clients,
             \/ Accept(c)
             \/ Request(c)
             \/ RequestBlocking(c)
      PROVE  Next
  BY <1>3 DEF Accept, Request, RequestBlocking, Next
<1>4. ASSUME NEW c \in Clients, Data(c)
      PROVE  UNCHANGED vars
  BY <1>4 DEF Data
<1>5. ASSUME NEW c \in Clients, NEW status \in {1, -1, -2}, Reply(c, status)
      PROVE  Next
  BY <1>5 DEF Reply, DnsAnswer, Next
<1>6. ASSUME NEW c \in Clients, Answer(c) \/ on_dns_timeout(c)
      PROVE  Next
  BY <1>5, <1>6 DEF Answer, on_dns_timeout
<1>7. ASSUME NEW c \in Clients, Other(c)
      PROVE  Next
  BY <1>7 DEF Other, Next
<1> QED
  BY <1>1, <1>2, <1>3, <1>4, <1>6, <1>7 DEF TimingNext

(* The delay allowed for grows with the connections that have asked.       *)
LEMMA DelayKept ==
    ASSUME IsFiniteSet(Clients), NEW c \in Clients,
           \A d \in Clients \ {c} : client'[d] = client[d],
           client[c].host = TRUE => client'[c].host = TRUE
    PROVE  Delay \in Nat /\ Delay' \in Nat /\ Delay =< Delay'
<1>1. Hosted \subseteq Hosted' /\ Hosted' \subseteq Clients
  BY DEF Hosted
<1>2. DelayBy(Hosted) \in Nat /\ DelayBy(Hosted') \in Nat /\ DelayBy(Hosted) =< DelayBy(Hosted')
  BY <1>1, DelayGrows
<1>3. Delay = DelayBy(Hosted) /\ Delay' = DelayBy(Hosted')
  BY DEF Delay, DelayBy
<1> QED
  BY <1>2, <1>3

(* One connection is handled and the clock stands still: only the times of *)
(* this one are left to look at.                                           *)
LEMMA OneChanges ==
    ASSUME IsFiniteSet(Clients), TimesOK, NEW c \in Clients, NEW u \in ClockRec,
           \A d \in Clients \ {c} : client'[d] = client[d],
           client[c].host = TRUE => client'[c].host = TRUE,
           Clock(c, u), Untimed, OnClock(client'[c], u, now, Delay')
    PROVE  TimesOK'
<1>1. Delay \in Nat /\ Delay' \in Nat /\ Delay =< Delay'
  BY DelayKept
<1>2. now \in Nat /\ loop_time \in Nat /\ clock \in [Clients -> ClockRec]
  BY DEF TimesOK
<1>3. now' = now /\ loop_time' = loop_time
  BY DEF Untimed
<1>4. /\ clock' \in [Clients -> ClockRec] /\ clock'[c] = u
      /\ \A d \in Clients \ {c} : clock'[d] = clock[d]
  BY <1>2 DEF Clock
<1>5. ASSUME NEW d \in Clients \ {c}
      PROVE  OnClock(client[d], clock[d], now, Delay')
  <2>1. OnClock(client[d], clock[d], now, Delay) /\ clock[d] \in ClockRec
    BY <1>2 DEF TimesOK
  <2>2. SameTimes(clock[d], clock[d])
    BY DEF SameTimes
  <2> DEFINE more == Delay'
  <2>3. more \in Nat /\ Delay =< more
    BY <1>1
  <2> HIDE DEF more
  <2>4. OnClock(client[d], clock[d], now, more)
    BY <1>1, <1>2, <2>1, <2>2, <2>3, ClockKept
  <2> QED
    BY <2>4 DEF more
<1>6. \A d \in Clients : OnClock(client'[d], clock'[d], now', Delay')
  BY <1>3, <1>4, <1>5
<1>7. loop_time =< now /\ now =< loop_time + Delay'
  <2> DEFINE d == Delay
             e == Delay'
  <2>1. d \in Nat /\ e \in Nat /\ d =< e
    BY <1>1
  <2> HIDE DEF e
  <2>2. loop_time =< now /\ now =< loop_time + d
    BY DEF TimesOK
  <2> HIDE DEF d
  <2>3. loop_time =< now /\ now =< loop_time + e
    BY <1>2, <2>1, <2>2
  <2> QED
    BY <2>3 DEF e
<1> QED
  BY <1>2, <1>3, <1>4, <1>6, <1>7 DEF TimesOK, OnClock

(* No clock of this connection was started.                                *)
LEMMA NoneStarted ==
    ASSUME IsFiniteSet(Clients), TimesOK, NEW c \in Clients, Used(c),
           NEW u \in ClockRec, SameTimes(clock[c], u), Clock(c, u), Untimed,
           client'[c].dns = client[c].dns \/ InFlight(client'[c]) = 0
    PROVE  TimesOK'
<1>1. Delay \in Nat /\ Delay' \in Nat /\ Delay =< Delay'
  BY DelayKept DEF Used
<1>2. now \in Nat /\ clock[c] \in ClockRec /\ OnClock(client[c], clock[c], now, Delay)
  BY DEF TimesOK
<1>3. OnClock(client'[c], u, now, Delay')
  BY <1>1, <1>2, ClockKept DEF Used
<1> QED
  BY <1>3, OneChanges DEF Used

LEMMA OtherKeeps ==
    ASSUME IsFiniteSet(Clients), ExactInv, TimesOK, NEW c \in Clients, Other(c)
    PROVE  TimesOK'
<1>1. Used(c) /\ client'[c].dns = client[c].dns
  BY QuietUses, TimeoutUses, ClosedUses DEF Other
<1>2. clock[c] \in ClockRec /\ SameTimes(clock[c], clock[c])
  BY DEF TimesOK, SameTimes
<1>3. Clock(c, clock[c]) /\ Untimed
  BY DEF Clock, Other, TimesOK
<1> QED
  BY <1>1, <1>2, <1>3, NoneStarted

LEMMA ReadKept ==
    ASSUME TimesOK, NEW c \in Clients
    PROVE  Read(c) \in ClockRec /\ SameTimes(clock[c], Read(c))
BY DEF TimesOK, ClockRec, Read, uv_timer_again, SameTimes
-----------------------------------------------------------------------------
(* One step per action.                                                    *)
LEMMA DelaySame ==
    ASSUME UNCHANGED vars
    PROVE  Delay' = Delay
BY DEF vars, Delay, DelayBy, Hosted

LEMMA TurnKeeps ==
    ASSUME IsFiniteSet(Clients), TimesOK, Turn
    PROVE  TimesOK'
<1>1. now' = now /\ loop_time' = now /\ clock' = clock /\ client' = client /\ Delay' = Delay
  BY DelaySame DEF Turn, vars
<1>2. Delay \in Nat
  BY DelayWithin
<1>3. now =< now + Delay
  BY <1>2 DEF TimesOK
<1> QED
  BY <1>1, <1>3 DEF TimesOK, OnClock

(* The loop sleeps only when nothing is due; a connection whose timer has  *)
(* fired has nothing left then but the request it waits for.               *)
LEMMA TickLeaves ==
    ASSUME ExactInv, CoverInv, NothingClosing, NEW c \in Clients, TimeOut # 0,
           client[c].mem = "live", ~(client[c].armed = TRUE)
    PROVE  InFlight(client[c]) > 0
<1> DEFINE cl == client[c]
<1>1. Busy(cl)
  BY DEF ExactInv, Unused, Freed
<1>2. /\ Typed(cl) /\ cl.fault = "none" /\ Uses(cl) > 0
      /\ \A h \in Handles : h \in cl.data <=> cl.handle[h] \in {"open", "closing"}
  BY <1>1 DEF Busy, Exact
<1>3. /\ cl.handle["timeout_timer"] = "open" <=> Sockets \cap cl.data # {}
      /\ (\E h \in Sockets : Serving(cl, h)) => cl.armed = TRUE
  BY <1>2 DEF CoverInv, Covered
<1>4. \A h \in Handles : cl.handle[h] # "closing"
  BY DEF NothingClosing
<1>5. \A h \in Sockets : h \notin cl.data
  BY <1>2, <1>3, <1>4 DEF Serving, Handles
<1>6. /\ cl.handle["proxyClient"] \notin {"open", "closing"}
      /\ "targetClient" \notin cl.data
      /\ cl.handle["timeout_timer"] \notin {"open", "closing"}
  BY <1>2, <1>3, <1>4, <1>5 DEF Sockets, Handles
<1>7. InFlight(cl) \in Nat
  BY <1>2, UsesNat
<1> HIDE DEF cl
<1>8. Uses(cl) = InFlight(cl)
  BY <1>6, <1>7 DEF Uses, One
<1> QED
  BY <1>2, <1>8 DEF cl

LEMMA TickKeeps ==
    ASSUME IsFiniteSet(Clients), ExactInv, CoverInv, TimesOK, Tick
    PROVE  TimesOK'
<1>1. /\ now' = now + 1 /\ loop_time' = now + 1 /\ clock' = clock /\ client' = client
      /\ Delay' = Delay /\ now = loop_time
  BY DelaySame DEF Tick, vars
<1>2. Delay \in Nat /\ now \in Nat /\ clock \in [Clients -> ClockRec]
  BY DelayWithin DEF TimesOK
<1>3. ASSUME NEW c \in Clients
      PROVE  OnClock(client[c], clock[c], now + 1, Delay)
  <2> DEFINE cl == client[c]
             t  == clock[c]
  <2>1. t \in ClockRec /\ OnClock(cl, t, now, Delay)
    BY <1>2 DEF TimesOK
  <2>2. t.due \in Nat /\ t.dns_due \in Nat
    BY <2>1 DEF ClockRec
  <2>3. cl.armed = TRUE => now + 1 =< t.due
    BY <1>1, <1>2, <2>2 DEF Tick, NothingDue, TimerDue
  <2>4. InFlight(cl) > 0 => now + 1 =< t.dns_due
    BY <1>1, <1>2, <2>2 DEF Tick, NothingDue, DnsDue
  <2>5. cl.mem = "live" /\ TimeOut # 0 /\ ~(cl.armed = TRUE) => InFlight(cl) > 0
    BY TickLeaves DEF Tick
  <2> HIDE DEF cl, t
  <2> DEFINE e == Delay
  <2>6. e \in Nat
    BY <1>2
  <2> HIDE DEF e
  <2>7. cl.mem = "live" /\ TimeOut # 0 => now + 1 =< t.due + e + Grace
    <3>1. Dns # {} => Grace = DnsTimeout
      BY DEF Grace
    <3>2. InFlight(cl) > 0 /\ TimeOut # 0 => Dns # {} /\ t.dns_due =< t.due + DnsTimeout
      BY <2>1 DEF OnClock
    <3> QED
      BY <1>2, <2>2, <2>3, <2>4, <2>5, <2>6, <3>1, <3>2, DnsWait
  <2>8. cl.armed = TRUE => now + 1 =< t.due + e
    BY <1>2, <2>2, <2>3, <2>6
  <2>9. OnClock(cl, t, now + 1, e)
    BY <2>1, <2>4, <2>7, <2>8 DEF OnClock
  <2> QED
    BY <2>9 DEF cl, t, e
<1>4. now + 1 \in Nat /\ now + 1 =< now + 1 + Delay
  BY <1>2
<1>5. \A c \in Clients : OnClock(client'[c], clock'[c], now', Delay')
  BY <1>1, <1>3
<1>6. /\ now' \in Nat /\ loop_time' \in Nat /\ clock' \in [Clients -> ClockRec]
      /\ loop_time' =< now' /\ now' =< loop_time' + Delay'
  BY <1>1, <1>2, <1>4
<1> QED
  BY <1>5, <1>6 DEF TimesOK, OnClock
(* The two updates of a record of times.                                   *)
TimerStarted(t, a, b) == [t EXCEPT !.accepted = a, !.read = a, !.due = b]

QueryStarted(t, a, b) == [t EXCEPT !.asked = a, !.dns_due = b]

LEMMA TimesSet ==
    ASSUME NEW t \in ClockRec, NEW a \in Nat, NEW b \in Nat
    PROVE  /\ TimerStarted(t, a, b) \in ClockRec
           /\ TimerStarted(t, a, b).accepted = a /\ TimerStarted(t, a, b).due = b
           /\ QueryStarted(t, a, b) \in ClockRec
           /\ QueryStarted(t, a, b).due = t.due /\ QueryStarted(t, a, b).accepted = t.accepted
           /\ QueryStarted(t, a, b).asked = a /\ QueryStarted(t, a, b).dns_due = b
BY DEF ClockRec, TimerStarted, QueryStarted

LEMMA AcceptKeeps ==
    ASSUME NoKnownFault, IsFiniteSet(Clients), ExactInv, TimesOK, NEW c \in Clients, Accept(c)
    PROVE  TimesOK'
<1> DEFINE u   == [clock[c] EXCEPT !.accepted = now, !.read = now, !.due = loop_time + TimeOut]
           new == client'[c]
           d   == Delay
           e   == Delay'
<1>1. Clock(c, u) /\ Untimed /\ on_new_connection(c)
  BY DEF Accept
<1>2. /\ client[c] = Unused /\ \A x \in Clients \ {c} : client'[x] = client[x]
      /\ InFlight(new) = 0
  BY <1>1, AcceptUses
<1>3. client[c].host = FALSE
  BY <1>2 DEF Unused
<1>4. d \in Nat /\ e \in Nat /\ d =< e
  BY <1>2, <1>3, DelayKept
<1>5. d + MaxStall =< TotalStall /\ TotalStall \in Nat
  BY <1>3, DelayOfOneMore DEF Delay, Hosted
<1>6. /\ now \in Nat /\ loop_time \in Nat /\ clock[c] \in ClockRec
      /\ loop_time =< now /\ now =< loop_time + d
  BY DEF TimesOK
<1>7. MaxStall \in Nat
  BY TimingAssumption
<1>8. u \in ClockRec /\ u.accepted = now /\ u.due = loop_time + TimeOut
  <2>1. loop_time + TimeOut \in Nat
    BY <1>6, DnsWait
  <2>2. u = TimerStarted(clock[c], now, loop_time + TimeOut)
    BY DEF TimerStarted
  <2> DEFINE t == clock[c]
             b == loop_time + TimeOut
  <2>3. t \in ClockRec /\ now \in Nat /\ b \in Nat
    BY <1>6, <2>1
  <2> HIDE DEF u, t, b
  <2>4. /\ TimerStarted(t, now, b) \in ClockRec
        /\ TimerStarted(t, now, b).accepted = now /\ TimerStarted(t, now, b).due = b
    BY <2>3, TimesSet
  <2> QED
    BY <2>2, <2>4 DEF t, b
<1> HIDE DEF u, new, d, e
<1>9. OnClock(new, u, now, e)
  BY <1>2, <1>4, <1>5, <1>6, <1>7, <1>8, DnsWait DEF OnClock
<1> QED
  BY <1>1, <1>2, <1>3, <1>8, <1>9, OneChanges DEF new, e

(* A request is sent for a connection, for the first or the second time.   *)
LEMMA ClockStarted ==
    ASSUME NEW cl, NEW new, NEW t \in ClockRec, NEW u, NEW n \in Nat, NEW d \in Nat,
           OnClock(cl, t, n, 0), cl.mem = "live",
           new.armed = TRUE => cl.armed = TRUE,
           u.due = t.due, u.accepted = t.accepted, u.dns_due = n + DnsTimeout,
           Dns # {},
           TimeOut # 0 => cl.armed = TRUE,
           u.dns_due + (IF new.dns["dns_1"] > 0 /\ "dns_2" \in Dns THEN DnsTimeout ELSE 0)
                =< u.asked + Cardinality(Dns) * DnsTimeout
    PROVE  OnClock(new, u, n, d)
<1>1. t.due \in Nat
  BY DEF ClockRec
<1>2. TimeOut # 0 => n =< t.due
  BY <1>1 DEF OnClock
<1>3. u.due =< u.accepted + TimeOut /\ u.accepted + TimeOut + MaxStall =< u.due + TotalStall
  BY DEF OnClock
<1>4. new.armed = TRUE => n =< u.due + d
  BY <1>1 DEF OnClock
<1>5. TimeOut # 0 => n =< u.due + d + Grace /\ u.dns_due =< u.due + DnsTimeout
  BY <1>1, <1>2, DnsWait
<1>6. n =< u.dns_due
  BY DnsWait
<1> QED
  BY <1>3, <1>4, <1>5, <1>6 DEF OnClock

(* A client that is up has its timer running.                              *)
LEMMA UpArmed ==
    ASSUME ExactInv, CoverInv, NEW c \in Clients, client[c].mem = "live", TimeOut # 0,
           Serving(client[c], "proxyClient")
    PROVE  client[c].armed = TRUE
<1>1. client[c].fault = "none"
  BY DEF ExactInv, Unused, Freed, Busy, Exact
<1> QED
  BY <1>1 DEF CoverInv, Covered, Sockets

LEMMA NoDelay ==
    ASSUME IsFiniteSet(Clients), TimesOK, Dns # {}
    PROVE  now = loop_time /\ Delay = 0
<1>1. Delay = 0
  BY DelayWithin
<1>2. now \in Nat /\ loop_time \in Nat /\ loop_time =< now /\ now =< loop_time + 0
  BY <1>1 DEF TimesOK
<1> QED
  BY <1>1, <1>2

LEMMA RequestKeeps ==
    ASSUME NoKnownFault, IsFiniteSet(Clients), ExactInv, CoverInv, TimesOK, ExactInv',
           NEW c \in Clients, Request(c)
    PROVE  TimesOK'
<1> DEFINE read == Read(c)
<1>1. read \in ClockRec /\ SameTimes(clock[c], read) /\ Untimed
  BY ReadKept DEF Request
<1>2. CASE read_data_address(c) /\ Clock(c, read)
  BY <1>1, <1>2, AddressUses, NoneStarted
<1>3. ASSUME Dns # {}, read_data_name(c),
             Clock(c, IF InFlight(client'[c]) > 0 THEN DnsStarted(read, now) ELSE read)
      PROVE  TimesOK'
  <2>1. /\ Used(c) /\ client'[c].armed = client[c].armed
        /\ Serving(client[c], "proxyClient")
    BY <1>3, NameUses
  <2>2. InFlight(client'[c]) \in Nat
    <3>1. Typed(client'[c])
      BY DEF ExactInv, IInv, Sound
    <3> QED
      BY <3>1, UsesNat
  <2>3. CASE InFlight(client'[c]) = 0
    BY <1>1, <1>3, <2>1, <2>3, NoneStarted
  <2>4. CASE InFlight(client'[c]) > 0
    <3> DEFINE u   == DnsStarted(read, now)
               new == client'[c]
               cl  == client[c]
               e   == Delay'
    <3>1. Clock(c, u)
      BY <1>3, <2>4
    <3>2. now = loop_time /\ Delay = 0
      BY <1>3, NoDelay
    <3>3. /\ now \in Nat /\ clock[c] \in ClockRec /\ OnClock(cl, clock[c], now, 0)
      BY <3>2 DEF TimesOK
    <3>4. e \in Nat
      BY <2>1, DelayKept DEF Used
    <3>5. cl.mem = "live" /\ (new.armed = TRUE => cl.armed = TRUE)
      BY <2>1 DEF Used
    <3>6. TimeOut # 0 => cl.armed = TRUE
      BY <2>1, <3>5, UpArmed
    <3>7. /\ u \in ClockRec /\ u.due = clock[c].due /\ u.accepted = clock[c].accepted
          /\ u.asked = now /\ u.dns_due = now + DnsTimeout
      <4>1. loop_time + DnsTimeout \in Nat /\ loop_time + DnsTimeout = now + DnsTimeout
        BY <3>2, <3>3, DnsWait
      <4>2. read.due = clock[c].due /\ read.accepted = clock[c].accepted
        BY <1>1 DEF SameTimes
      <4> HIDE DEF read
      <4>3. u = QueryStarted(read, now, loop_time + DnsTimeout)
        BY DEF DnsStarted, QueryStarted
      <4> DEFINE b == loop_time + DnsTimeout
                 q == QueryStarted(read, now, b)
      <4>4. read \in ClockRec /\ now \in Nat /\ b \in Nat
        BY <1>1, <3>3, <4>1
      <4> HIDE DEF u, b
      <4>5. /\ q \in ClockRec /\ q.due = read.due /\ q.accepted = read.accepted
            /\ q.asked = now /\ q.dns_due = b
        BY <4>4, TimesSet
      <4> QED
        BY <4>1, <4>2, <4>3, <4>5 DEF b
    <3> HIDE DEF u, new, cl, e, read
    <3>8. u.dns_due + (IF new.dns["dns_1"] > 0 /\ "dns_2" \in Dns THEN DnsTimeout ELSE 0)
                =< u.asked + Cardinality(Dns) * DnsTimeout
      BY <1>3, <3>3, <3>7, DnsWait
    <3>9. OnClock(new, u, now, e)
      BY <1>3, <3>3, <3>4, <3>5, <3>6, <3>7, <3>8, ClockStarted
    <3> QED
      BY <1>1, <2>1, <3>1, <3>7, <3>9, OneChanges DEF Used, new, e
  <2> QED
    BY <2>2, <2>3, <2>4
<1> QED
  BY <1>2, <1>3 DEF Request
(* The system resolver holds up every other connection, too.               *)
LEMMA BlockingKeeps ==
    ASSUME NoKnownFault, IsFiniteSet(Clients), ExactInv, TimesOK,
           NEW c \in Clients, RequestBlocking(c)
    PROVE  TimesOK'
<1> DEFINE read == Read(c)
           e    == Delay'
           k    == Delay
<1>1. read \in ClockRec /\ SameTimes(clock[c], read)
  BY ReadKept
<1>2. /\ Used(c) /\ InFlight(client'[c]) = 0
      /\ client[c].host = FALSE /\ client'[c].host = TRUE
  BY NameUses DEF RequestBlocking
<1>3. PICK stall \in 0 .. MaxStall : now' = now + stall
  BY DEF RequestBlocking
<1>4. Dns = {} /\ loop_time' = loop_time /\ Clock(c, read)
  BY DEF RequestBlocking
<1>5. /\ now \in Nat /\ loop_time \in Nat /\ clock \in [Clients -> ClockRec]
      /\ loop_time =< now /\ now =< loop_time + k
  BY DEF TimesOK
<1>6. MaxStall \in Nat /\ stall \in Nat /\ stall =< MaxStall
  BY <1>3, TimingAssumption
<1>7. k \in Nat
  BY DelayWithin
<1>8. e = k + MaxStall
  <2>1. Hosted' = Hosted \cup {c} /\ c \notin Hosted
    BY <1>2 DEF Hosted, Used
  <2>2. DelayBy(Hosted \cup {c}) = DelayBy(Hosted) + MaxStall
    BY <1>4, <2>1, DelayOfOneMore DEF Hosted
  <2> QED
    BY <2>1, <2>2 DEF Delay, DelayBy
<1> HIDE DEF k, e
<1>9. ASSUME NEW d \in Clients
      PROVE  OnClock(client'[d], clock'[d], now + stall, k + MaxStall)
  <2>1. clock[d] \in ClockRec /\ OnClock(client[d], clock[d], now, k)
    BY <1>5 DEF TimesOK, k
  <2>2. CASE d # c
    <3>1. client'[d] = client[d] /\ clock'[d] = clock[d]
      BY <1>2, <1>4, <1>5, <2>2 DEF Used, Clock
    <3>2. OnClock(client[d], clock[d], now + stall, k + MaxStall)
      BY <1>4, <1>5, <1>6, <1>7, <2>1, ClockStalled
    <3> QED
      BY <3>1, <3>2
  <2>3. CASE d = c
    <3> HIDE DEF read
    <3>1. clock'[c] = read
      BY <1>4, <1>5 DEF Clock
    <3>2. OnClock(client'[c], read, now, k)
      <4> DEFINE t   == clock[c]
                 cl  == client[c]
                 new == client'[c]
      <4>1. /\ t \in ClockRec /\ SameTimes(t, read) /\ now \in Nat /\ k \in Nat /\ k =< k
            /\ OnClock(cl, t, now, k)
        BY <1>1, <1>5, <1>7, <2>1, <2>3
      <4>2. cl.mem = "live" /\ (new.armed = TRUE => cl.armed = TRUE) /\ InFlight(new) = 0
        BY <1>2 DEF Used
      <4> HIDE DEF t, cl, new
      <4>3. OnClock(new, read, now, k)
        BY <4>1, <4>2, ClockKept
      <4> QED
        BY <4>3 DEF new
    <3>3. OnClock(client'[c], read, now + stall, k + MaxStall)
      BY <1>1, <1>4, <1>5, <1>6, <1>7, <3>2, ClockStalled
    <3> QED
      BY <2>3, <3>1, <3>3
  <2> QED
    BY <2>2, <2>3
<1>10. \A d \in Clients : OnClock(client'[d], clock'[d], now', Delay')
  BY <1>3, <1>8, <1>9 DEF e
<1>11. clock' \in [Clients -> ClockRec]
  BY <1>1, <1>4, <1>5 DEF Clock
<1>12. now' \in Nat /\ loop_time' \in Nat /\ loop_time' =< now' /\ now' =< loop_time' + e
  <2>1. now' = now + stall /\ loop_time' = loop_time
    BY <1>3, <1>4
  <2> QED
    BY <1>5, <1>6, <1>7, <1>8, <2>1
<1> QED
  BY <1>10, <1>11, <1>12 DEF TimesOK, OnClock, e

LEMMA DataKeeps ==
    ASSUME IsFiniteSet(Clients), TimesOK, NEW c \in Clients, Data(c)
    PROVE  TimesOK'
<1>1. Read(c) \in ClockRec /\ SameTimes(clock[c], Read(c))
  BY ReadKept
<1>2. client' = client /\ Clock(c, Read(c)) /\ Untimed
  BY DEF Data, vars
<1>3. Delay \in Nat /\ Delay' = Delay
  BY <1>2, DelayWithin DEF Delay, DelayBy, Hosted
<1>4. now \in Nat /\ clock[c] \in ClockRec /\ OnClock(client[c], clock[c], now, Delay)
  BY DEF TimesOK
<1>5. OnClock(client[c], Read(c), now, Delay)
  <2> DEFINE u  == Read(c)
             t  == clock[c]
             cl == client[c]
             d  == Delay
  <2>1. t \in ClockRec /\ SameTimes(t, u) /\ now \in Nat /\ d \in Nat /\ OnClock(cl, t, now, d)
    BY <1>1, <1>3, <1>4
  <2>2. d =< d
    BY <2>1
  <2> HIDE DEF u, t, cl, d
  <2>3. OnClock(cl, u, now, d)
    BY <2>1, <2>2, ClockKept
  <2> QED
    BY <2>3 DEF u, cl, d
<1>6. OnClock(client'[c], Read(c), now, Delay')
  BY <1>2, <1>3, <1>5
<1> QED
  BY <1>1, <1>2, <1>6, OneChanges

(* The second request starts before the first has run out, and the timer   *)
(* of a client that is up is still to come.                                *)
LEMMA ReplyKeeps ==
    ASSUME NoKnownFault, IsFiniteSet(Clients), ExactInv, CoverInv, TimesOK, ExactInv',
           NEW c \in Clients, NEW status, Reply(c, status)
    PROVE  TimesOK'
<1>1. PICK s \in DnsServers, queryOk \in Outcomes("query") : DnsReply(c, s, status, queryOk)
  BY DEF Reply
<1>2. /\ Used(c) /\ client'[c].armed = client[c].armed /\ InFlight(client[c]) > 0
      /\ \/ InFlight(client'[c]) = 0
         \/ /\ Serving(client[c], "proxyClient")
            /\ client[c].dns["dns_1"] > 0 /\ "dns_2" \in Dns
            /\ ~(client'[c].dns["dns_1"] > 0)
  BY <1>1, ReplyUses
<1>3. InFlight(client'[c]) \in Nat
  <2>1. Typed(client'[c])
    BY DEF ExactInv, IInv, Sound
  <2> QED
    BY <2>1, UsesNat
<1>4. Untimed /\ clock[c] \in ClockRec /\ SameTimes(clock[c], clock[c])
  BY DEF Reply, TimesOK, SameTimes
<1>5. CASE InFlight(client'[c]) = 0
  <2>1. Clock(c, clock[c])
    BY <1>5 DEF Reply
  <2> QED
    BY <1>2, <1>4, <1>5, <2>1, NoneStarted
<1>6. CASE InFlight(client'[c]) > 0
  <2> DEFINE t   == clock[c]
             u   == DnsStarted(t, t.asked)
             new == client'[c]
             cl  == client[c]
             e   == Delay'
  <2>1. Clock(c, u)
    BY <1>6 DEF Reply
  <2>2. /\ Serving(cl, "proxyClient") /\ "dns_2" \in Dns
        /\ cl.dns["dns_1"] > 0 /\ ~(new.dns["dns_1"] > 0)
    BY <1>2, <1>6
  <2>3. now = loop_time /\ Delay = 0
    BY <2>2, NoDelay
  <2>4. /\ now \in Nat /\ t \in ClockRec /\ OnClock(cl, t, now, 0)
    BY <2>3 DEF TimesOK
  <2>5. e \in Nat
    BY <1>2, DelayKept DEF Used
  <2>6. cl.mem = "live" /\ (new.armed = TRUE => cl.armed = TRUE)
    BY <1>2 DEF Used
  <2>7. TimeOut # 0 => cl.armed = TRUE
    BY <2>2, <2>6, UpArmed
  <2>8. t.asked \in Nat /\ t.dns_due \in Nat
    BY <2>4 DEF ClockRec
  <2>9. now =< t.dns_due /\ t.dns_due + DnsTimeout =< t.asked + Cardinality(Dns) * DnsTimeout
    BY <1>2, <2>2, <2>4 DEF OnClock
  <2> HIDE DEF t, new, cl, e
  <2>10. /\ u \in ClockRec /\ u.due = t.due /\ u.accepted = t.accepted
         /\ u.asked = t.asked /\ u.dns_due = now + DnsTimeout
    <3> DEFINE a == t.asked
               b == now + DnsTimeout
               q == QueryStarted(t, a, b)
    <3>1. u = q
      BY <2>3 DEF DnsStarted, QueryStarted
    <3>2. t \in ClockRec /\ a \in Nat /\ b \in Nat
      BY <2>4, <2>8, DnsWait
    <3> HIDE DEF u, a, b
    <3>3. /\ q \in ClockRec /\ q.due = t.due /\ q.accepted = t.accepted
          /\ q.asked = a /\ q.dns_due = b
      BY <3>2, TimesSet
    <3> QED
      BY <3>1, <3>3 DEF a, b
  <2> HIDE DEF u
  <2>11. u.dns_due + (IF new.dns["dns_1"] > 0 /\ "dns_2" \in Dns THEN DnsTimeout ELSE 0)
              =< u.asked + Cardinality(Dns) * DnsTimeout
    <3> DEFINE w == Cardinality(Dns) * DnsTimeout
    <3>1. w \in Nat
      BY <2>2, DnsWait
    <3> HIDE DEF w
    <3>2. now + DnsTimeout + 0 =< t.asked + w
      BY <2>4, <2>8, <2>9, <3>1, DnsWait DEF w
    <3> QED
      BY <2>2, <2>10, <3>2 DEF w
  <2>12. OnClock(new, u, now, e)
    BY <2>2, <2>4, <2>5, <2>6, <2>7, <2>10, <2>11, ClockStarted
  <2> QED
    BY <1>2, <1>4, <2>1, <2>10, <2>12, OneChanges DEF Used, new, e
<1> QED
  BY <1>3, <1>5, <1>6
-----------------------------------------------------------------------------
(* What a step makes of the times t at which a connection was accepted and *)
(* last read.                                                              *)
Seen(t, u) ==
    \/ u.accepted = t.accepted /\ u.read = t.read
    \/ u.accepted = t.accepted /\ u.read = now
    \/ u.accepted = now /\ u.read = now

(* The clock of one connection is set.                                     *)
LEMMA OneSeen ==
    ASSUME TimesOK, NEW c \in Clients, NEW u, Clock(c, u), Seen(clock[c], u)
    PROVE  \A d \in Clients : Seen(clock[d], clock'[d])
BY DEF TimesOK, Clock, Seen

LEMMA ReadSeen ==
    ASSUME TimesOK, NEW c \in Clients, NEW asked
    PROVE  /\ Seen(clock[c], Read(c)) /\ Seen(clock[c], clock[c])
           /\ Seen(clock[c], DnsStarted(Read(c), asked))
           /\ Seen(clock[c], DnsStarted(clock[c], asked))
<1>1. clock[c] \in ClockRec
  BY DEF TimesOK
<1>2. Read(c).accepted = clock[c].accepted /\ Read(c).read = now
  BY <1>1 DEF ClockRec, Read
<1>3. ASSUME NEW t, t = Read(c) \/ t = clock[c]
      PROVE  DnsStarted(t, asked).accepted = t.accepted /\ DnsStarted(t, asked).read = t.read
  BY <1>1, <1>3 DEF ClockRec, Read, DnsStarted
<1> QED
  BY <1>2, <1>3 DEF Seen

LEMMA StepSeen ==
    ASSUME TimesOK, [TimingNext]_timingVars
    PROVE  now =< now' /\ \A d \in Clients : Seen(clock[d], clock'[d])
<1>0. now \in Nat
  BY DEF TimesOK
<1>1. CASE UNCHANGED <<now, clock>>
  BY <1>0, <1>1 DEF Seen
<1>2. CASE Tick \/ Turn
  BY <1>0, <1>2 DEF Tick, Turn, Seen
<1>3. ASSUME NEW c \in Clients, Accept(c)
      PROVE  now =< now' /\ \A d \in Clients : Seen(clock[d], clock'[d])
  <2> DEFINE u == [clock[c] EXCEPT !.accepted = now, !.read = now, !.due = loop_time + TimeOut]
  <2>1. u.accepted = now /\ u.read = now
    BY DEF TimesOK, ClockRec
  <2>2. Clock(c, u) /\ now' = now
    BY <1>3 DEF Accept, Untimed
  <2> HIDE DEF u
  <2>3. Seen(clock[c], u)
    BY <2>1 DEF Seen
  <2> QED
    BY <1>0, <2>2, <2>3, OneSeen
<1>4. ASSUME NEW c \in Clients, Request(c) \/ Data(c)
      PROVE  now =< now' /\ \A d \in Clients : Seen(clock[d], clock'[d])
  <2>1. \/ Clock(c, Read(c))
        \/ Clock(c, DnsStarted(Read(c), now))
    BY <1>4 DEF Request, Data
  <2>2. now' = now
    BY <1>4 DEF Request, Data, Untimed
  <2> QED
    BY <1>0, <2>1, <2>2, ReadSeen, OneSeen
<1>5. ASSUME NEW c \in Clients, RequestBlocking(c)
      PROVE  now =< now' /\ \A d \in Clients : Seen(clock[d], clock'[d])
  <2>1. PICK stall \in 0 .. MaxStall : now' = now + stall
    BY <1>5 DEF RequestBlocking
  <2>2. now =< now'
    BY <1>0, <2>1, TimingAssumption
  <2>3. Clock(c, Read(c))
    BY <1>5 DEF RequestBlocking
  <2> QED
    BY <2>2, <2>3, ReadSeen, OneSeen
<1>6. ASSUME NEW c \in Clients, Answer(c) \/ on_dns_timeout(c)
      PROVE  now =< now' /\ \A d \in Clients : Seen(clock[d], clock'[d])
  <2>1. PICK status : Reply(c, status)
    BY <1>6 DEF Answer, on_dns_timeout
  <2>2. \/ Clock(c, clock[c])
        \/ Clock(c, DnsStarted(clock[c], clock[c].asked))
    BY <2>1 DEF Reply
  <2>3. now' = now
    BY <2>1 DEF Reply, Untimed
  <2> QED
    BY <1>0, <2>2, <2>3, ReadSeen, OneSeen
<1>7. ASSUME NEW c \in Clients, Other(c)
      PROVE  UNCHANGED <<now, clock>>
  BY <1>7 DEF Other, Untimed
<1> QED
  BY <1>1, <1>2, <1>3, <1>4, <1>5, <1>6, <1>7 DEF TimingNext, timingVars

LEMMA ReadStep ==
    ASSUME TimesOK, ReadOK, [TimingNext]_timingVars, now' \in Nat
    PROVE  ReadOK'
<1>1. now =< now' /\ \A d \in Clients : Seen(clock[d], clock'[d])
  BY StepSeen
<1>2. now \in Nat
  BY DEF TimesOK
<1>3. ASSUME NEW c \in Clients
      PROVE  clock'[c].accepted =< clock'[c].read /\ clock'[c].read =< now'
  <2> DEFINE a == clock[c].accepted
             r == clock[c].read
  <2>1. a \in Nat /\ r \in Nat
    BY DEF TimesOK, ClockRec
  <2>2. a =< r /\ r =< now
    BY DEF ReadOK
  <2>3. \/ clock'[c].accepted = a /\ clock'[c].read = r
        \/ clock'[c].accepted = a /\ clock'[c].read = now
        \/ clock'[c].accepted = now /\ clock'[c].read = now
    BY <1>1 DEF Seen
  <2> HIDE DEF a, r
  <2>4. a =< now /\ now =< now /\ r =< now'
    BY <1>1, <1>2, <2>1, <2>2
  <2> QED
    BY <1>1, <2>2, <2>3, <2>4
<1> QED
  BY <1>3 DEF ReadOK

LEMMA TimeInit ==
    ASSUME TimingInit
    PROVE  TimeInv
<1>1. Init /\ now = 0 /\ loop_time = 0
  BY DEF TimingInit
<1>2. ExactInv /\ CoverInv
  BY <1>1, ExactInit, CoverInit
<1>3. clock \in [Clients -> ClockRec]
  BY DEF TimingInit, ClockRec
<1>4. ASSUME NEW c \in Clients
      PROVE  /\ client[c].mem = "unused" /\ ~(client[c].host = TRUE)
             /\ ~(client[c].armed = TRUE) /\ InFlight(client[c]) = 0
  BY <1>1 DEF Init, Unused, InFlight, DnsServers
<1>5. Hosted = {}
  BY <1>4 DEF Hosted
<1>6. Delay = 0
  BY <1>5, FS_EmptySet, TimingAssumption DEF Delay, DelayBy
<1>7. ASSUME NEW c \in Clients
      PROVE  OnClock(client[c], clock[c], now, Delay)
  <2>1. ~(client[c].mem = "live") /\ ~(client[c].armed = TRUE)
    BY <1>4
  <2>2. ~(InFlight(client[c]) > 0)
    <3>1. InFlight(client[c]) = 0
      BY <1>4
    <3> QED
      BY <3>1
  <2> QED
    BY <2>1, <2>2, Zenon DEF OnClock
<1>8. ReadOK
  <2>1. \A c \in Clients : clock[c].accepted = 0 /\ clock[c].read = 0
    BY DEF TimingInit
  <2> QED
    BY <1>1, <2>1 DEF ReadOK
<1> QED
  BY <1>1, <1>2, <1>3, <1>6, <1>7, <1>8 DEF TimeInv, TimesOK

LEMMA TimesStep ==
    ASSUME NoKnownFault, IsFiniteSet(Clients), TimeInv, [TimingNext]_timingVars
    PROVE  TimesOK'
<1>1. ExactInv /\ CoverInv /\ TimesOK
  BY DEF TimeInv
<1>2. [Next]_vars
  BY TimingIsProxy
<1>3. ExactInv' /\ CoverInv'
  BY <1>1, <1>2, ExactStep, StepCovers
<1>4. CASE UNCHANGED timingVars
  <2>1. client' = client /\ now' = now /\ loop_time' = loop_time /\ clock' = clock /\ Delay' = Delay
    BY <1>4, DelaySame DEF timingVars, vars
  <2> QED
    BY <1>1, <2>1 DEF TimesOK, OnClock
<1>5. CASE Tick
  BY <1>1, <1>3, <1>5, TickKeeps
<1>6. CASE Turn
  BY <1>1, <1>3, <1>6, TurnKeeps
<1>7. ASSUME NEW c \in Clients, Accept(c)
      PROVE  TimesOK'
  BY <1>1, <1>3, <1>7, AcceptKeeps
<1>8. ASSUME NEW c \in Clients, Request(c)
      PROVE  TimesOK'
  BY <1>1, <1>3, <1>8, RequestKeeps
<1>9. ASSUME NEW c \in Clients, RequestBlocking(c)
      PROVE  TimesOK'
  BY <1>1, <1>3, <1>9, BlockingKeeps
<1>10. ASSUME NEW c \in Clients, Data(c)
       PROVE  TimesOK'
  BY <1>1, <1>3, <1>10, DataKeeps
<1>11. ASSUME NEW c \in Clients, Answer(c) \/ on_dns_timeout(c)
       PROVE  TimesOK'
  <2>1. PICK status : Reply(c, status)
    BY <1>11 DEF Answer, on_dns_timeout
  <2> QED
    BY <1>1, <1>3, <2>1, ReplyKeeps
<1>12. ASSUME NEW c \in Clients, Other(c)
       PROVE  TimesOK'
  BY <1>1, <1>3, <1>12, OtherKeeps
<1> QED
  BY <1>4, <1>5, <1>6, <1>7, <1>8, <1>9, <1>10, <1>11, <1>12 DEF TimingNext

LEMMA TimeStep ==
    ASSUME NoKnownFault, IsFiniteSet(Clients), TimeInv, [TimingNext]_timingVars
    PROVE  TimeInv'
<1>1. ExactInv' /\ CoverInv'
  BY TimingIsProxy, ExactStep, StepCovers DEF TimeInv
<1>2. TimesOK'
  BY TimesStep
<1>3. ReadOK'
  <2>1. now' \in Nat
    BY <1>2 DEF TimesOK
  <2> QED
    BY <2>1, ReadStep DEF TimeInv
<1> QED
  BY <1>1, <1>2, <1>3 DEF TimeInv

(* A client that is up loses its timer to on_timeout and to nothing else.  *)
LEMMA ExpiresDue ==
    ASSUME NoKnownFault, IsFiniteSet(Clients), TimeInv, [TimingNext]_timingVars,
           NEW c \in Clients, Expires(c)
    PROVE  client[c].mem = "live" /\ clock[c].due =< loop_time
<1> DEFINE Stopped == client[c].armed /\ ~client'[c].armed
<1>1. ExactInv /\ Stopped /\ Serving(client[c], "proxyClient")
  BY DEF TimeInv, Expires
<1>2. ASSUME NEW d \in Clients, Used(d), client'[d].armed = client[d].armed
      PROVE  FALSE
  BY <1>1, <1>2 DEF Used
<1>3. ASSUME UNCHANGED client
      PROVE  FALSE
  BY <1>1, <1>3
<1>4. ~(Tick \/ Turn) /\ ~(UNCHANGED timingVars)
  BY <1>3 DEF Tick, Turn, timingVars, vars
<1>5. ASSUME NEW d \in Clients, Accept(d)
      PROVE  FALSE
  <2>1. client[d] = Unused /\ \A e \in Clients \ {d} : client'[e] = client[e]
    BY <1>1, <1>5, AcceptUses DEF Accept
  <2>2. Unused.armed = FALSE
    BY DEF Unused
  <2> QED
    BY <1>1, <2>1, <2>2
<1>6. ASSUME NEW d \in Clients, Request(d) \/ RequestBlocking(d)
      PROVE  FALSE
  <2>1. Used(d) /\ client'[d].armed = client[d].armed
    BY <1>1, <1>6, AddressUses, NameUses DEF Request, RequestBlocking
  <2> QED
    BY <1>2, <2>1
<1>7. ASSUME NEW d \in Clients, Data(d)
      PROVE  FALSE
  BY <1>3, <1>7 DEF Data, vars
<1>8. ASSUME NEW d \in Clients, Answer(d) \/ on_dns_timeout(d)
      PROVE  FALSE
  <2>1. PICK status : Reply(d, status)
    BY <1>8 DEF Answer, on_dns_timeout
  <2>2. PICK s \in DnsServers, queryOk \in Outcomes("query") : DnsReply(d, s, status, queryOk)
    BY <2>1 DEF Reply
  <2>3. Used(d) /\ client'[d].armed = client[d].armed
    BY <1>1, <2>2, ReplyUses
  <2> QED
    BY <1>2, <2>3
<1>9. PICK d \in Clients : Other(d)
  BY <1>4, <1>5, <1>6, <1>7, <1>8 DEF TimingNext
<1>10. CASE \/ read_data_end(d) \/ read_data_rejected(d)
            \/ on_connect_porxy(d) \/ read_data_porxy_end(d)
  BY <1>1, <1>2, <1>10, QuietUses
<1>11. ASSUME NEW h \in Handles, Closed(d, h)
       PROVE  FALSE
  <2>1. Used(d) /\ (Serving(client[d], "proxyClient") => client'[d].armed = client[d].armed)
    BY <1>1, <1>11, ClosedUses
  <2>2. d = c
    BY <1>1, <2>1 DEF Used
  <2> QED
    BY <1>1, <1>2, <2>1, <2>2
<1>12. CASE TimerDue(d) /\ on_timeout(d)
  <2>1. Used(d)
    BY <1>1, <1>12, TimeoutUses
  <2>2. d = c
    BY <1>1, <2>1 DEF Used
  <2> QED
    BY <1>12, <2>1, <2>2 DEF Used, TimerDue
<1> QED
  BY <1>9, <1>10, <1>11, <1>12 DEF Other

-----------------------------------------------------------------------------
(* The clock adds nothing to what the connections do: whatever is proved   *)
(* of Proxy holds of every behaviour with times.                           *)
THEOREM TimingImplementsProxy == TimingSpec => Spec
<1>1. TimingInit => Init
  BY DEF TimingInit
<1>2. [TimingNext]_timingVars => [Next]_vars
  BY TimingIsProxy
<1> QED
  BY <1>1, <1>2, PTL DEF TimingSpec, Spec

(* The times of every connection are those TimeInv describes.              *)
THEOREM TimesInvariance ==
    ASSUME NoKnownFault, IsFiniteSet(Clients)
    PROVE  TimingSpec => []TimeInv
<1>1. TimingInit => TimeInv
  BY TimeInit
<1>2. TimeInv /\ [TimingNext]_timingVars => TimeInv'
  BY TimeStep
<1> QED
  BY <1>1, <1>2, PTL DEF TimingSpec

(* on_dns is called, with an address or without one, before both servers   *)
(* have had their dns_timeout (send_dns_query and on_dns_timeout).         *)
THEOREM DnsWaitAlwaysBounded ==
    ASSUME NoKnownFault, IsFiniteSet(Clients)
    PROVE  TimingSpec => []DnsWaitBounded
<1>1. ASSUME TimeInv, NEW c \in Clients, InFlight(client[c]) > 0
      PROVE  now =< clock[c].asked + Cardinality(Dns) * DnsTimeout
  <2>1. OnClock(client[c], clock[c], now, Delay) /\ now \in Nat /\ clock[c] \in ClockRec
    BY <1>1 DEF TimeInv, TimesOK
  <2>2. clock[c].asked \in Nat /\ clock[c].dns_due \in Nat
    BY <2>1 DEF ClockRec
  <2> DEFINE w == Cardinality(Dns) * DnsTimeout
  <2>3. /\ Dns # {} /\ now =< clock[c].dns_due
        /\ \/ clock[c].dns_due + DnsTimeout =< clock[c].asked + w
           \/ clock[c].dns_due + 0 =< clock[c].asked + w
    BY <1>1, <2>1 DEF OnClock
  <2>4. w \in Nat
    BY <2>3, DnsWait
  <2> HIDE DEF w
  <2>5. now =< clock[c].asked + w
    BY <2>1, <2>2, <2>3, <2>4, DnsWait
  <2> QED
    BY <2>5 DEF w
<1>2. TimeInv => DnsWaitBounded
  BY <1>1 DEF DnsWaitBounded
<1> QED
  BY <1>2, TimesInvariance, PTL

(* The memory of a connection is given back in time once both peers have   *)
(* fallen silent (on_timeout and the close callbacks it leads to).         *)
THEOREM SilentAlwaysFreed ==
    ASSUME NoKnownFault, IsFiniteSet(Clients), TimeOut # 0
    PROVE  TimingSpec => []SilentIsFreed
<1>1. ASSUME TimeInv, NEW c \in Clients, client[c].mem = "live"
      PROVE  now =< clock[c].read + TimeOut + TotalStall + (IF Dns = {} THEN 0 ELSE DnsTimeout)
  <2> DEFINE t == clock[c]
             d == Delay
  <2>1. OnClock(client[c], t, now, d) /\ now \in Nat /\ t \in ClockRec
    BY <1>1 DEF TimeInv, TimesOK
  <2>2. t.due \in Nat /\ t.accepted \in Nat /\ t.read \in Nat /\ t.accepted =< t.read
    BY <1>1, <2>1 DEF ClockRec, TimeInv, ReadOK
  <2>3. d \in Nat /\ TotalStall \in Nat /\ d =< TotalStall
    BY DelayWithin
  <2> HIDE DEF t, d
  <2>4. t.due =< t.accepted + TimeOut /\ now =< t.due + d + Grace
    BY <1>1, <2>1 DEF OnClock
  <2>5. now =< t.read + TimeOut + TotalStall + Grace
    BY <2>1, <2>2, <2>3, <2>4, DnsWait
  <2> QED
    BY <2>5 DEF t, Grace
<1>2. TimeInv => SilentIsFreed
  BY <1>1 DEF SilentIsFreed
<1> QED
  BY <1>2, TimesInvariance, PTL

(* No connection that is up is closed by on_timeout before it has had the  *)
(* time it was given, less what the others held the loop up.               *)
THEOREM NeverCutShort ==
    ASSUME NoKnownFault, IsFiniteSet(Clients)
    PROVE  TimingSpec => NotCutShort
<1>1. ASSUME TimeInv, [TimingNext]_timingVars, NEW c \in Clients, Expires(c)
      PROVE  now + TotalStall - MaxStall >= clock[c].accepted + TimeOut
  <2> DEFINE t == clock[c]
  <2>1. client[c].mem = "live" /\ t.due =< loop_time
    BY <1>1, ExpiresDue
  <2>2. /\ now \in Nat /\ loop_time \in Nat /\ loop_time =< now /\ t \in ClockRec
        /\ OnClock(client[c], t, now, Delay)
    BY <1>1 DEF TimeInv, TimesOK
  <2>3. t.due \in Nat /\ t.accepted \in Nat
    BY <2>2 DEF ClockRec
  <2>4. TotalStall \in Nat /\ MaxStall \in Nat
    BY DelayWithin, TimingAssumption
  <2> HIDE DEF t
  <2>5. t.accepted + TimeOut + MaxStall =< t.due + TotalStall
    BY <2>1, <2>2 DEF OnClock
  <2>6. now + TotalStall - MaxStall >= t.accepted + TimeOut
    BY <2>1, <2>2, <2>3, <2>4, <2>5, DnsWait
  <2> QED
    BY <2>6 DEF t
<1>2. TimeInv /\ [TimingNext]_timingVars
        => [\A c \in Clients :
               Expires(c) => now + TotalStall - MaxStall >= clock[c].accepted + TimeOut]_timingVars
  BY <1>1
<1> QED
  BY <1>2, TimesInvariance, PTL DEF TimingSpec, NotCutShort
=============================================================================
