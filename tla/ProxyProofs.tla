---------------------------- MODULE ProxyProofs ----------------------------
(***************************************************************************)
(* The theorems of module Proxy, in three parts.                           *)
(*                                                                         *)
(* Safety: whatever the calls that fail and whatever the clients send      *)
(* (Mishaps is arbitrary), every field keeps its type, and no Client is    *)
(* freed while a callback for it is outstanding, nor a handle closed       *)
(* twice.                                                                  *)
(*                                                                         *)
(* The timer: it lives as long as a socket, it is still to fire while one  *)
(* is up, and no target is connected for a client that is gone; again      *)
(* whatever fails.                                                         *)
(*                                                                         *)
(* The exact count: when no accept and no connect fails at once and every  *)
(* client waits for the answer to its first request (NoKnownFault), a      *)
(* Client is freed by the callback that takes its last user away and by no *)
(* other, no handler leaves libuv's contract, and the two sides close      *)
(* together.  The instances left out are those whose runs show what goes   *)
(* wrong.                                                                  *)
(***************************************************************************)
EXTENDS ProxyProperties, TLAPS, FiniteSetTheorems

Typed(cl) == cl \in ClientRec /\ \A s \in DnsServers : cl.dns[s] >= 0

(* A struct between two calls of a handler that holds k references of its  *)
(* own: they come on top of those of the handles and requests.             *)
Live(cl, k) ==
    /\ cl.mem = "live"
    /\ cl.ref_count >= Uses(cl) + k
    /\ \A h \in cl.data : cl.handle[h] \in {"open", "closing"}
    /\ cl.handle["proxyClient"] = "open" => "proxyClient" \in cl.data
    /\ cl.handle["targetClient"] = "closing" => "targetClient" \in cl.data
    /\ cl.connecting => "targetClient" \in cl.data
    /\ cl.handle["timeout_timer"] = "closing" => Sockets \cap cl.data = {}

(* The same for a struct whose handler may have met one of the faults the  *)
(* program is not safe from.                                               *)
Held(cl, k) ==
    /\ Typed(cl)
    /\ cl.mem # "unused"
    /\ cl.fault \notin {"use_after_free", "double_close"}
    /\ cl.fault = "none" => Live(cl, k)

(* A struct between two callbacks. *)
Sound(cl) ==
    /\ Typed(cl)
    /\ cl.mem = "unused" => cl = Unused
    /\ cl.fault \notin {"use_after_free", "double_close"}
    /\ cl.mem = "live" /\ cl.fault = "none" => Live(cl, 0)

IInv ==
    /\ client \in [Clients -> ClientRec]
    /\ client_count \in Int
    /\ \A c \in Clients : Sound(client[c])

-----------------------------------------------------------------------------
(* The number of users is a number, and it is zero only if there is none.  *)
LEMMA UsesNat ==
    ASSUME NEW cl, Typed(cl)
    PROVE  /\ InFlight(cl) \in Nat
           /\ Uses(cl) \in Nat
           /\ Uses(cl) = 0 => /\ cl.handle["proxyClient"] \notin {"open", "closing"}
                              /\ "targetClient" \notin cl.data
                              /\ cl.handle["timeout_timer"] \notin {"open", "closing"}
                              /\ InFlight(cl) = 0
<1>1. InFlight(cl) \in Nat
  BY DEF Typed, ClientRec, InFlight, DnsServers
<1> QED
  BY <1>1 DEF Uses, One

(* Every callback still to come is counted.                                *)
LEMMA AwaitedIsCounted ==
    ASSUME NEW cl, NEW k \in Nat, Typed(cl), Live(cl, k), Uses(cl) = 0
    PROVE  ~Awaited(cl)
BY UsesNat DEF Awaited, Live, Typed, ClientRec, Handles, Sockets

LEMMA HeldIsSound ==
    ASSUME NEW cl, Held(cl, 0)
    PROVE  Sound(cl)
BY DEF Held, Sound

(* The operators of Global.c, one by one.                                  *)
LEMMA RefKeeps ==
    ASSUME NEW cl, NEW k \in Nat, Held(cl, k)
    PROVE  Held(ref_client(cl), k + 1)
BY DEF Held, Typed, Live, ref_client, Uses, One, InFlight, ClientRec, Handles,
       Sockets, HandleStatus, DnsServers, FaultKinds

LEMMA CloseKeeps ==
    ASSUME NEW cl, NEW k \in Nat, NEW h \in Handles, Held(cl, k),
           cl.fault = "none" => cl.handle[h] = "open" /\ h \in cl.data,
           cl.fault = "none" /\ h = "timeout_timer" => Sockets \cap cl.data = {}
    PROVE  Held(uv_close(cl, h), k)
BY DEF Held, Typed, Live, uv_close, Fail, Uses, One, InFlight, ClientRec, Handles,
       Sockets, HandleStatus, DnsServers, FaultKinds

LEMMA CloseIfUpKeeps ==
    ASSUME NEW cl, NEW k \in Nat, NEW h \in Sockets, Held(cl, k)
    PROVE  Held(CloseIfUp(cl, h), k)
<1>1. CASE ~IsUp(cl, h)
  BY <1>1 DEF CloseIfUp
<1>2. CASE IsUp(cl, h)
  <2>1. cl.fault = "none" => cl.handle[h] = "open" /\ h \in cl.data
    BY <1>2 DEF IsUp, uv_is_closing, Held, Live
  <2> QED
    BY <1>2, <2>1, CloseKeeps DEF CloseIfUp, Handles, Sockets
<1> QED
  BY <1>1, <1>2

LEMMA UnrefKeeps ==
    ASSUME NEW cl, Held(cl, 1)
    PROVE  /\ Sound(unref_client(cl))
           /\ Uses(cl) > 0 => Held(unref_client(cl), 0)
<1> DEFINE dropped == [cl EXCEPT !.ref_count = @ - 1]
           freed   == [dropped EXCEPT !.mem = "freed"]
<1>1. Typed(cl) /\ Typed(dropped)
  BY DEF Held, Typed, ClientRec
<1>2. Typed(freed)
  BY <1>1 DEF Typed, ClientRec
<1>3. /\ dropped.fault = cl.fault /\ freed.fault = cl.fault
      /\ dropped.mem = cl.mem /\ freed.mem = "freed"
      /\ Uses(dropped) = Uses(cl)
  BY <1>1 DEF Typed, ClientRec, Uses, InFlight
<1>4. Uses(cl) \in Nat /\ cl.ref_count \in Int
  BY <1>1, UsesNat DEF Typed, ClientRec
<1>5. CASE cl.fault # "none"
  <2>1. unref_client(cl) \in {cl, dropped, freed}
    BY <1>3, <1>5 DEF unref_client, Fail
  <2> QED
    BY <1>1, <1>2, <1>3, <1>5, <2>1 DEF Sound, Held
<1>6. CASE cl.fault = "none" /\ cl.ref_count # 1
  <2>1. unref_client(cl) = dropped
    BY <1>4, <1>6 DEF Held, Live, Typed, unref_client, ClientRec
  <2>2. dropped.ref_count = cl.ref_count - 1 /\ cl.ref_count >= Uses(cl) + 1
    BY <1>1, <1>6 DEF Held, Live, Typed, ClientRec
  <2>3. Live(dropped, 0)
    BY <1>1, <1>3, <1>4, <1>6, <2>2 DEF Held, Live, Typed, ClientRec
  <2> QED
    BY <1>1, <1>3, <1>6, <2>1, <2>3 DEF Held, Sound
<1>7. CASE cl.fault = "none" /\ cl.ref_count = 1
  <2>1. Uses(cl) = 0 /\ Live(cl, 1)
    BY <1>4, <1>7 DEF Held, Live
  <2>2. FreeFault(cl) \in {"stale_handle", "none"}
    BY <1>1, <2>1, AwaitedIsCounted DEF FreeFault
  <2>3. unref_client(cl) = [freed EXCEPT !.fault = FreeFault(cl)]
    BY <1>1, <1>3, <1>7, <2>1 DEF unref_client, Fail, Live, Typed, ClientRec
  <2>4. Typed(unref_client(cl))
    BY <1>2, <2>2, <2>3 DEF Typed, ClientRec, FaultKinds
  <2> QED
    BY <1>2, <1>3, <1>4, <2>1, <2>2, <2>3, <2>4 DEF Sound, Typed, ClientRec
<1> QED
  BY <1>5, <1>6, <1>7

(* The callback of a close: the handle that is closed gives its reference  *)
(* back, and the timer is closed with the last socket.                     *)
LEMMA CloseCbKeeps ==
    ASSUME NEW cl, NEW h \in Handles, Held(cl, 0), cl.fault = "none",
           cl.handle[h] = "closing",
           h = "targetClient" => ~cl.connecting
    PROVE  Sound(close_cb(cl, h))
<1> DEFINE closed  == [cl EXCEPT !.handle[h] = "closed", !.data = @ \ {h}]
           stopped == [closed EXCEPT !.armed = FALSE]
           noTimer == IF SocketsGone(closed) THEN uv_close(stopped, "timeout_timer") ELSE closed
<1>1. CASE h \notin cl.data
  <2>1. close_cb(cl, h) = [cl EXCEPT !.fault = "null_data"]
    BY <1>1 DEF close_cb, Fail
  <2> QED
    BY <2>1 DEF Held, Sound, Typed, ClientRec, FaultKinds
<1>2. CASE h \in cl.data
  <2>1. close_cb(cl, h) = unref_client(noTimer)
    BY <1>2 DEF close_cb
  <2>2. Typed(closed) /\ Typed(stopped) /\ Typed(cl)
    BY DEF Held, Typed, ClientRec, Handles, Sockets, HandleStatus
  <2>3. /\ closed.fault = "none" /\ closed.mem = cl.mem /\ closed.ref_count = cl.ref_count
        /\ closed.connecting = cl.connecting /\ closed.data = cl.data \ {h}
        /\ closed.handle = [cl.handle EXCEPT ![h] = "closed"]
        /\ closed.dns = cl.dns
    BY DEF Held, Typed, ClientRec
  <2>4. Uses(cl) = Uses(closed) + 1 /\ Uses(closed) \in Nat
    <3>1. InFlight(closed) = InFlight(cl) /\ InFlight(cl) \in Nat /\ Uses(closed) \in Nat
      BY <2>2, <2>3, UsesNat DEF InFlight
    <3> QED
      BY <1>2, <2>2, <2>3, <3>1 DEF Uses, One, Typed, ClientRec, Handles, Sockets
  <2>5. Live(cl, 0)
    BY DEF Held
  <2>6. Live(closed, 1)
    BY <1>2, <2>2, <2>3, <2>4, <2>5 DEF Live, Typed, ClientRec, Handles, Sockets
  <2>7. Held(closed, 1) /\ Held(stopped, 1)
    <3>1. Held(closed, 1)
      BY <2>2, <2>3, <2>5, <2>6 DEF Held, Live
    <3> QED
      BY <3>1, <2>2 DEF Held, Live, Typed, ClientRec, Uses, InFlight
  <2>8. SocketsGone(closed) =>
            /\ stopped.handle["timeout_timer"] = "open"
            /\ "timeout_timer" \in stopped.data
            /\ Sockets \cap stopped.data = {}
    BY <1>2, <2>2, <2>3, <2>5 DEF SocketsGone, Live, Typed, ClientRec, Handles, Sockets
  <2>9. Held(noTimer, 1)
    BY <2>7, <2>8, CloseKeeps DEF Handles
  <2> QED
    BY <2>1, <2>9, UnrefKeeps
<1> QED
  BY <1>1, <1>2

-----------------------------------------------------------------------------
(* ConnectTargetServer passes one reference of its caller to the target.   *)
LEMMA ConnectKeeps ==
    ASSUME NEW cl, NEW k \in Nat, NEW started \in BOOLEAN, Held(cl, k + 1),
           cl.fault = "none" => cl.handle["proxyClient"] = "open"
    PROVE  /\ Held(ConnectTargetServer(cl, started), k)
           /\ ~started => Held(ConnectTargetServer(cl, started), k + 1)
           /\ ConnectTargetServer(cl, started).fault = "none" =>
                 /\ cl.fault = "none"
                 /\ ConnectTargetServer(cl, started).handle["proxyClient"] = "open"
                 /\ "proxyClient" \in ConnectTargetServer(cl, started).data
<1> DEFINE inited == uv_init(cl, "targetClient")
           up     == [inited EXCEPT !.data = @ \cup {"targetClient"}, !.connecting = TRUE]
<1>1. ConnectTargetServer(cl, started) = IF started THEN up ELSE inited
  BY DEF ConnectTargetServer
<1>2. Typed(cl) /\ Typed(inited)
  BY DEF Held, Typed, uv_init, Fail, ClientRec, Handles, Sockets, HandleStatus, FaultKinds
<1>3. Typed(up) /\ up.fault = inited.fault /\ up.mem = inited.mem
  BY <1>2 DEF Typed, ClientRec, Handles, Sockets
<1>4. CASE cl.fault # "none" \/ cl.handle["targetClient"] \notin {"none", "closed"}
  <2>1. inited.fault # "none" /\ inited.fault \notin {"use_after_free", "double_close"} /\ inited.mem = cl.mem
    BY <1>2, <1>4 DEF Held, Typed, uv_init, Fail, ClientRec, FaultKinds
  <2> QED
    BY <1>1, <1>2, <1>3, <2>1 DEF Held
<1>5. CASE cl.fault = "none" /\ cl.handle["targetClient"] \in {"none", "closed"}
  <2>1. inited = [cl EXCEPT !.handle["targetClient"] = "open"]
    BY <1>5 DEF uv_init
  <2>2. Uses(inited) = Uses(cl) /\ Uses(up) =< Uses(cl) + 1 /\ Uses(cl) \in Nat /\ Uses(up) \in Nat
    <3>1. inited.dns = cl.dns /\ up.dns = cl.dns /\ InFlight(cl) \in Nat
      BY <1>2, <1>3, <2>1, UsesNat DEF Typed, ClientRec
    <3>2. InFlight(inited) = InFlight(cl) /\ InFlight(up) = InFlight(cl)
      BY <3>1 DEF InFlight
    <3>3. \A h \in {"proxyClient", "timeout_timer"} :
             inited.handle[h] = cl.handle[h] /\ up.handle[h] = cl.handle[h]
      BY <1>2, <1>3, <2>1 DEF Typed, ClientRec, Handles, Sockets
    <3>4. inited.data = cl.data
      BY <1>2, <2>1 DEF Typed, ClientRec
    <3> QED
      BY <3>1, <3>2, <3>3, <3>4 DEF Uses, One
  <2>3. Live(cl, k + 1)
    BY <1>5 DEF Held
  <2>4. Live(inited, k) /\ Live(inited, k + 1)
    BY <1>2, <1>5, <2>1, <2>2, <2>3 DEF Live, Typed, ClientRec, Handles, Sockets
  <2>5. Live(up, k)
    BY <1>2, <1>3, <1>5, <2>1, <2>2, <2>3 DEF Live, Typed, ClientRec, Handles, Sockets, Held
  <2>6. inited.fault = "none"
    BY <1>2, <1>5, <2>1 DEF Typed, ClientRec
  <2>7. /\ Held(IF started THEN up ELSE inited, k)
        /\ ~started => Held(inited, k + 1)
    BY <1>2, <1>3, <2>4, <2>5, <2>6 DEF Held, Live
  <2>8. /\ inited.handle["proxyClient"] = "open" /\ "proxyClient" \in inited.data
        /\ up.handle["proxyClient"] = "open" /\ "proxyClient" \in up.data
    <3>1. cl.handle["proxyClient"] = "open" /\ "proxyClient" \in cl.data
      BY <1>5, <2>3 DEF Live
    <3> QED
      BY <1>2, <1>3, <2>1, <3>1 DEF Typed, ClientRec, Handles, Sockets
  <2> QED
    BY <1>1, <1>5, <2>7, <2>8
<1> QED
  BY <1>4, <1>5

(* Closing the client's side leaves it a user until the close is done.     *)
LEMMA GiveUpKeeps ==
    ASSUME NEW cl, Held(cl, 1),
           cl.fault = "none" => cl.handle["proxyClient"] = "open"
    PROVE  Sound(GiveUp(cl))
<1>1. cl.fault = "none" => "proxyClient" \in cl.data
  BY DEF Held, Live
<1>2. Held(uv_close(cl, "proxyClient"), 1)
  BY <1>1, CloseKeeps DEF Handles, Sockets
<1> QED
  BY <1>2, UnrefKeeps DEF GiveUp

(* The callback of a DNS request: the reference of the request is its own. *)
LEMMA OnDnsKeeps ==
    ASSUME NEW cl, NEW server, NEW status, NEW connectOk \in BOOLEAN, NEW queryOk,
           Held(cl, 1), cl.fault = "none"
    PROVE  Sound(on_dns(cl, server, status, connectOk, queryOk))
<1> DEFINE connected == ConnectTargetServer(ref_client(cl), connectOk)
           retry     == server = "dns_1" /\ "dns_2" \in Dns /\ queryOk
<1>1. CASE ~IsUp(cl, "proxyClient")
  BY <1>1, UnrefKeeps DEF on_dns
<1>2. CASE IsUp(cl, "proxyClient")
  <2>1. cl.handle["proxyClient"] = "open"
    BY <1>2 DEF IsUp, uv_is_closing, Held, Live
  <2>2. CASE status = 1
    <3>1. Held(ref_client(cl), 1 + 1)
      BY RefKeeps
    <3>2. ref_client(cl).handle = cl.handle
      BY DEF ref_client, Held, Typed, ClientRec
    <3>3. /\ Held(connected, 1)
          /\ connected.fault = "none" => connected.handle["proxyClient"] = "open"
      BY <2>1, <3>1, <3>2, ConnectKeeps
    <3>4. CASE connectOk
      <4>1. Held([connected EXCEPT !.state = 1], 1)
        BY <3>3 DEF Held, Live, Typed, ClientRec, Uses, InFlight
      <4> QED
        BY <1>2, <2>2, <3>4, <4>1, UnrefKeeps DEF on_dns
    <3>5. CASE ~connectOk
      BY <1>2, <2>2, <3>3, <3>5, GiveUpKeeps DEF on_dns
    <3> QED
      BY <3>4, <3>5
  <2>3. CASE status # 1 /\ retry
    <3> DEFINE asked == send_dns_query(cl, "dns_2")
    <3>1. Typed(asked) /\ Typed(cl) /\ InFlight(asked) = InFlight(cl) + 1
      BY DEF send_dns_query, Held, Typed, ClientRec, InFlight, DnsServers
    <3>2. /\ asked.handle = cl.handle /\ asked.data = cl.data /\ asked.mem = cl.mem
          /\ asked.ref_count = cl.ref_count /\ asked.connecting = cl.connecting
          /\ asked.fault = cl.fault
      BY <3>1 DEF send_dns_query, Typed, ClientRec
    <3>3. Uses(asked) = Uses(cl) + 1 /\ Uses(cl) \in Nat
      BY <3>1, <3>2, UsesNat DEF Uses, One
    <3>4. Held(asked, 0)
      BY <3>1, <3>2, <3>3 DEF Held, Live, Typed, ClientRec
    <3> QED
      BY <1>2, <2>3, <3>4, HeldIsSound DEF on_dns
  <2>4. CASE status # 1 /\ ~retry
    BY <1>2, <2>1, <2>4, GiveUpKeeps DEF on_dns
  <2> QED
    BY <2>2, <2>3, <2>4
<1> QED
  BY <1>1, <1>2

-----------------------------------------------------------------------------
(* A struct as on_new_connection hands it to uv_accept.                    *)
NewClient == ref_client(uv_init(Create_client, "proxyClient"))

LEMMA NewClientFields ==
    /\ Typed(NewClient)
    /\ NewClient.mem = "live" /\ NewClient.fault = "none" /\ NewClient.ref_count = 1
    /\ NewClient.data = {} /\ NewClient.connecting = FALSE /\ NewClient.host = FALSE
    /\ NewClient.handle = [h \in Handles |-> IF h = "proxyClient" THEN "open" ELSE "none"]
    /\ NewClient.dns = [s \in DnsServers |-> 0]
<1> DEFINE opened == [Create_client EXCEPT !.handle["proxyClient"] = "open"]
<1>1. Typed(Unused)
  BY DEF Unused, Typed, ClientRec, Handles, Sockets, HandleStatus, DnsServers, FaultKinds
<1>2. Typed(Create_client)
  BY <1>1 DEF Create_client, Typed, ClientRec
<1>3. /\ Create_client.mem = "live" /\ Create_client.fault = "none"
      /\ Create_client.ref_count = 0 /\ Create_client.data = {} /\ Create_client.connecting = FALSE
      /\ Create_client.host = FALSE
      /\ Create_client.handle = [h \in Handles |-> "none"]
      /\ Create_client.dns = [s \in DnsServers |-> 0]
  BY DEF Create_client, Unused
<1>4. Typed(opened)
  BY <1>2 DEF Typed, ClientRec, Handles, Sockets, HandleStatus
<1>5. NewClient = [opened EXCEPT !.ref_count = @ + 1]
  BY <1>3 DEF NewClient, ref_client, uv_init, Handles, Sockets
<1>6. Typed(NewClient)
  <2> HIDE DEF opened
  <2> QED
    BY <1>4, <1>5 DEF Typed, ClientRec
<1>7. /\ NewClient.mem = "live" /\ NewClient.fault = "none" /\ NewClient.ref_count = 1
      /\ NewClient.data = {} /\ NewClient.connecting = FALSE
      /\ NewClient.host = FALSE
      /\ NewClient.handle = [Create_client.handle EXCEPT !["proxyClient"] = "open"]
      /\ NewClient.dns = Create_client.dns
  BY <1>2, <1>3, <1>4, <1>5 DEF Typed, ClientRec
<1>8. NewClient.handle = [h \in Handles |-> IF h = "proxyClient" THEN "open" ELSE "none"]
  BY <1>3, <1>7 DEF Handles, Sockets
<1> QED
  BY <1>3, <1>6, <1>7, <1>8

(* The same once it is accepted, without and with the timer.               *)
AcceptedClient == [NewClient EXCEPT !.data = {"proxyClient"}]

TimedClient ==
    ref_client([uv_init(AcceptedClient, "timeout_timer") EXCEPT
                    !.data = @ \cup {"timeout_timer"},
                    !.armed = TRUE])

LEMMA AcceptedFields ==
    /\ Typed(AcceptedClient)
    /\ AcceptedClient.mem = "live" /\ AcceptedClient.fault = "none"
    /\ AcceptedClient.ref_count = 1 /\ AcceptedClient.data = {"proxyClient"}
    /\ AcceptedClient.connecting = FALSE /\ AcceptedClient.host = FALSE
    /\ AcceptedClient.handle = [h \in Handles |-> IF h = "proxyClient" THEN "open" ELSE "none"]
    /\ AcceptedClient.dns = [s \in DnsServers |-> 0]
    /\ Uses(AcceptedClient) = 1
<1>1. Typed(AcceptedClient)
  BY NewClientFields DEF AcceptedClient, Typed, ClientRec, Handles, Sockets
<1>2. /\ AcceptedClient.mem = "live" /\ AcceptedClient.fault = "none"
      /\ AcceptedClient.ref_count = 1 /\ AcceptedClient.data = {"proxyClient"}
      /\ AcceptedClient.connecting = FALSE /\ AcceptedClient.host = FALSE
      /\ AcceptedClient.handle = NewClient.handle /\ AcceptedClient.dns = NewClient.dns
  BY NewClientFields DEF AcceptedClient, Typed, ClientRec
<1>3. Uses(AcceptedClient) = 1
  BY <1>2, NewClientFields DEF Uses, One, InFlight, Handles, Sockets, DnsServers
<1> QED
  BY <1>1, <1>2, <1>3, NewClientFields

LEMMA TimedFields ==
    /\ Typed(TimedClient)
    /\ TimedClient.mem = "live" /\ TimedClient.fault = "none"
    /\ TimedClient.ref_count = 2 /\ TimedClient.data = {"proxyClient", "timeout_timer"}
    /\ TimedClient.connecting = FALSE /\ TimedClient.host = FALSE
    /\ TimedClient.handle =
          [h \in Handles |-> IF h = "targetClient" THEN "none" ELSE "open"]
    /\ TimedClient.dns = [s \in DnsServers |-> 0]
    /\ Uses(TimedClient) = 2
<1> DEFINE set == [AcceptedClient EXCEPT !.handle["timeout_timer"] = "open",
                                         !.data = @ \cup {"timeout_timer"}, !.armed = TRUE]
<1>1. uv_init(AcceptedClient, "timeout_timer") = [AcceptedClient EXCEPT !.handle["timeout_timer"] = "open"]
  BY AcceptedFields DEF uv_init, Handles, Sockets
<1>2. TimedClient = [set EXCEPT !.ref_count = @ + 1]
  BY <1>1, AcceptedFields DEF TimedClient, ref_client, Typed, ClientRec
<1>3. /\ Typed(set) /\ set.mem = "live" /\ set.fault = "none" /\ set.ref_count = 1
      /\ set.data = {"proxyClient", "timeout_timer"}
      /\ set.connecting = FALSE /\ set.host = FALSE /\ set.dns = AcceptedClient.dns
      /\ set.handle = [AcceptedClient.handle EXCEPT !["timeout_timer"] = "open"]
  BY AcceptedFields DEF Typed, ClientRec, Handles, Sockets, HandleStatus
<1>4. /\ Typed(TimedClient) /\ TimedClient.mem = "live" /\ TimedClient.fault = "none"
      /\ TimedClient.ref_count = 2 /\ TimedClient.data = {"proxyClient", "timeout_timer"}
      /\ TimedClient.connecting = FALSE /\ TimedClient.host = FALSE
      /\ TimedClient.dns = AcceptedClient.dns
      /\ TimedClient.handle = [AcceptedClient.handle EXCEPT !["timeout_timer"] = "open"]
  <2> HIDE DEF set
  <2> QED
    BY <1>2, <1>3 DEF Typed, ClientRec
<1>5. TimedClient.handle = [h \in Handles |-> IF h = "targetClient" THEN "none" ELSE "open"]
  BY <1>4, AcceptedFields DEF Handles, Sockets
<1>6. Uses(TimedClient) = 2
  BY <1>4, <1>5, AcceptedFields DEF Uses, One, InFlight, Handles, Sockets, DnsServers
<1> QED
  BY <1>4, <1>5, <1>6, AcceptedFields

LEMMA AcceptedIsOne ==
    ASSUME NEW readOk
    PROVE  Accepted(readOk) =
             IF readOk THEN IF TimeOut # 0 THEN TimedClient ELSE AcceptedClient
             ELSE uv_close(IF TimeOut # 0 THEN TimedClient ELSE AcceptedClient, "proxyClient")
BY DEF Accepted, TimedClient, AcceptedClient, NewClient

LEMMA AcceptedIsSound ==
    ASSUME NEW readOk \in BOOLEAN
    PROVE  Sound(Accepted(readOk))
<1> DEFINE ready == IF TimeOut # 0 THEN TimedClient ELSE AcceptedClient
<1>1. Held(AcceptedClient, 0) /\ Held(TimedClient, 0)
  BY AcceptedFields, TimedFields DEF Held, Live, Handles, Sockets
<1>2. /\ Held(ready, 0) /\ ready.fault = "none"
      /\ ready.handle["proxyClient"] = "open" /\ "proxyClient" \in ready.data
  BY <1>1, AcceptedFields, TimedFields DEF Handles, Sockets
<1>3. Held(uv_close(ready, "proxyClient"), 0)
  BY <1>2, CloseKeeps DEF Handles, Sockets
<1> QED
  BY <1>2, <1>3, AcceptedIsOne, HeldIsSound

(* And if it did not.                                                      *)
LEMMA NotAcceptedIsSound == Sound(NotAccepted)
<1>1. NotAccepted = [NewClient EXCEPT !.handle["proxyClient"] = "closing"]
  BY NewClientFields DEF NotAccepted, NewClient, uv_close, Handles, Sockets
<1>2. Typed(NotAccepted)
  BY <1>1, NewClientFields DEF Typed, ClientRec, Handles, Sockets, HandleStatus
<1>3. /\ NotAccepted.mem = "live" /\ NotAccepted.fault = "none" /\ NotAccepted.ref_count = 1
      /\ NotAccepted.data = {} /\ NotAccepted.connecting = FALSE
      /\ NotAccepted.handle = [NewClient.handle EXCEPT !["proxyClient"] = "closing"]
      /\ NotAccepted.dns = NewClient.dns
  BY <1>1, NewClientFields DEF Typed, ClientRec
<1>4. NewClient.handle \in [Handles -> HandleStatus]
  BY NewClientFields DEF Typed, ClientRec
<1>5. Uses(NotAccepted) = 1
  BY <1>3, <1>4, NewClientFields DEF Uses, One, InFlight, Handles, Sockets, DnsServers
<1> QED
  BY <1>2, <1>3, <1>4, <1>5, NewClientFields DEF Sound, Live, Handles, Sockets

(* What the two kinds of request make of a struct whose client is there.   *)
LEMMA RequestedKeeps ==
    ASSUME NEW cl, Held(cl, 0), cl.fault = "none", cl.handle["proxyClient"] = "open"
    PROVE  LET requested == Requested(cl)
           IN  /\ Held(requested, 1) /\ requested.fault = "none"
               /\ requested.handle["proxyClient"] = "open"
               /\ Uses(requested) > 0
               /\ Held(send_dns_query(requested, "dns_1"), 0)
<1> DEFINE hosted    == [cl EXCEPT !.host = TRUE]
           requested == Requested(cl)
           asked     == send_dns_query(requested, "dns_1")
<1>1. Held(hosted, 0) /\ hosted.handle = cl.handle /\ hosted.fault = "none"
  BY DEF Held, Live, Typed, ClientRec, Uses, InFlight
<1>2. Held(requested, 0 + 1)
  BY <1>1, RefKeeps DEF Requested
<1>3. requested.handle = cl.handle /\ requested.fault = "none"
  BY <1>1 DEF Requested, ref_client, Held, Typed, ClientRec
<1>4. Uses(requested) > 0 /\ Uses(requested) \in Nat
  BY <1>2, <1>3, UsesNat DEF Held
<1>5. Typed(asked) /\ Typed(requested) /\ InFlight(asked) = InFlight(requested) + 1
  BY <1>2 DEF send_dns_query, Held, Typed, ClientRec, InFlight, DnsServers
<1>6. /\ asked.handle = requested.handle /\ asked.data = requested.data
      /\ asked.mem = requested.mem /\ asked.ref_count = requested.ref_count
      /\ asked.connecting = requested.connecting /\ asked.fault = requested.fault
  BY <1>5 DEF send_dns_query, Typed, ClientRec
<1>7. Uses(asked) = Uses(requested) + 1
  BY <1>5, <1>6, UsesNat DEF Uses, One
<1>8. Held(asked, 0)
  BY <1>2, <1>4, <1>5, <1>6, <1>7 DEF Held, Live, Typed, ClientRec
<1> QED
  BY <1>2, <1>3, <1>4, <1>8

(* A callback that leaves its struct sound leaves all of them sound.       *)
LEMMA HandleKeeps ==
    ASSUME IInv, NEW c \in Clients, NEW cl, Handle(c, cl), Sound(cl)
    PROVE  IInv'
BY DEF IInv, Handle, Sound, Typed

(* What a callback may assume of its struct.                               *)
LEMMA HandlerPre ==
    ASSUME IInv, NEW c \in Clients, NEW cl, Handle(c, cl)
    PROVE  Held(client[c], 0) /\ client[c].fault = "none" /\ Live(client[c], 0)
BY DEF IInv, Handle, Running, Sound, Held

-----------------------------------------------------------------------------
LEMMA InitSound == Init => IInv
BY DEF Init, IInv, Sound, Typed, Unused, ClientRec, Handles, Sockets, HandleStatus, DnsServers, FaultKinds

LEMMA OutcomesBoolean == \A kind : Outcomes(kind) \subseteq BOOLEAN
BY DEF Outcomes

(* One step per callback.                                                  *)
LEMMA StepSound == IInv /\ [Next]_vars => IInv'
<1> SUFFICES ASSUME IInv, [Next]_vars PROVE IInv'
  OBVIOUS
<1>1. CASE UNCHANGED vars
  BY <1>1 DEF vars, IInv
<1>2. ASSUME NEW c \in Clients, on_new_connection(c) PROVE IInv'
  <2>1. \A readOk \in Outcomes("read_start") : Sound(Accepted(readOk))
    BY AcceptedIsSound, OutcomesBoolean
  <2>2. PICK cl : Sound(cl) /\ client' = [client EXCEPT ![c] = cl] /\ client_count' = client_count + 1
    BY <1>2, <2>1, NotAcceptedIsSound DEF on_new_connection
  <2> QED
    BY <2>2 DEF IInv, Sound, Typed
<1>3. ASSUME NEW c \in Clients, read_data_end(c) PROVE IInv'
  <2> DEFINE closed == uv_close(client[c], "proxyClient")
             cl     == CloseIfUp(closed, "targetClient")
  <2>1. Handle(c, cl) /\ client[c].handle["proxyClient"] = "open"
    BY <1>3 DEF read_data_end, Readable
  <2>2. Held(client[c], 0) /\ client[c].fault = "none" /\ Live(client[c], 0)
    BY <2>1, HandlerPre
  <2>3. Held(closed, 0)
    BY <2>1, <2>2, CloseKeeps DEF Live, Handles, Sockets
  <2>4. Held(cl, 0)
    BY <2>3, CloseIfUpKeeps DEF Sockets
  <2> QED
    BY <2>1, <2>4, HeldIsSound, HandleKeeps
<1>4. ASSUME NEW c \in Clients, read_data_rejected(c) PROVE IInv'
  <2> DEFINE cl == uv_close(client[c], "proxyClient")
  <2>1. Handle(c, cl) /\ client[c].handle["proxyClient"] = "open"
    BY <1>4 DEF read_data_rejected, FirstRequest, Readable
  <2>2. Held(client[c], 0) /\ client[c].fault = "none" /\ Live(client[c], 0)
    BY <2>1, HandlerPre
  <2>3. Held(cl, 0)
    BY <2>1, <2>2, CloseKeeps DEF Live, Handles, Sockets
  <2> QED
    BY <2>1, <2>3, HeldIsSound, HandleKeeps
<1>5. ASSUME NEW c \in Clients, read_data_address(c) PROVE IInv'
  <2>1. PICK connectOk \in BOOLEAN :
            LET connected == ConnectTargetServer(Requested(client[c]), connectOk)
            IN  Handle(c, IF connectOk THEN [connected EXCEPT !.state = 1]
                                       ELSE unref_client(connected))
    BY <1>5, OutcomesBoolean DEF read_data_address
  <2> DEFINE connected == ConnectTargetServer(Requested(client[c]), connectOk)
             cl == IF connectOk THEN [connected EXCEPT !.state = 1] ELSE unref_client(connected)
  <2>2. Handle(c, cl)
    BY <2>1
  <2>3. client[c].handle["proxyClient"] = "open"
    BY <1>5 DEF read_data_address, FirstRequest, Readable
  <2>4. Held(Requested(client[c]), 0 + 1) /\ Requested(client[c]).handle["proxyClient"] = "open"
    BY <2>2, <2>3, HandlerPre, RequestedKeeps
  <2>5. Held(connected, 0) /\ (~connectOk => Held(connected, 1))
    BY <2>4, ConnectKeeps
  <2>6. CASE connectOk
    <3>1. Held([connected EXCEPT !.state = 1], 0)
      BY <2>5 DEF Held, Live, Typed, ClientRec, Uses, InFlight
    <3> QED
      BY <2>2, <2>6, <3>1, HeldIsSound, HandleKeeps
  <2>7. CASE ~connectOk
    BY <2>2, <2>5, <2>7, UnrefKeeps, HandleKeeps
  <2> QED
    BY <2>6, <2>7
<1>6. ASSUME NEW c \in Clients, read_data_name(c) PROVE IInv'
  <2> DEFINE requested == Requested(client[c])
             refused   == uv_close(unref_client(requested), "proxyClient")
  <2>0. PICK queryOk \in Outcomes("query"), connectOk \in Outcomes("connect") :
            Handle(c, CASE ~queryOk -> refused
                        [] queryOk /\ Dns = {} -> on_dns(requested, "none", 1, connectOk, TRUE)
                        [] OTHER -> send_dns_query(requested, "dns_1"))
    BY <1>6, Zenon DEF read_data_name, Resolve, send_default_dns
  <2>1. /\ queryOk \in BOOLEAN /\ connectOk \in BOOLEAN
        /\ Handle(c, CASE ~queryOk -> refused
                       [] queryOk /\ Dns = {} -> on_dns(requested, "none", 1, connectOk, TRUE)
                       [] OTHER -> send_dns_query(requested, "dns_1"))
    BY <2>0, OutcomesBoolean
  <2>2. client[c].handle["proxyClient"] = "open"
    BY <1>6 DEF read_data_name, Resolve, FirstRequest, Readable
  <2>3. /\ Held(requested, 1) /\ requested.fault = "none"
        /\ requested.handle["proxyClient"] = "open"
        /\ Uses(requested) > 0
        /\ Held(send_dns_query(requested, "dns_1"), 0)
    BY <2>1, <2>2, HandlerPre, RequestedKeeps
  <2>4. Sound(on_dns(requested, "none", 1, connectOk, TRUE))
    BY <2>1, <2>3, OnDnsKeeps
  <2>5. Held(refused, 0)
    <3>1. Held(unref_client(requested), 0)
      BY <2>3, UnrefKeeps
    <3>2. unref_client(requested).fault = "none" => unref_client(requested).handle = requested.handle
      BY <2>3 DEF unref_client, Fail, Held, Typed, ClientRec
    <3>3. unref_client(requested).fault = "none" =>
              /\ unref_client(requested).handle["proxyClient"] = "open"
              /\ "proxyClient" \in unref_client(requested).data
      BY <2>3, <3>1, <3>2 DEF Held, Live
    <3> QED
      BY <3>1, <3>3, CloseKeeps DEF Handles, Sockets
  <2>6. CASE ~queryOk
    BY <2>1, <2>5, <2>6, HeldIsSound, HandleKeeps
  <2>7. CASE queryOk /\ Dns = {}
    BY <2>1, <2>4, <2>7, HandleKeeps
  <2>8. CASE queryOk /\ Dns # {}
    BY <2>1, <2>3, <2>8, HeldIsSound, HandleKeeps
  <2> QED
    BY <2>6, <2>7, <2>8
<1>7. ASSUME NEW c \in Clients, NEW s \in DnsServers, DnsAnswer(c, s) PROVE IInv'
  <2> DEFINE answered == [client[c] EXCEPT !.dns[s] = @ - 1]
  <2>1. PICK status \in {1, -1, -2}, connectOk \in BOOLEAN, queryOk \in BOOLEAN :
            Handle(c, on_dns(answered, s, status, connectOk, queryOk))
    BY <1>7, OutcomesBoolean DEF DnsAnswer, DnsReply
  <2>2. client[c].dns[s] > 0
    BY <1>7 DEF DnsAnswer, DnsReply
  <2>3. Held(client[c], 0) /\ client[c].fault = "none" /\ Live(client[c], 0)
    BY <2>1, HandlerPre
  <2>4. /\ Typed(answered) /\ Typed(client[c])
        /\ InFlight(client[c]) = InFlight(answered) + 1
    BY <2>2, <2>3 DEF Held, Typed, ClientRec, InFlight, DnsServers
  <2>5. /\ answered.handle = client[c].handle /\ answered.data = client[c].data
        /\ answered.mem = client[c].mem /\ answered.ref_count = client[c].ref_count
        /\ answered.connecting = client[c].connecting /\ answered.fault = client[c].fault
    BY <2>4 DEF Typed, ClientRec
  <2>6. Uses(client[c]) = Uses(answered) + 1 /\ Uses(answered) \in Nat
    BY <2>4, <2>5, UsesNat DEF Uses, One
  <2>7. Held(answered, 1) /\ answered.fault = "none"
    BY <2>3, <2>4, <2>5, <2>6 DEF Held, Live, Typed, ClientRec
  <2> QED
    BY <2>1, <2>7, OnDnsKeeps, HandleKeeps
<1>8. ASSUME NEW c \in Clients, on_connect_porxy(c) PROVE IInv'
  <2> DEFINE done == [client[c] EXCEPT !.connecting = FALSE]
             both == CloseIfUp(CloseIfUp(done, "targetClient"), "proxyClient")
  <2>1. PICK cl \in {done, both} : Handle(c, cl)
    BY <1>8 DEF on_connect_porxy
  <2>2. Held(done, 0)
    <3>1. Held(client[c], 0)
      BY <2>1, HandlerPre
    <3> QED
      BY <3>1 DEF Held, Live, Typed, ClientRec, Uses, InFlight
  <2>3. Held(both, 0)
    BY <2>2, CloseIfUpKeeps DEF Sockets
  <2> QED
    BY <2>1, <2>2, <2>3, HeldIsSound, HandleKeeps
<1>9. ASSUME NEW c \in Clients, read_data_porxy_end(c) PROVE IInv'
  <2> DEFINE closed == uv_close(client[c], "targetClient")
             cl     == CloseIfUp(closed, "proxyClient")
  <2>1. Handle(c, cl) /\ IsUp(client[c], "targetClient")
    BY <1>9 DEF read_data_porxy_end
  <2>2. Held(client[c], 0) /\ client[c].fault = "none" /\ Live(client[c], 0)
    BY <2>1, HandlerPre
  <2>3. Held(closed, 0)
    BY <2>1, <2>2, CloseKeeps DEF IsUp, uv_is_closing, Live, Handles, Sockets
  <2>4. Held(cl, 0)
    BY <2>3, CloseIfUpKeeps DEF Sockets
  <2> QED
    BY <2>1, <2>4, HeldIsSound, HandleKeeps
<1>10. ASSUME NEW c \in Clients, on_timeout(c) PROVE IInv'
  <2> DEFINE stopped == [client[c] EXCEPT !.armed = FALSE]
             cl      == CloseIfUp(CloseIfUp(stopped, "proxyClient"), "targetClient")
  <2>1. Handle(c, cl)
    BY <1>10 DEF on_timeout
  <2>2. Held(stopped, 0)
    <3>1. Held(client[c], 0)
      BY <2>1, HandlerPre
    <3> QED
      BY <3>1 DEF Held, Live, Typed, ClientRec, Uses, InFlight
  <2>3. Held(cl, 0)
    BY <2>2, CloseIfUpKeeps DEF Sockets
  <2> QED
    BY <2>1, <2>3, HeldIsSound, HandleKeeps
<1>11. ASSUME NEW c \in Clients, NEW h \in Handles, Closed(c, h) PROVE IInv'
  <2>1. Handle(c, close_cb(client[c], h))
    BY <1>11 DEF Closed
  <2>2. Sound(close_cb(client[c], h))
    BY <1>11, <2>1, HandlerPre, CloseCbKeeps DEF Closed
  <2> QED
    BY <2>1, <2>2, HandleKeeps
<1> QED
  BY <1>1, <1>2, <1>3, <1>4, <1>5, <1>6, <1>7, <1>8, <1>9, <1>10, <1>11 DEF Next

-----------------------------------------------------------------------------
THEOREM Invariance == Spec => []IInv
BY InitSound, StepSound, PTL DEF Spec

(* Every field of every Client keeps its type, and no request is answered  *)
(* that is not in flight.                                                  *)
THEOREM TypeCorrect == Spec => []TypeOK
<1>1. IInv => TypeOK
  BY DEF IInv, Sound, Typed, TypeOK
<1> QED
  BY <1>1, Invariance, PTL

(* Whatever calls fail and whatever a client sends, no Client is freed     *)
(* that a callback will still use, and no handle is closed twice.          *)
THEOREM NeverUsedAfterFree == Spec => []NoUseAfterFree
<1>1. IInv => NoUseAfterFree
  BY DEF IInv, Sound, NoUseAfterFree
<1> QED
  BY <1>1, Invariance, PTL

-----------------------------------------------------------------------------
(* The timer.                                                              *)

(* A struct between any two calls of any handler.  The second conjunct is  *)
(* what lets close_cb find the timer; the third cannot be lost after the   *)
(* timer has fired, because a target only joins a client that is up.       *)
Covered(cl) ==
    /\ Typed(cl)
    /\ TimeOut # 0 /\ cl.fault = "none" =>
          /\ cl.handle["timeout_timer"] = "open" <=> Sockets \cap cl.data # {}
          /\ cl.handle["timeout_timer"] = "open" => "timeout_timer" \in cl.data
          /\ (\E h \in Sockets : Serving(cl, h)) => cl.armed = TRUE

CoverInv == IInv /\ \A c \in Clients : Covered(client[c])

(* What the two sides of a connection are, to NoLateConnect.               *)
SameSides(cl, new) ==
    new.handle = cl.handle /\ new.data = cl.data /\ new.connecting = cl.connecting

(* What NoLateConnect asks of a callback that turns cl into new. *)
OnTime(cl, new) ==
    new.connecting /\ ~cl.connecting => Serving(cl, "proxyClient") /\ Serving(new, "proxyClient")

-----------------------------------------------------------------------------
LEMMA FailCovered ==
    ASSUME NEW cl, Typed(cl), NEW kind \in FaultKinds \ {"none"}
    PROVE  Covered(Fail(cl, kind)) /\ Fail(cl, kind).fault # "none"
<1>1. CASE cl.fault = "none"
  <2>1. Fail(cl, kind) = [cl EXCEPT !.fault = kind]
    BY <1>1 DEF Fail
  <2> QED
    BY <2>1 DEF Covered, Typed, ClientRec
<1>2. CASE cl.fault # "none"
  BY <1>2 DEF Fail, Covered
<1> QED
  BY <1>1, <1>2

LEMMA RefCovered ==
    ASSUME NEW cl, Covered(cl)
    PROVE  Covered(ref_client(cl))
BY DEF Covered, Typed, ClientRec, ref_client, Serving

(* Closing a socket takes it down and changes nothing else.                *)
LEMMA CloseCovered ==
    ASSUME NEW cl, NEW h \in Sockets, Covered(cl)
    PROVE  Covered(uv_close(cl, h))
<1>1. CASE cl.mem # "live"
  <2>1. uv_close(cl, h) = Fail(cl, "use_after_free")
    BY <1>1 DEF uv_close
  <2> QED
    BY <2>1, FailCovered DEF Covered, FaultKinds
<1>2. CASE cl.mem = "live" /\ cl.handle[h] # "open"
  <2>1. uv_close(cl, h) = Fail(cl, "double_close")
    BY <1>2 DEF uv_close
  <2> QED
    BY <2>1, FailCovered DEF Covered, FaultKinds
<1>3. CASE cl.mem = "live" /\ cl.handle[h] = "open"
  <2>1. uv_close(cl, h) = [cl EXCEPT !.handle[h] = "closing"]
    BY <1>3 DEF uv_close
  <2>2. Typed(uv_close(cl, h))
    BY <2>1 DEF Covered, Typed, ClientRec, Handles, HandleStatus
  <2> QED
    BY <2>1, <2>2 DEF Covered, Typed, ClientRec, Handles, Sockets, Serving
<1> QED
  BY <1>1, <1>2, <1>3

LEMMA CloseIfUpCovered ==
    ASSUME NEW cl, NEW h \in Sockets, Covered(cl)
    PROVE  Covered(CloseIfUp(cl, h))
BY CloseCovered DEF CloseIfUp

LEMMA UnrefCovered ==
    ASSUME NEW cl, Covered(cl)
    PROVE  Covered(unref_client(cl))
<1> DEFINE dropped == [cl EXCEPT !.ref_count = @ - 1]
           freed   == [dropped EXCEPT !.mem = "freed"]
<1>0. Typed(dropped)
  BY DEF Covered, Typed, ClientRec
<1>1. Typed(dropped) /\ Typed(freed)
  BY <1>0 DEF Typed, ClientRec
<1>2. \A x \in {dropped, freed} :
         x.fault = cl.fault /\ x.handle = cl.handle /\ x.data = cl.data /\ x.armed = cl.armed
  BY DEF Covered, Typed, ClientRec
<1>3. Covered(dropped) /\ Covered(freed)
  <2> HIDE DEF dropped, freed
  <2> QED
    BY <1>1, <1>2 DEF Covered, Serving
<1>4. CASE cl.mem # "live"
  <2>1. unref_client(cl) = Fail(cl, "use_after_free")
    BY <1>4 DEF unref_client
  <2> QED
    BY <2>1, FailCovered DEF Covered, FaultKinds
<1>5. CASE cl.mem = "live" /\ dropped.ref_count # 0
  BY <1>3, <1>5 DEF unref_client
<1>6. CASE cl.mem = "live" /\ dropped.ref_count = 0
  <2>1. unref_client(cl) = Fail(freed, FreeFault(cl))
    BY <1>6 DEF unref_client
  <2>2. FreeFault(cl) \in {"use_after_free", "stale_handle", "none"}
    BY DEF FreeFault
  <2>3. CASE FreeFault(cl) = "none"
    <3>1. Fail(freed, "none") = freed
      BY <1>1 DEF Fail, Typed, ClientRec
    <3> QED
      BY <1>3, <2>1, <2>3, <3>1
  <2>4. CASE FreeFault(cl) # "none"
    BY <1>1, <2>1, <2>2, <2>4, FailCovered DEF FaultKinds
  <2> QED
    BY <2>3, <2>4
<1> QED
  BY <1>4, <1>5, <1>6
-----------------------------------------------------------------------------
(* A target joins a client that is up, and so has its timer still to come. *)
LEMMA ConnectCovered ==
    ASSUME NEW cl, NEW started \in BOOLEAN, Covered(cl),
           cl.fault = "none" => Serving(cl, "proxyClient")
    PROVE  Covered(ConnectTargetServer(cl, started))
<1> DEFINE inited == uv_init(cl, "targetClient")
           up     == [inited EXCEPT !.data = @ \cup {"targetClient"}, !.connecting = TRUE]
<1>1. ConnectTargetServer(cl, started) = IF started THEN up ELSE inited
  BY DEF ConnectTargetServer
<1>2. CASE cl.handle["targetClient"] \notin {"none", "closed"}
  <2>1. inited = Fail(cl, "reinit")
    BY <1>2 DEF uv_init
  <2>2. Covered(inited) /\ inited.fault # "none"
    BY <2>1, FailCovered DEF Covered, FaultKinds
  <2>3. Typed(up) /\ up.fault = inited.fault
    BY <2>2 DEF Covered, Typed, ClientRec, Handles, Sockets
  <2> QED
    BY <1>1, <2>2, <2>3 DEF Covered
<1>3. CASE cl.handle["targetClient"] \in {"none", "closed"}
  <2>1. inited = [cl EXCEPT !.handle["targetClient"] = "open"]
    BY <1>3 DEF uv_init
  <2>2. Typed(inited)
    BY <2>1 DEF Covered, Typed, ClientRec, Handles, Sockets, HandleStatus
  <2>3. Typed(up)
    BY <2>2 DEF Typed, ClientRec, Handles, Sockets
  <2>4. /\ inited.fault = cl.fault /\ inited.armed = cl.armed /\ inited.data = cl.data
        /\ inited.handle = [cl.handle EXCEPT !["targetClient"] = "open"]
        /\ cl.handle \in [Handles -> HandleStatus]
    BY <2>1 DEF Covered, Typed, ClientRec
  <2> HIDE DEF inited
  <2>5. /\ up.fault = inited.fault /\ up.armed = inited.armed
        /\ up.handle = inited.handle /\ up.data = inited.data \cup {"targetClient"}
    BY <2>2 DEF Typed, ClientRec
  <2> HIDE DEF up
  <2>6. TimeOut # 0 /\ cl.fault = "none" => cl.armed = TRUE /\ "proxyClient" \in cl.data
    BY DEF Covered, Serving, Sockets
  <2>7. Covered(inited) /\ Covered(up)
    BY <2>2, <2>3, <2>4, <2>5, <2>6 DEF Covered, Serving, Handles, Sockets
  <2> QED
    BY <1>1, <2>7 DEF inited, up
<1> QED
  BY <1>2, <1>3

LEMMA GiveUpCovered ==
    ASSUME NEW cl, Covered(cl)
    PROVE  Covered(GiveUp(cl))
BY CloseCovered, UnrefCovered DEF GiveUp, Sockets

(* The fields Covered does not speak of. *)
LEMMA OthersCovered ==
    ASSUME NEW cl, Covered(cl)
    PROVE  /\ Covered([cl EXCEPT !.state = 1])
           /\ Covered([cl EXCEPT !.host = TRUE])
           /\ Covered([cl EXCEPT !.connecting = FALSE])
           /\ \A s \in DnsServers : Covered(send_dns_query(cl, s))
           /\ \A s \in DnsServers : cl.dns[s] > 0 => Covered([cl EXCEPT !.dns[s] = @ - 1])
<1>1. Covered([cl EXCEPT !.state = 1]) /\ Covered([cl EXCEPT !.host = TRUE])
  BY DEF Covered, Typed, ClientRec, Serving
<1>2. Covered([cl EXCEPT !.connecting = FALSE])
  BY DEF Covered, Typed, ClientRec, Serving
<1>3. ASSUME NEW s \in DnsServers, NEW n \in Nat
      PROVE  Covered([cl EXCEPT !.dns[s] = n])
  BY DEF Covered, Typed, ClientRec, Serving
<1>4. \A s \in DnsServers : cl.dns[s] \in Nat
  BY DEF Covered, Typed, ClientRec
<1>5. \A s \in DnsServers : cl.dns[s] + 1 \in Nat /\ (cl.dns[s] > 0 => cl.dns[s] - 1 \in Nat)
  BY <1>4
<1> QED
  BY <1>1, <1>2, <1>3, <1>5 DEF send_dns_query

LEMMA RequestedCovered ==
    ASSUME NEW cl, Covered(cl)
    PROVE  /\ Covered(Requested(cl))
           /\ Requested(cl).handle = cl.handle /\ Requested(cl).data = cl.data
           /\ Requested(cl).connecting = cl.connecting /\ Requested(cl).fault = cl.fault
<1> DEFINE hosted == [cl EXCEPT !.host = TRUE]
<1>1. /\ Covered(hosted) /\ hosted.handle = cl.handle /\ hosted.data = cl.data
      /\ hosted.connecting = cl.connecting /\ hosted.fault = cl.fault
  BY OthersCovered DEF Covered, Typed, ClientRec
<1> HIDE DEF hosted
<1>2. Covered(ref_client(hosted))
  BY <1>1, RefCovered
<1> QED
  BY <1>1, <1>2 DEF Requested, ref_client, hosted, Covered, Typed, ClientRec

LEMMA OnDnsCovered ==
    ASSUME NEW cl, NEW server, NEW status, NEW connectOk \in BOOLEAN, NEW queryOk,
           Covered(cl), cl.fault = "none" => cl.handle["proxyClient"] # "none"
    PROVE  Covered(on_dns(cl, server, status, connectOk, queryOk))
<1> DEFINE connected == ConnectTargetServer(ref_client(cl), connectOk)
<1>1. CASE ~IsUp(cl, "proxyClient")
  BY <1>1, UnrefCovered DEF on_dns
<1>2. CASE IsUp(cl, "proxyClient") /\ status = 1
  <2>1. Covered(ref_client(cl)) /\ ref_client(cl).handle = cl.handle
            /\ ref_client(cl).data = cl.data /\ ref_client(cl).fault = cl.fault
    BY RefCovered DEF ref_client, Covered, Typed, ClientRec
  <2>2. cl.fault = "none" => Serving(cl, "proxyClient")
    BY <1>2 DEF IsUp, uv_is_closing, Serving, Covered, Typed, ClientRec, HandleStatus, Handles, Sockets
  <2>3. Covered(connected)
    BY <2>1, <2>2, ConnectCovered DEF Serving
  <2> QED
    BY <1>2, <2>3, OthersCovered, UnrefCovered, GiveUpCovered DEF on_dns
<1>3. CASE IsUp(cl, "proxyClient") /\ status # 1
  BY <1>3, OthersCovered, GiveUpCovered DEF on_dns, DnsServers
<1> QED
  BY <1>1, <1>2, <1>3

(* The last socket takes the timer with it. *)
LEMMA CloseCbCovered ==
    ASSUME NEW cl, NEW h \in Handles, Covered(cl), cl.handle[h] = "closing"
    PROVE  Covered(close_cb(cl, h))
<1> DEFINE closed  == [cl EXCEPT !.handle[h] = "closed", !.data = @ \ {h}]
           stopped == [closed EXCEPT !.armed = FALSE]
           timed   == [stopped EXCEPT !.handle["timeout_timer"] = "closing"]
           noTimer == IF SocketsGone(closed) THEN uv_close(stopped, "timeout_timer") ELSE closed
<1>1. CASE h \notin cl.data
  BY <1>1, FailCovered DEF close_cb, Covered, FaultKinds
<1>2. CASE h \in cl.data
  <2>1. close_cb(cl, h) = unref_client(noTimer)
    BY <1>2 DEF close_cb
  <2>2. Typed(closed)
    BY DEF Covered, Typed, ClientRec, Handles, Sockets, HandleStatus
  <2>3. /\ closed.fault = cl.fault /\ closed.armed = cl.armed /\ closed.mem = cl.mem
        /\ closed.data = cl.data \ {h} /\ closed.handle = [cl.handle EXCEPT ![h] = "closed"]
        /\ cl.handle \in [Handles -> HandleStatus]
    BY DEF Covered, Typed, ClientRec
  <2> HIDE DEF closed
  <2>4. Typed(stopped)
    BY <2>2 DEF Typed, ClientRec
  <2>5. /\ stopped.fault = closed.fault /\ stopped.mem = closed.mem
        /\ stopped.data = closed.data /\ stopped.handle = closed.handle
    BY <2>2 DEF Typed, ClientRec
  <2> HIDE DEF stopped
  <2>6. CASE SocketsGone(closed)
    <3>1. CASE uv_close(stopped, "timeout_timer") = timed
      <4>1. Typed(timed)
        BY <2>4 DEF Typed, ClientRec, Handles, HandleStatus
      <4>2. /\ timed.data = closed.data /\ timed.handle["timeout_timer"] = "closing"
        BY <2>4, <2>5 DEF Typed, ClientRec, Handles
      <4>3. Covered(timed)
        BY <2>6, <4>1, <4>2 DEF Covered, SocketsGone, Serving
      <4> QED
        BY <2>1, <2>6, <3>1, <4>3, UnrefCovered
    <3>2. CASE uv_close(stopped, "timeout_timer") # timed
      <4>1. uv_close(stopped, "timeout_timer") \in
                {Fail(stopped, "use_after_free"), Fail(stopped, "double_close")}
        BY <3>2 DEF uv_close
      <4>2. Covered(uv_close(stopped, "timeout_timer"))
        BY <2>4, <4>1, FailCovered DEF FaultKinds
      <4> QED
        BY <2>1, <2>6, <4>2, UnrefCovered
    <3> QED
      BY <3>1, <3>2
  <2>7. CASE ~SocketsGone(closed)
    <3>1. TimeOut # 0 /\ cl.fault = "none" => (closed.handle["timeout_timer"] = "open" <=> Sockets \cap closed.data # {})
      BY <1>2, <2>3, <2>7 DEF Covered, SocketsGone, Handles, Sockets
    <3>2. TimeOut # 0 /\ cl.fault = "none" /\ closed.handle["timeout_timer"] = "open" => "timeout_timer" \in closed.data
      BY <2>3 DEF Covered, Handles, Sockets
    <3>3. \A s \in Sockets : Serving(closed, s) => Serving(cl, s)
      BY <2>3 DEF Serving, Handles, Sockets
    <3>4. Covered(closed)
      BY <2>2, <2>3, <3>1, <3>2, <3>3 DEF Covered
    <3> QED
      BY <2>1, <2>7, <3>4, UnrefCovered
  <2> QED
    BY <2>6, <2>7
<1> QED
  BY <1>1, <1>2
(* A connection that was accepted has its timer and its client's side; one *)
(* that was not has neither.                                               *)
LEMMA AcceptedCovered ==
    ASSUME NEW readOk
    PROVE  Covered(Accepted(readOk))
<1> DEFINE set   == [AcceptedClient EXCEPT !.handle["timeout_timer"] = "open",
                                           !.data = @ \cup {"timeout_timer"}, !.armed = TRUE]
           ready == IF TimeOut # 0 THEN TimedClient ELSE AcceptedClient
<1>1. uv_init(AcceptedClient, "timeout_timer") = [AcceptedClient EXCEPT !.handle["timeout_timer"] = "open"]
  BY AcceptedFields DEF uv_init, Handles, Sockets
<1>2. TimedClient = [set EXCEPT !.ref_count = @ + 1]
  BY <1>1, AcceptedFields DEF TimedClient, ref_client, Typed, ClientRec
<1>3. Typed(set) /\ set.armed = TRUE
  BY AcceptedFields DEF Typed, ClientRec, Handles, Sockets, HandleStatus
<1>4. TimedClient.armed = TRUE
  <2> HIDE DEF set
  <2> QED
    BY <1>2, <1>3 DEF Typed, ClientRec
<1>5. Covered(ready)
  BY <1>4, AcceptedFields, TimedFields DEF Covered, Handles, Sockets
<1>6. Covered(uv_close(ready, "proxyClient"))
  BY <1>5, CloseCovered DEF Sockets
<1> QED
  BY <1>5, <1>6, AcceptedIsOne

LEMMA NotAcceptedCovered == Covered(NotAccepted)
<1>1. Covered(NewClient)
  BY NewClientFields DEF Covered, Serving, Handles, Sockets
<1> QED
  BY <1>1, CloseCovered DEF NotAccepted, NewClient, Sockets

(* The timer has fired, and both sides are closed in the same callback.    *)
LEMMA StoppedCovered ==
    ASSUME NEW cl, Covered(cl), Live(cl, 0), cl.fault = "none"
    PROVE  LET stopped == [cl EXCEPT !.armed = FALSE]
           IN  Covered(CloseIfUp(CloseIfUp(stopped, "proxyClient"), "targetClient"))
<1> DEFINE stopped == [cl EXCEPT !.armed = FALSE]
           one     == CloseIfUp(stopped, "proxyClient")
           two     == CloseIfUp(one, "targetClient")
<1>1. /\ Typed(stopped) /\ stopped.handle = cl.handle /\ stopped.data = cl.data
      /\ stopped.mem = cl.mem /\ stopped.fault = cl.fault
  BY DEF Covered, Typed, ClientRec
<1> HIDE DEF stopped
<1>2. /\ Typed(one) /\ one.data = cl.data /\ one.mem = cl.mem /\ one.fault = "none"
      /\ ~Serving(one, "proxyClient")
      /\ \A h \in Handles \ {"proxyClient"} : one.handle[h] = cl.handle[h]
  <2>1. CASE IsUp(stopped, "proxyClient")
    <3>1. one = [stopped EXCEPT !.handle["proxyClient"] = "closing"]
      BY <1>1, <2>1 DEF CloseIfUp, uv_close, IsUp, uv_is_closing, Live
    <3> QED
      BY <1>1, <3>1 DEF Typed, ClientRec, Handles, Sockets, HandleStatus, Serving
  <2>2. CASE ~IsUp(stopped, "proxyClient")
    BY <1>1, <2>2 DEF CloseIfUp, IsUp, uv_is_closing, Serving
  <2> QED
    BY <2>1, <2>2
<1> HIDE DEF one
<1>3. /\ Typed(two) /\ two.data = cl.data /\ two.fault = "none"
      /\ ~Serving(two, "proxyClient") /\ ~Serving(two, "targetClient")
      /\ two.handle["timeout_timer"] = cl.handle["timeout_timer"]
  <2>1. CASE IsUp(one, "targetClient")
    <3>1. one.handle["targetClient"] = "open" /\ one.mem = "live"
      BY <1>2, <2>1 DEF IsUp, uv_is_closing, Live, Handles, Sockets
    <3>2. two = [one EXCEPT !.handle["targetClient"] = "closing"]
      BY <2>1, <3>1 DEF CloseIfUp, uv_close
    <3> QED
      BY <1>2, <3>2 DEF Typed, ClientRec, Handles, Sockets, HandleStatus, Serving
  <2>2. CASE ~IsUp(one, "targetClient")
    BY <1>2, <2>2 DEF CloseIfUp, IsUp, uv_is_closing, Serving, Handles, Sockets
  <2> QED
    BY <2>1, <2>2
<1>4. Covered(two)
  <2> HIDE DEF two
  <2> QED
    BY <1>3 DEF Covered, Sockets
<1> QED
  BY <1>4 DEF one, stopped

-----------------------------------------------------------------------------
(* What a callback may assume of its struct, and what it then owes.        *)
LEMMA CoverPre ==
    ASSUME CoverInv, NEW c \in Clients, NEW cl, Handle(c, cl)
    PROVE  /\ Covered(client[c]) /\ client[c].fault = "none"
           /\ Held(client[c], 0) /\ Live(client[c], 0)
BY HandlerPre DEF CoverInv

LEMMA HandleCovers ==
    ASSUME CoverInv, IInv', NEW c \in Clients, NEW cl, Handle(c, cl), Covered(cl)
    PROVE  CoverInv'
BY DEF CoverInv, IInv, Handle

(* One step per callback. *)
LEMMA StepCovers == CoverInv /\ [Next]_vars => CoverInv'
<1> SUFFICES ASSUME CoverInv, [Next]_vars PROVE CoverInv'
  OBVIOUS
<1>0. IInv'
  BY StepSound DEF CoverInv
<1>1. CASE UNCHANGED vars
  BY <1>0, <1>1 DEF vars, CoverInv
<1>2. ASSUME NEW c \in Clients, on_new_connection(c) PROVE CoverInv'
  <2>1. PICK cl : Covered(cl) /\ client' = [client EXCEPT ![c] = cl]
    BY <1>2, AcceptedCovered, NotAcceptedCovered DEF on_new_connection
  <2> QED
    BY <1>0, <2>1 DEF CoverInv, IInv
<1>3. ASSUME NEW c \in Clients, read_data_end(c) PROVE CoverInv'
  <2>1. Handle(c, CloseIfUp(uv_close(client[c], "proxyClient"), "targetClient"))
    BY <1>3 DEF read_data_end
  <2> QED
    BY <1>0, <2>1, CoverPre, CloseCovered, CloseIfUpCovered, HandleCovers DEF Sockets
<1>4. ASSUME NEW c \in Clients, read_data_rejected(c) PROVE CoverInv'
  <2>1. Handle(c, uv_close(client[c], "proxyClient"))
    BY <1>4 DEF read_data_rejected
  <2> QED
    BY <1>0, <2>1, CoverPre, CloseCovered, HandleCovers DEF Sockets
<1>5. ASSUME NEW c \in Clients, read_data_address(c) PROVE CoverInv'
  <2> DEFINE connected(ok) == ConnectTargetServer(Requested(client[c]), ok)
  <2>1. PICK connectOk \in BOOLEAN :
            Handle(c, IF connectOk THEN [connected(connectOk) EXCEPT !.state = 1]
                                   ELSE unref_client(connected(connectOk)))
    BY <1>5, OutcomesBoolean DEF read_data_address
  <2>2. Covered(client[c]) /\ Serving(client[c], "proxyClient")
    BY <1>5, <2>1, CoverPre DEF read_data_address, FirstRequest, Readable, Serving, Live
  <2>3. Covered(Requested(client[c])) /\ Serving(Requested(client[c]), "proxyClient")
    BY <2>2, RequestedCovered DEF Serving
  <2>4. Covered(connected(connectOk))
    BY <2>3, ConnectCovered
  <2>5. /\ Covered([connected(connectOk) EXCEPT !.state = 1])
        /\ Covered(unref_client(connected(connectOk)))
    BY <2>4, OthersCovered, UnrefCovered
  <2> QED
    BY <1>0, <2>1, <2>5, HandleCovers
<1>6. ASSUME NEW c \in Clients, read_data_name(c) PROVE CoverInv'
  <2> DEFINE requested == Requested(client[c])
             refused   == uv_close(unref_client(requested), "proxyClient")
             resolved(ok) == on_dns(requested, "none", 1, ok, TRUE)
             asked     == send_dns_query(requested, "dns_1")
  <2>1. PICK queryOk \in Outcomes("query"), connectOk \in Outcomes("connect") :
            Handle(c, CASE ~queryOk -> refused
                        [] queryOk /\ Dns = {} -> resolved(connectOk)
                        [] OTHER -> asked)
    BY <1>6, Zenon DEF read_data_name, Resolve, send_default_dns
  <2>2. client[c].handle["proxyClient"] = "open"
    BY <1>6 DEF read_data_name, Resolve, FirstRequest, Readable
  <2>3. Covered(requested) /\ requested.handle["proxyClient"] # "none"
    BY <2>1, <2>2, CoverPre, RequestedCovered
  <2>4. Covered(refused)
    BY <2>3, UnrefCovered, CloseCovered DEF Sockets
  <2>5. Covered(resolved(connectOk))
    BY <2>3, OnDnsCovered, OutcomesBoolean
  <2>6. Covered(asked)
    BY <2>3, OthersCovered DEF DnsServers
  <2>7. Covered(CASE ~queryOk -> refused
                  [] queryOk /\ Dns = {} -> resolved(connectOk)
                  [] OTHER -> asked)
    <3> HIDE DEF refused, resolved, asked
    <3> QED
      BY <2>4, <2>5, <2>6
  <2> QED
    BY <1>0, <2>1, <2>7, HandleCovers
<1>7. ASSUME NEW c \in Clients, NEW s \in DnsServers, DnsAnswer(c, s) PROVE CoverInv'
  <2> DEFINE answered == [client[c] EXCEPT !.dns[s] = @ - 1]
  <2>1. PICK status \in {1, -1, -2}, connectOk \in BOOLEAN, queryOk \in BOOLEAN :
            Handle(c, on_dns(answered, s, status, connectOk, queryOk))
    BY <1>7, OutcomesBoolean DEF DnsAnswer, DnsReply
  <2>2. Covered(answered)
    BY <1>7, <2>1, CoverPre, OthersCovered DEF DnsAnswer, DnsReply
  <2>3. IsUp(answered, "proxyClient") => answered.handle["proxyClient"] # "none"
    <3>1. answered.handle = client[c].handle /\ answered.data = client[c].data
      BY <2>1, CoverPre DEF Covered, Typed, ClientRec
    <3> QED
      BY <2>1, <3>1, CoverPre DEF IsUp, Live
  <2>4. Covered(on_dns(answered, s, status, connectOk, queryOk))
    <3>1. CASE IsUp(answered, "proxyClient")
      BY <2>2, <2>3, <3>1, OnDnsCovered
    <3>2. CASE ~IsUp(answered, "proxyClient")
      BY <2>2, <3>2, UnrefCovered DEF on_dns
    <3> QED
      BY <3>1, <3>2
  <2> QED
    BY <1>0, <2>1, <2>4, HandleCovers
<1>8. ASSUME NEW c \in Clients, on_connect_porxy(c) PROVE CoverInv'
  <2> DEFINE done == [client[c] EXCEPT !.connecting = FALSE]
  <2>1. PICK cl \in {done, CloseIfUp(CloseIfUp(done, "targetClient"), "proxyClient")} : Handle(c, cl)
    BY <1>8 DEF on_connect_porxy
  <2>2. Covered(done)
    BY <2>1, CoverPre, OthersCovered
  <2>3. Covered(CloseIfUp(CloseIfUp(done, "targetClient"), "proxyClient"))
    BY <2>2, CloseIfUpCovered DEF Sockets
  <2> QED
    BY <1>0, <2>1, <2>2, <2>3, HandleCovers
<1>9. ASSUME NEW c \in Clients, read_data_porxy_end(c) PROVE CoverInv'
  <2>1. Handle(c, CloseIfUp(uv_close(client[c], "targetClient"), "proxyClient"))
    BY <1>9 DEF read_data_porxy_end
  <2> QED
    BY <1>0, <2>1, CoverPre, CloseCovered, CloseIfUpCovered, HandleCovers DEF Sockets
<1>10. ASSUME NEW c \in Clients, on_timeout(c) PROVE CoverInv'
  <2> DEFINE stopped == [client[c] EXCEPT !.armed = FALSE]
             cl      == CloseIfUp(CloseIfUp(stopped, "proxyClient"), "targetClient")
  <2>1. Handle(c, cl)
    BY <1>10 DEF on_timeout
  <2>2. Covered(cl)
    BY <2>1, CoverPre, StoppedCovered
  <2> QED
    BY <1>0, <2>1, <2>2, HandleCovers
<1>11. ASSUME NEW c \in Clients, NEW h \in Handles, Closed(c, h) PROVE CoverInv'
  <2>1. Handle(c, close_cb(client[c], h)) /\ client[c].handle[h] = "closing"
    BY <1>11 DEF Closed
  <2> QED
    BY <1>0, <2>1, CoverPre, CloseCbCovered, HandleCovers
<1> QED
  BY <1>1, <1>2, <1>3, <1>4, <1>5, <1>6, <1>7, <1>8, <1>9, <1>10, <1>11 DEF Next
-----------------------------------------------------------------------------
LEMMA CoverInit == Init => CoverInv
<1>1. ASSUME Init PROVE \A c \in Clients : Covered(client[c])
  <2>1. Covered(Unused)
    BY DEF Covered, Serving, Typed, Unused, ClientRec, Handles, Sockets, HandleStatus,
           DnsServers, FaultKinds
  <2> QED
    BY <1>1, <2>1 DEF Init
<1> QED
  BY <1>1, InitSound DEF CoverInv

(* The invariant holds of every behaviour of the connections.              *)
THEOREM CoverInvariance == Spec => []CoverInv
BY CoverInit, StepCovers, PTL DEF Spec

(* close_cb closes the timer with the last socket, neither before nor      *)
(* after, whatever calls fail.                                             *)
THEOREM TimerAlwaysCovers == Spec => []TimerCoversSockets
<1>1. CoverInv => TimerCoversSockets
  BY DEF CoverInv, Covered, TimerCoversSockets
<1> QED
  BY <1>1, CoverInvariance, PTL

(* Whatever is up has its timer still to come, whatever calls fail.        *)
THEOREM UpAlwaysArmed == Spec => []UpMeansArmed
<1>1. CoverInv => UpMeansArmed
  BY DEF CoverInv, Covered, UpMeansArmed
<1> QED
  BY <1>1, CoverInvariance, PTL

-----------------------------------------------------------------------------
(* What the operators do to the sides of a connection.                     *)
LEMMA UnrefSides ==
    ASSUME NEW cl, Typed(cl)
    PROVE  SameSides(cl, unref_client(cl))
<1> DEFINE dropped == [cl EXCEPT !.ref_count = @ - 1]
           freed   == [dropped EXCEPT !.mem = "freed"]
<1>1. Typed(dropped) /\ SameSides(cl, dropped)
  BY DEF Typed, ClientRec, SameSides
<1>2. Typed(freed) /\ SameSides(cl, freed)
  <2> HIDE DEF dropped
  <2> QED
    BY <1>1 DEF Typed, ClientRec, SameSides
<1>3. unref_client(cl) \in {Fail(cl, "use_after_free"), dropped, Fail(freed, FreeFault(cl))}
  BY DEF unref_client
<1>4. ASSUME NEW x, Typed(x), NEW kind PROVE SameSides(x, Fail(x, kind))
  BY <1>4 DEF Fail, Typed, ClientRec, SameSides
<1> HIDE DEF dropped, freed
<1> QED
  BY <1>1, <1>2, <1>3, <1>4 DEF SameSides

LEMMA CloseConnecting ==
    ASSUME NEW cl, Typed(cl), NEW h
    PROVE  /\ uv_close(cl, h).connecting = cl.connecting
           /\ CloseIfUp(cl, h).connecting = cl.connecting
<1>1. uv_close(cl, h).connecting = cl.connecting
  <2>1. uv_close(cl, h) \in {Fail(cl, "use_after_free"), Fail(cl, "double_close"),
                            [cl EXCEPT !.handle[h] = "closing"]}
    BY DEF uv_close
  <2> QED
    BY <2>1 DEF Fail, Typed, ClientRec
<1> QED
  BY <1>1 DEF CloseIfUp

LEMMA CloseCbConnecting ==
    ASSUME NEW cl, Typed(cl), NEW h \in Handles
    PROVE  close_cb(cl, h).connecting = cl.connecting
<1> DEFINE closed  == [cl EXCEPT !.handle[h] = "closed", !.data = @ \ {h}]
           stopped == [closed EXCEPT !.armed = FALSE]
           noTimer == IF SocketsGone(closed) THEN uv_close(stopped, "timeout_timer") ELSE closed
<1>1. CASE h \notin cl.data
  BY <1>1 DEF close_cb, Fail, Typed, ClientRec
<1>2. CASE h \in cl.data
  <2>1. close_cb(cl, h) = unref_client(noTimer)
    BY <1>2 DEF close_cb
  <2>2. Typed(closed) /\ closed.connecting = cl.connecting
    BY DEF Typed, ClientRec, Handles, Sockets, HandleStatus
  <2> HIDE DEF closed
  <2>3. Typed(stopped) /\ stopped.connecting = cl.connecting
    BY <2>2 DEF Typed, ClientRec
  <2> HIDE DEF stopped
  <2>4. Typed(uv_close(stopped, "timeout_timer"))
    <3>1. uv_close(stopped, "timeout_timer") \in
              {Fail(stopped, "use_after_free"), Fail(stopped, "double_close"),
               [stopped EXCEPT !.handle["timeout_timer"] = "closing"]}
      BY DEF uv_close
    <3>2. Typed(Fail(stopped, "use_after_free")) /\ Typed(Fail(stopped, "double_close"))
      BY <2>3, FailCovered DEF Covered, FaultKinds
    <3>3. Typed([stopped EXCEPT !.handle["timeout_timer"] = "closing"])
      BY <2>3 DEF Typed, ClientRec, Handles, HandleStatus
    <3> QED
      BY <3>1, <3>2, <3>3
  <2>5. Typed(noTimer) /\ noTimer.connecting = cl.connecting
    BY <2>2, <2>3, <2>4, CloseConnecting
  <2> QED
    BY <2>1, <2>5, UnrefSides DEF SameSides
<1> QED
  BY <1>1, <1>2

(* A connect that was not started leaves connecting, one that was leaves   *)
(* the client up.                                                          *)
LEMMA ConnectOnTime ==
    ASSUME NEW cl, Typed(cl), NEW started \in BOOLEAN
    PROVE  LET new == ConnectTargetServer(cl, started)
           IN  /\ ~started => new.connecting = cl.connecting
               /\ Serving(cl, "proxyClient") => Serving(new, "proxyClient")
<1> DEFINE inited == uv_init(cl, "targetClient")
           up     == [inited EXCEPT !.data = @ \cup {"targetClient"}, !.connecting = TRUE]
<1>1. ConnectTargetServer(cl, started) = IF started THEN up ELSE inited
  BY DEF ConnectTargetServer
<1>2. inited \in {[cl EXCEPT !.handle["targetClient"] = "open"], Fail(cl, "reinit")}
  BY DEF uv_init
<1>3. /\ Typed(inited) /\ inited.connecting = cl.connecting /\ inited.data = cl.data
      /\ inited.handle["proxyClient"] = cl.handle["proxyClient"]
  <2>1. CASE inited = [cl EXCEPT !.handle["targetClient"] = "open"]
    <3> HIDE DEF inited
    <3> QED
      BY <2>1 DEF Typed, ClientRec, Handles, Sockets, HandleStatus
  <2>2. CASE inited = Fail(cl, "reinit")
    <3> HIDE DEF inited
    <3> QED
      BY <2>2 DEF Fail, Typed, ClientRec, FaultKinds
  <2> QED
    BY <1>2, <2>1, <2>2
<1> HIDE DEF inited
<1>4. up.data = inited.data \cup {"targetClient"} /\ up.handle = inited.handle
  BY <1>3 DEF Typed, ClientRec
<1> QED
  BY <1>1, <1>3, <1>4 DEF Serving

LEMMA GiveUpConnecting ==
    ASSUME NEW cl, Covered(cl)
    PROVE  GiveUp(cl).connecting = cl.connecting
<1>1. Typed(uv_close(cl, "proxyClient"))
  BY CloseCovered DEF Covered, Sockets
<1> QED
  BY <1>1, CloseConnecting, UnrefSides DEF GiveUp, SameSides, Covered

LEMMA OnDnsOnTime ==
    ASSUME NEW cl, NEW server, NEW status, NEW connectOk \in BOOLEAN, NEW queryOk,
           Covered(cl), cl.fault = "none",
           IsUp(cl, "proxyClient") => cl.handle["proxyClient"] # "none"
    PROVE  OnTime(cl, on_dns(cl, server, status, connectOk, queryOk))
<1> DEFINE connected == ConnectTargetServer(ref_client(cl), connectOk)
           final     == on_dns(cl, server, status, connectOk, queryOk)
<1>0. Typed(cl)
  BY DEF Covered
<1>1. CASE ~IsUp(cl, "proxyClient")
  BY <1>0, <1>1, UnrefSides DEF on_dns, SameSides, OnTime
<1>2. CASE IsUp(cl, "proxyClient") /\ status = 1
  <2>1. SameSides(cl, ref_client(cl)) /\ Covered(ref_client(cl)) /\ Typed(ref_client(cl))
            /\ ref_client(cl).fault = "none"
    BY <1>0, RefCovered DEF ref_client, Typed, ClientRec, SameSides, Covered
  <2>2. Serving(cl, "proxyClient") /\ Serving(ref_client(cl), "proxyClient")
    BY <1>0, <1>2, <2>1 DEF IsUp, uv_is_closing, Serving, SameSides, Typed, ClientRec,
                            Handles, Sockets, HandleStatus
  <2>3. Covered(connected) /\ Serving(connected, "proxyClient")
            /\ (~connectOk => connected.connecting = cl.connecting)
    BY <2>1, <2>2, ConnectCovered, ConnectOnTime DEF SameSides
  <2> HIDE DEF connected
  <2>4. CASE connectOk
    <3> DEFINE up == [connected EXCEPT !.state = 1]
    <3>1. Typed(up) /\ up.handle = connected.handle /\ up.data = connected.data
      BY <2>3 DEF Covered, Typed, ClientRec
    <3>2. final = unref_client(up)
      BY <1>2, <2>4 DEF on_dns, connected
    <3> HIDE DEF up
    <3>3. Serving(final, "proxyClient")
      BY <2>3, <3>1, <3>2, UnrefSides DEF SameSides, Serving
    <3> QED
      BY <2>2, <3>3 DEF OnTime
  <2>5. CASE ~connectOk
    <3>1. final = GiveUp(connected)
      BY <1>2, <2>5 DEF on_dns, connected
    <3>2. final.connecting = cl.connecting
      BY <2>3, <2>5, <3>1, GiveUpConnecting
    <3> QED
      BY <3>2 DEF OnTime
  <2> QED
    BY <2>4, <2>5
<1>3. CASE IsUp(cl, "proxyClient") /\ status # 1
  <2>1. final \in {send_dns_query(cl, "dns_2"), GiveUp(cl)}
    BY <1>3 DEF on_dns
  <2>2. send_dns_query(cl, "dns_2").connecting = cl.connecting
    BY <1>0 DEF send_dns_query, Typed, ClientRec
  <2> QED
    BY <2>1, <2>2, GiveUpConnecting DEF OnTime
<1> QED
  BY <1>1, <1>2, <1>3

LEMMA AcceptedConnecting ==
    ASSUME NEW readOk
    PROVE  ~Accepted(readOk).connecting /\ ~NotAccepted.connecting
<1> DEFINE ready == IF TimeOut # 0 THEN TimedClient ELSE AcceptedClient
<1>1. Typed(ready) /\ ~ready.connecting
  BY AcceptedFields, TimedFields
<1>2. NotAccepted = uv_close(NewClient, "proxyClient")
  BY DEF NotAccepted, NewClient
<1>3. ~NotAccepted.connecting
  BY <1>2, NewClientFields, CloseConnecting
<1> QED
  BY <1>1, <1>3, AcceptedIsOne, CloseConnecting

(* No callback connects a target for a client that is gone, or closes the  *)
(* client it connects a target for.                                        *)
LEMMA StepOnTime ==
    CoverInv /\ [Next]_vars => \A c \in Clients : OnTime(client[c], client'[c])
<1> SUFFICES ASSUME CoverInv, [Next]_vars PROVE \A c \in Clients : OnTime(client[c], client'[c])
  OBVIOUS
<1> DEFINE Goal == \A c \in Clients : OnTime(client[c], client'[c])
<1>0. ASSUME NEW c \in Clients, NEW cl, Handle(c, cl), OnTime(client[c], cl) PROVE Goal
  BY <1>0 DEF Handle, OnTime, CoverInv, IInv
<1>a. ASSUME NEW c \in Clients, NEW cl, Handle(c, cl), ~cl.connecting \/ client[c].connecting PROVE Goal
  BY <1>0, <1>a DEF OnTime
<1>b. \A cl : \A h \in Sockets : Covered(cl) =>
          /\ Covered(uv_close(cl, h)) /\ uv_close(cl, h).connecting = cl.connecting
          /\ Covered(CloseIfUp(cl, h)) /\ CloseIfUp(cl, h).connecting = cl.connecting
  BY CloseCovered, CloseIfUpCovered, CloseConnecting DEF Covered
<1>c. ASSUME NEW c \in Clients, NEW cl, Handle(c, cl),
             cl.connecting = client[c].connecting
      PROVE  Goal
  BY <1>0, <1>c DEF OnTime
<1> HIDE DEF Goal
<1>1. CASE UNCHANGED vars
  BY <1>1 DEF vars, OnTime, Goal
<1>2. ASSUME NEW c \in Clients, on_new_connection(c) PROVE Goal
  <2>1. PICK cl : ~cl.connecting /\ client' = [client EXCEPT ![c] = cl]
    BY <1>2, AcceptedConnecting DEF on_new_connection
  <2> QED
    BY <2>1 DEF OnTime, Goal, CoverInv, IInv
<1>3. ASSUME NEW c \in Clients, read_data_end(c) PROVE Goal
  <2>1. Handle(c, CloseIfUp(uv_close(client[c], "proxyClient"), "targetClient"))
    BY <1>3 DEF read_data_end
  <2> QED
    BY <1>b, <1>c, <2>1, CoverPre DEF Sockets
<1>4. ASSUME NEW c \in Clients, read_data_rejected(c) PROVE Goal
  <2>1. Handle(c, uv_close(client[c], "proxyClient"))
    BY <1>4 DEF read_data_rejected
  <2> QED
    BY <1>b, <1>c, <2>1, CoverPre DEF Sockets
<1>5. ASSUME NEW c \in Clients, read_data_address(c) PROVE Goal
  <2> DEFINE connected(ok) == ConnectTargetServer(Requested(client[c]), ok)
             up(ok)        == [connected(ok) EXCEPT !.state = 1]
  <2>1. PICK connectOk \in BOOLEAN :
            Handle(c, IF connectOk THEN up(connectOk) ELSE unref_client(connected(connectOk)))
    BY <1>5, OutcomesBoolean DEF read_data_address
  <2>2. Covered(client[c]) /\ Serving(client[c], "proxyClient")
    BY <1>5, <2>1, CoverPre DEF read_data_address, FirstRequest, Readable, Serving, Live
  <2>3. /\ Covered(Requested(client[c])) /\ Serving(Requested(client[c]), "proxyClient")
        /\ Requested(client[c]).connecting = client[c].connecting
    BY <2>2, RequestedCovered DEF Serving
  <2>4. /\ Covered(connected(connectOk)) /\ Serving(connected(connectOk), "proxyClient")
        /\ ~connectOk => connected(connectOk).connecting = client[c].connecting
    BY <2>3, ConnectCovered, ConnectOnTime DEF Covered
  <2> HIDE DEF connected
  <2>5. CASE connectOk
    <3>1. Serving(up(connectOk), "proxyClient")
      BY <2>4 DEF Serving, Covered, Typed, ClientRec
    <3> QED
      BY <1>0, <2>1, <2>2, <2>5, <3>1 DEF OnTime
  <2>6. CASE ~connectOk
    <3>1. unref_client(connected(connectOk)).connecting = client[c].connecting
      BY <2>4, <2>6, UnrefSides DEF SameSides, Covered
    <3> QED
      BY <1>c, <2>1, <2>6, <3>1
  <2> QED
    BY <2>5, <2>6
<1>6. ASSUME NEW c \in Clients, read_data_name(c) PROVE Goal
  <2> DEFINE requested == Requested(client[c])
             refused   == uv_close(unref_client(requested), "proxyClient")
             resolved(ok) == on_dns(requested, "none", 1, ok, TRUE)
             asked     == send_dns_query(requested, "dns_1")
  <2>1. PICK queryOk \in Outcomes("query"), connectOk \in Outcomes("connect") :
            Handle(c, CASE ~queryOk -> refused
                        [] queryOk /\ Dns = {} -> resolved(connectOk)
                        [] OTHER -> asked)
    BY <1>6, Zenon DEF read_data_name, Resolve, send_default_dns
  <2>2. Covered(client[c]) /\ client[c].handle["proxyClient"] = "open"
    BY <1>6, <2>1, CoverPre DEF read_data_name, Resolve, FirstRequest, Readable
  <2>3. /\ Covered(requested) /\ requested.handle = client[c].handle
        /\ requested.data = client[c].data /\ requested.fault = "none"
        /\ requested.connecting = client[c].connecting
    BY <2>1, <2>2, CoverPre, RequestedCovered
  <2> HIDE DEF requested
  <2>4. refused.connecting = client[c].connecting
    BY <2>3, UnrefCovered, UnrefSides, CloseConnecting DEF SameSides, Covered
  <2>5. OnTime(client[c], resolved(connectOk))
    <3>1. OnTime(requested, resolved(connectOk))
      BY <2>2, <2>3, OnDnsOnTime, OutcomesBoolean
    <3> QED
      BY <2>3, <3>1 DEF OnTime, Serving
  <2>6. asked.connecting = client[c].connecting
    BY <2>3 DEF send_dns_query, Covered, Typed, ClientRec
  <2>7. OnTime(client[c], refused) /\ OnTime(client[c], asked)
    <3> HIDE DEF refused, asked
    <3> QED
      BY <2>4, <2>6 DEF OnTime
  <2>8. OnTime(client[c], CASE ~queryOk -> refused
                            [] queryOk /\ Dns = {} -> resolved(connectOk)
                            [] OTHER -> asked)
    <3> HIDE DEF refused, resolved, asked
    <3> QED
      BY <2>5, <2>7
  <2> QED
    BY <1>0, <2>1, <2>8
<1>7. ASSUME NEW c \in Clients, NEW s \in DnsServers, DnsAnswer(c, s) PROVE Goal
  <2> DEFINE answered == [client[c] EXCEPT !.dns[s] = @ - 1]
  <2>1. PICK status \in {1, -1, -2}, connectOk \in BOOLEAN, queryOk \in BOOLEAN :
            Handle(c, on_dns(answered, s, status, connectOk, queryOk))
    BY <1>7, OutcomesBoolean DEF DnsAnswer, DnsReply
  <2>2. Covered(answered) /\ SameSides(client[c], answered) /\ answered.fault = "none"
    <3>1. Covered(answered)
      BY <1>7, <2>1, CoverPre, OthersCovered DEF DnsAnswer, DnsReply
    <3>2. SameSides(client[c], answered) /\ answered.fault = "none"
      BY <2>1, CoverPre DEF Covered, Typed, ClientRec, SameSides
    <3> QED
      BY <3>1, <3>2
  <2> HIDE DEF answered
  <2>3. IsUp(answered, "proxyClient") => answered.handle["proxyClient"] # "none"
    BY <2>1, <2>2, CoverPre DEF IsUp, Live, SameSides
  <2>4. OnTime(answered, on_dns(answered, s, status, connectOk, queryOk))
    BY <2>2, <2>3, OnDnsOnTime
  <2>5. OnTime(client[c], on_dns(answered, s, status, connectOk, queryOk))
    BY <2>2, <2>4 DEF OnTime, SameSides, Serving
  <2> QED
    BY <1>0, <2>1, <2>5
<1>8. ASSUME NEW c \in Clients, on_connect_porxy(c) PROVE Goal
  <2> DEFINE done == [client[c] EXCEPT !.connecting = FALSE]
  <2>1. PICK cl \in {done, CloseIfUp(CloseIfUp(done, "targetClient"), "proxyClient")} : Handle(c, cl)
    BY <1>8 DEF on_connect_porxy
  <2>2. Covered(client[c])
    BY <2>1, CoverPre
  <2>3. Covered(done)
    BY <2>2, OthersCovered
  <2>4. ~done.connecting
    BY <2>2 DEF Covered, Typed, ClientRec
  <2> HIDE DEF done
  <2>5. ~cl.connecting
    BY <1>b, <2>1, <2>3, <2>4 DEF Sockets
  <2> QED
    BY <1>a, <2>1, <2>5
<1>9. ASSUME NEW c \in Clients, read_data_porxy_end(c) PROVE Goal
  <2>1. Handle(c, CloseIfUp(uv_close(client[c], "targetClient"), "proxyClient"))
    BY <1>9 DEF read_data_porxy_end
  <2> QED
    BY <1>b, <1>c, <2>1, CoverPre DEF Sockets
<1>10. ASSUME NEW c \in Clients, on_timeout(c) PROVE Goal
  <2> DEFINE stopped == [client[c] EXCEPT !.armed = FALSE]
             one     == CloseIfUp(stopped, "proxyClient")
  <2>1. Handle(c, CloseIfUp(one, "targetClient"))
    BY <1>10 DEF on_timeout
  <2>2. Typed(stopped) /\ stopped.connecting = client[c].connecting
    BY <2>1, CoverPre DEF Covered, Typed, ClientRec
  <2> HIDE DEF stopped
  <2>3. Typed(one)
    <3>1. one \in {stopped, Fail(stopped, "use_after_free"), Fail(stopped, "double_close"),
                   [stopped EXCEPT !.handle["proxyClient"] = "closing"]}
      BY DEF CloseIfUp, uv_close
    <3>2. Typed(Fail(stopped, "use_after_free")) /\ Typed(Fail(stopped, "double_close"))
      BY <2>2, FailCovered DEF Covered, FaultKinds
    <3>3. Typed([stopped EXCEPT !.handle["proxyClient"] = "closing"])
      BY <2>2 DEF Typed, ClientRec, Handles, Sockets, HandleStatus
    <3> QED
      BY <2>2, <3>1, <3>2, <3>3
  <2> QED
    BY <1>c, <2>1, <2>2, <2>3, CloseConnecting
<1>11. ASSUME NEW c \in Clients, NEW h \in Handles, Closed(c, h) PROVE Goal
  <2>1. Handle(c, close_cb(client[c], h))
    BY <1>11 DEF Closed
  <2> QED
    BY <1>c, <2>1, CoverPre, CloseCbConnecting DEF Covered
<1> QED
  BY <1>1, <1>2, <1>3, <1>4, <1>5, <1>6, <1>7, <1>8, <1>9, <1>10, <1>11 DEF Next, Goal

(* An answer, or a request, that finds the client gone connects no target, *)
(* whatever calls fail and however late it is.                             *)
THEOREM NeverLateConnect == Spec => NoLateConnect
<1>1. CoverInv /\ [Next]_vars =>
          [\A c \in Clients :
              client'[c].connecting /\ ~client[c].connecting
                  => Serving(client[c], "proxyClient") /\ Serving(client'[c], "proxyClient")]_vars
  BY StepOnTime DEF OnTime
<1> QED
  BY <1>1, CoverInvariance, PTL DEF Spec, NoLateConnect

-----------------------------------------------------------------------------
(* The exact count.                                                        *)

NoKnownFault == Mishaps \cap {"accept", "connect", "early_data"} = {}

(* A struct between two calls of a handler that holds k references.        *)
Exact(cl, k) ==
    /\ Typed(cl)
    /\ cl.mem = "live"
    /\ cl.fault = "none"
    /\ cl.ref_count = Uses(cl) + k
    /\ \A h \in Handles : h \in cl.data <=> cl.handle[h] \in {"open", "closing"}
    /\ cl.connecting => "targetClient" \in cl.data
    /\ cl.handle["timeout_timer"] = "closing" => Sockets \cap cl.data = {}

(* One request is served, and it has one use: a DNS request in flight, or  *)
(* the target it led to.                                                   *)
OneUse(cl) ==
    /\ cl.host = FALSE => InFlight(cl) = 0 /\ cl.handle["targetClient"] = "none"
    /\ InFlight(cl) # 0 => InFlight(cl) = 1 /\ cl.handle["targetClient"] = "none"

Together(cl) ==
    /\ cl.handle["proxyClient"] \in {"closing", "closed"} => cl.handle["targetClient"] # "open"
    /\ cl.handle["targetClient"] \in {"closing", "closed"} => cl.handle["proxyClient"] # "open"

Busy(cl) == Exact(cl, 0) /\ Uses(cl) > 0 /\ OneUse(cl) /\ Together(cl)

Freed(cl) == cl.mem = "freed" /\ cl.fault = "none" /\ Uses(cl) = 0 /\ ~Listed(cl)

Served == {c \in Clients : Uses(client[c]) > 0}

ExactInv ==
    /\ IInv
    /\ \A c \in Clients : client[c] = Unused \/ Busy(client[c]) \/ Freed(client[c])
    /\ IsFiniteSet(Served)
    /\ client_count = Cardinality(Served)

-----------------------------------------------------------------------------
(* The operators of Global.c, one by one: what they leave of the count and *)
(* what they change besides.                                               *)
SameBut(r, cl) == r.host = cl.host /\ r.dns = cl.dns /\ r.handle = cl.handle

LEMMA RefExact ==
    ASSUME NEW cl, NEW k \in Nat, Exact(cl, k)
    PROVE  Exact(ref_client(cl), k + 1) /\ SameBut(ref_client(cl), cl)
<1> DEFINE r == ref_client(cl)
<1>1. Typed(r) /\ Typed(cl)
  BY DEF Exact, Typed, ClientRec, ref_client
<1>2. /\ SameBut(r, cl) /\ r.data = cl.data /\ r.mem = cl.mem /\ r.fault = cl.fault
      /\ r.connecting = cl.connecting /\ r.ref_count = cl.ref_count + 1
  BY <1>1 DEF SameBut, Typed, ClientRec, ref_client
<1>3. Uses(r) = Uses(cl) /\ Uses(cl) \in Nat
  BY <1>1, <1>2, UsesNat DEF SameBut, Uses, InFlight
<1> QED
  BY <1>1, <1>2, <1>3 DEF Exact, SameBut

LEMMA ProxyIsHandle == "proxyClient" \in Handles /\ "proxyClient" # "timeout_timer"
BY DEF Handles, Sockets

LEMMA CloseExact ==
    ASSUME NEW cl, NEW k \in Nat, NEW h \in Handles, Exact(cl, k), cl.handle[h] = "open",
           h = "timeout_timer" => Sockets \cap cl.data = {}
    PROVE  LET r == uv_close(cl, h)
           IN  /\ Exact(r, k) /\ Uses(r) = Uses(cl)
               /\ r.host = cl.host /\ r.dns = cl.dns
               /\ r.handle = [cl.handle EXCEPT ![h] = "closing"]
<1> DEFINE r == uv_close(cl, h)
<1>1. r = [cl EXCEPT !.handle[h] = "closing"]
  BY DEF Exact, uv_close
<1>2. Typed(r) /\ Typed(cl)
  BY <1>1 DEF Exact, Typed, ClientRec, HandleStatus
<1>3. /\ r.host = cl.host /\ r.dns = cl.dns /\ r.data = cl.data /\ r.mem = cl.mem
      /\ r.fault = cl.fault /\ r.connecting = cl.connecting /\ r.ref_count = cl.ref_count
      /\ r.handle = [cl.handle EXCEPT ![h] = "closing"]
  BY <1>1, <1>2 DEF Typed, ClientRec
<1>4. Uses(r) = Uses(cl)
  BY <1>2, <1>3 DEF Uses, One, InFlight, Typed, ClientRec, Handles, Sockets
<1>5. Exact(r, k)
  BY <1>2, <1>3, <1>4 DEF Exact, Typed, ClientRec, Handles, Sockets
<1> QED
  BY <1>3, <1>4, <1>5

LEMMA CloseIfUpExact ==
    ASSUME NEW cl, NEW k \in Nat, NEW h \in Sockets, Exact(cl, k)
    PROVE  LET r == CloseIfUp(cl, h)
           IN  /\ Exact(r, k) /\ Uses(r) = Uses(cl)
               /\ r.host = cl.host /\ r.dns = cl.dns
               /\ r.handle = IF cl.handle[h] = "open" THEN [cl.handle EXCEPT ![h] = "closing"]
                                                      ELSE cl.handle
<1>1. h \in Handles /\ h # "timeout_timer"
  BY DEF Handles, Sockets
<1>2. IsUp(cl, h) <=> cl.handle[h] = "open"
  BY <1>1 DEF IsUp, uv_is_closing, Exact
<1> QED
  BY <1>1, <1>2, CloseExact DEF CloseIfUp

LEMMA UnrefExact ==
    ASSUME NEW cl, Exact(cl, 1)
    PROVE  /\ Uses(cl) > 0 => /\ Exact(unref_client(cl), 0)
                              /\ Uses(unref_client(cl)) = Uses(cl)
                              /\ SameBut(unref_client(cl), cl)
           /\ Uses(cl) = 0 => Freed(unref_client(cl))
<1> DEFINE dropped == [cl EXCEPT !.ref_count = @ - 1]
           freed   == [dropped EXCEPT !.mem = "freed"]
<1>1. Typed(cl) /\ Typed(dropped)
  BY DEF Exact, Typed, ClientRec
<1>2. /\ SameBut(dropped, cl) /\ dropped.data = cl.data /\ dropped.mem = cl.mem /\ dropped.fault = cl.fault
      /\ dropped.connecting = cl.connecting /\ dropped.ref_count = cl.ref_count - 1
  BY <1>1 DEF SameBut, Typed, ClientRec
<1>3. Uses(dropped) = Uses(cl) /\ Uses(cl) \in Nat /\ cl.ref_count = Uses(cl) + 1
  BY <1>1, <1>2, UsesNat DEF SameBut, Uses, InFlight, Exact
<1>4. CASE Uses(cl) > 0
  <2>1. unref_client(cl) = dropped
    BY <1>2, <1>3, <1>4 DEF unref_client, Exact
  <2> QED
    BY <1>1, <1>2, <1>3, <1>4, <2>1 DEF Exact, SameBut
<1>5. CASE Uses(cl) = 0
  <2>1. ~Awaited(cl) /\ ~Listed(cl)
    <3>1. /\ cl.handle["proxyClient"] \notin {"open", "closing"}
          /\ "targetClient" \notin cl.data
          /\ cl.handle["timeout_timer"] \notin {"open", "closing"}
          /\ InFlight(cl) = 0
      BY <1>1, <1>5, UsesNat
    <3>2. \A h \in Handles : cl.handle[h] \notin {"open", "closing"}
      BY <3>1 DEF Exact, Handles, Sockets
    <3>3. cl.data \subseteq Handles
      BY <1>1 DEF Typed, ClientRec
    <3> QED
      BY <3>1, <3>2, <3>3 DEF Awaited, Listed, Exact
  <2>2. FreeFault(cl) = "none"
    BY <2>1 DEF FreeFault
  <2>3. unref_client(cl) = [freed EXCEPT !.fault = "none"]
    BY <1>1, <1>2, <1>3, <1>5, <2>2 DEF unref_client, Fail, Exact, Typed, ClientRec
  <2>4. /\ Typed(freed) /\ freed.mem = "freed" /\ SameBut(freed, cl) /\ freed.data = cl.data
    <3> HIDE DEF dropped
    <3> QED
      BY <1>1, <1>2 DEF Typed, ClientRec, SameBut
  <2>5. /\ unref_client(cl).mem = "freed" /\ unref_client(cl).fault = "none"
        /\ SameBut(unref_client(cl), cl) /\ unref_client(cl).data = cl.data
    <3> HIDE DEF freed
    <3> QED
      BY <2>3, <2>4 DEF Typed, ClientRec, SameBut
  <2> QED
    BY <1>3, <1>5, <2>1, <2>5 DEF Freed, Uses, InFlight, SameBut, Listed
<1> QED
  BY <1>3, <1>4, <1>5

-----------------------------------------------------------------------------
(* The calls Main.c and PorxyClient.c make on a struct.                    *)
LEMMA AcceptedExact ==
    ASSUME NEW readOk \in BOOLEAN
    PROVE  Busy(Accepted(readOk))
<1> DEFINE ready == IF TimeOut # 0 THEN TimedClient ELSE AcceptedClient
           down  == uv_close(ready, "proxyClient")
<1>1. Exact(AcceptedClient, 0) /\ Exact(TimedClient, 0)
  BY AcceptedFields, TimedFields DEF Exact, Handles, Sockets
<1>2. /\ Exact(ready, 0) /\ Uses(ready) > 0 /\ InFlight(ready) = 0
      /\ ready.handle["proxyClient"] = "open" /\ ready.handle["targetClient"] = "none"
      /\ ready.handle \in [Handles -> HandleStatus]
  BY <1>1, AcceptedFields, TimedFields DEF InFlight, Handles, Sockets, DnsServers, HandleStatus
<1>3. Busy(ready)
  BY <1>2 DEF Busy, OneUse, Together
<1>4. /\ Exact(down, 0) /\ Uses(down) = Uses(ready) /\ down.dns = ready.dns
      /\ down.handle = [ready.handle EXCEPT !["proxyClient"] = "closing"]
      /\ down.host = ready.host
  <2> HIDE DEF ready
  <2> QED
    BY <1>2, ProxyIsHandle, CloseExact
<1>5. Busy(down)
  <2> HIDE DEF ready, down
  <2> QED
    BY <1>2, <1>4 DEF Busy, OneUse, Together, InFlight, Handles, Sockets
<1> QED
  BY <1>3, <1>5, AcceptedIsOne

LEMMA ConnectExact ==
    ASSUME NEW cl, NEW k \in Nat, Exact(cl, k + 1), cl.handle["targetClient"] = "none",
           cl.handle["proxyClient"] = "open"
    PROVE  LET r == [ConnectTargetServer(cl, TRUE) EXCEPT !.state = 1]
           IN  /\ Exact(r, k) /\ Uses(r) > 0 /\ r.host = cl.host /\ r.dns = cl.dns
               /\ r.handle = [cl.handle EXCEPT !["targetClient"] = "open"]
<1> DEFINE inited == [cl EXCEPT !.handle["targetClient"] = "open"]
           up     == [inited EXCEPT !.data = @ \cup {"targetClient"}, !.connecting = TRUE]
           r      == [up EXCEPT !.state = 1]
<1>1. ConnectTargetServer(cl, TRUE) = up
  BY DEF ConnectTargetServer, uv_init
<1>2. Typed(cl) /\ Typed(inited)
  BY DEF Exact, Typed, ClientRec, HandleStatus
<1>3. /\ Typed(up) /\ up.mem = cl.mem /\ up.fault = cl.fault /\ up.host = cl.host
      /\ up.dns = cl.dns /\ up.ref_count = cl.ref_count /\ up.connecting = TRUE
      /\ up.data = cl.data \cup {"targetClient"}
      /\ up.handle = [cl.handle EXCEPT !["targetClient"] = "open"]
  BY <1>2 DEF Typed, ClientRec, Handles, Sockets
<1>4. /\ Typed(r) /\ r.mem = cl.mem /\ r.fault = cl.fault /\ r.host = cl.host
      /\ r.dns = cl.dns /\ r.ref_count = cl.ref_count /\ r.connecting = TRUE
      /\ r.data = cl.data \cup {"targetClient"}
      /\ r.handle = [cl.handle EXCEPT !["targetClient"] = "open"]
  <2> HIDE DEF up
  <2> QED
    BY <1>3 DEF Typed, ClientRec
<1> HIDE DEF r
<1>5. "targetClient" \notin cl.data /\ cl.handle \in [Handles -> HandleStatus]
  BY <1>2 DEF Exact, Handles, Sockets, Typed, ClientRec
<1>6. Uses(r) = Uses(cl) + 1 /\ Uses(cl) \in Nat
  BY <1>2, <1>4, <1>5, UsesNat DEF Uses, One, InFlight, Handles, Sockets
<1>7. cl.handle["timeout_timer"] # "closing"
  <2>1. "proxyClient" \in cl.data
    BY DEF Exact, Handles, Sockets
  <2> QED
    BY <2>1 DEF Exact, Sockets
<1>8. Exact(r, k)
  BY <1>4, <1>5, <1>6, <1>7 DEF Exact, Handles, Sockets, Typed, ClientRec
<1>9. [ConnectTargetServer(cl, TRUE) EXCEPT !.state = 1] = r
  BY <1>1 DEF r
<1>10. Uses(r) > 0
  BY <1>6
<1> QED
  BY <1>4, <1>8, <1>9, <1>10

LEMMA AskExact ==
    ASSUME NEW cl, NEW server \in DnsServers, Exact(cl, 1)
    PROVE  LET r == send_dns_query(cl, server)
           IN  /\ Exact(r, 0) /\ Uses(r) > 0 /\ r.host = cl.host /\ r.handle = cl.handle
               /\ InFlight(r) = InFlight(cl) + 1
<1> DEFINE r == send_dns_query(cl, server)
<1>1. Typed(cl) /\ Typed(r) /\ InFlight(r) = InFlight(cl) + 1
  BY DEF send_dns_query, Exact, Typed, ClientRec, InFlight, DnsServers
<1>2. /\ r.host = cl.host /\ r.handle = cl.handle /\ r.data = cl.data /\ r.mem = cl.mem
      /\ r.fault = cl.fault /\ r.ref_count = cl.ref_count /\ r.connecting = cl.connecting
  BY <1>1 DEF send_dns_query, Typed, ClientRec
<1>3. Uses(r) = Uses(cl) + 1 /\ Uses(cl) \in Nat
  BY <1>1, <1>2, UsesNat DEF Uses, One
<1> QED
  BY <1>1, <1>2, <1>3 DEF Exact

LEMMA GiveUpExact ==
    ASSUME NEW cl, Exact(cl, 1), OneUse(cl), cl.handle["proxyClient"] = "open",
           cl.handle["targetClient"] = "none"
    PROVE  Busy(GiveUp(cl))
<1> DEFINE down == uv_close(cl, "proxyClient")
<1>1. /\ Exact(down, 1) /\ down.host = cl.host /\ down.dns = cl.dns
      /\ down.handle = [cl.handle EXCEPT !["proxyClient"] = "closing"]
  BY ProxyIsHandle, CloseExact
<1>2. cl.handle \in [Handles -> HandleStatus] /\ Typed(down)
  BY <1>1 DEF Exact, Typed, ClientRec
<1>3. /\ down.handle["proxyClient"] = "closing" /\ down.handle["targetClient"] = "none"
  BY <1>1, <1>2 DEF Handles, Sockets
<1>4. Uses(down) > 0
  BY <1>2, <1>3, UsesNat
<1>5. Exact(GiveUp(cl), 0) /\ Uses(GiveUp(cl)) > 0 /\ SameBut(GiveUp(cl), down)
  BY <1>1, <1>4, UnrefExact DEF GiveUp
<1> QED
  BY <1>1, <1>3, <1>5 DEF Busy, OneUse, Together, SameBut, InFlight

(* on_dns, once the request is off the list: no target is there yet.       *)
LEMMA OnDnsExact ==
    ASSUME NEW cl, NEW server, NEW status, NEW queryOk, Exact(cl, 1), cl.host = TRUE,
           InFlight(cl) = 0, cl.handle["targetClient"] = "none"
    PROVE  LET r == on_dns(cl, server, status, TRUE, queryOk) IN Busy(r) \/ Freed(r)
<1> DEFINE counted   == ref_client(cl)
           connected == [ConnectTargetServer(counted, TRUE) EXCEPT !.state = 1]
           retry     == server = "dns_1" /\ "dns_2" \in Dns /\ queryOk
<1>0. cl.handle \in [Handles -> HandleStatus] /\ OneUse(cl) /\ Uses(cl) \in Nat
  BY UsesNat DEF Exact, Typed, ClientRec, OneUse
<1>1. CASE cl.handle["proxyClient"] # "open"
  <2>1. ~IsUp(cl, "proxyClient")
    BY <1>1 DEF IsUp, uv_is_closing, Exact, Handles, Sockets
  <2>2. on_dns(cl, server, status, TRUE, queryOk) = unref_client(cl)
    BY <2>1 DEF on_dns
  <2>3. Uses(cl) > 0 => Busy(unref_client(cl))
    BY <1>0, <1>1, UnrefExact DEF Busy, OneUse, Together, SameBut, InFlight
  <2>4. Uses(cl) = 0 => Freed(unref_client(cl))
    BY UnrefExact
  <2>5. Uses(cl) > 0 \/ Uses(cl) = 0
    BY <1>0
  <2> QED
    BY <2>2, <2>3, <2>4, <2>5, Zenon
<1>2. CASE cl.handle["proxyClient"] = "open"
  <2>1. IsUp(cl, "proxyClient")
    BY <1>2 DEF IsUp, uv_is_closing, Exact, Handles, Sockets
  <2>2. CASE status = 1
    <3>1. Exact(counted, 1 + 1) /\ SameBut(counted, cl)
      BY RefExact
    <3>2. /\ Exact(connected, 1) /\ Uses(connected) > 0 /\ connected.host = cl.host
          /\ connected.dns = cl.dns
          /\ connected.handle = [cl.handle EXCEPT !["targetClient"] = "open"]
      <4>1. counted.handle["proxyClient"] = "open" /\ counted.handle["targetClient"] = "none"
        BY <1>2, <3>1 DEF SameBut
      <4>2. /\ Exact(connected, 1) /\ Uses(connected) > 0 /\ connected.host = counted.host
            /\ connected.dns = counted.dns
            /\ connected.handle = [counted.handle EXCEPT !["targetClient"] = "open"]
        <5> HIDE DEF counted
        <5>1. \A k \in Nat : Exact(counted, k + 1) => Exact(connected, k)
          BY <4>1, ConnectExact
        <5>2. Exact(connected, 1)
          BY <3>1, <5>1
        <5> QED
          BY <3>1, <4>1, <5>2, ConnectExact
      <4> QED
        BY <3>1, <4>2 DEF SameBut
    <3>3. /\ Exact(unref_client(connected), 0) /\ Uses(unref_client(connected)) > 0
          /\ SameBut(unref_client(connected), connected)
      BY <3>2, UnrefExact
    <3>4. Busy(unref_client(connected))
      <4> DEFINE r == unref_client(connected)
      <4>1. /\ r.handle["proxyClient"] = "open" /\ r.handle["targetClient"] = "open"
            /\ r.host = cl.host /\ InFlight(r) = InFlight(cl)
        BY <1>0, <1>2, <3>2, <3>3 DEF SameBut, InFlight, Handles, Sockets
      <4>2. Exact(r, 0) /\ Uses(r) > 0
        BY <3>3
      <4> HIDE DEF r
      <4>3. r.host = TRUE /\ InFlight(r) = 0
        BY <4>1
      <4>4. OneUse(r) /\ Together(r)
        BY <4>1, <4>3 DEF OneUse, Together
      <4>5. Busy(r)
        BY <4>2, <4>4 DEF Busy
      <4> QED
        BY <4>5 DEF r
    <3>5. on_dns(cl, server, status, TRUE, queryOk) = unref_client(connected)
      BY <2>1, <2>2 DEF on_dns
    <3> QED
      BY <3>4, <3>5
  <2>3. CASE status # 1 /\ retry
    <3>1. on_dns(cl, server, status, TRUE, queryOk) = send_dns_query(cl, "dns_2")
      BY <2>1, <2>3 DEF on_dns
    <3>2. Busy(send_dns_query(cl, "dns_2"))
      BY <1>2, AskExact DEF Busy, OneUse, Together, DnsServers
    <3> QED
      BY <3>1, <3>2
  <2>4. CASE status # 1 /\ ~retry
    <3>1. on_dns(cl, server, status, TRUE, queryOk) = GiveUp(cl)
      BY <2>1, <2>4 DEF on_dns
    <3> QED
      BY <1>0, <1>2, <3>1, GiveUpExact
  <2> QED
    BY <2>2, <2>3, <2>4
<1> QED
  BY <1>1, <1>2

LEMMA CloseCbExact ==
    ASSUME NEW cl, NEW h \in Handles, Busy(cl), cl.handle[h] = "closing",
           h = "targetClient" => ~cl.connecting
    PROVE  Busy(close_cb(cl, h)) \/ Freed(close_cb(cl, h))
<1> DEFINE closed  == [cl EXCEPT !.handle[h] = "closed", !.data = @ \ {h}]
           stopped == [closed EXCEPT !.armed = FALSE]
           noTimer == IF SocketsGone(closed) THEN uv_close(stopped, "timeout_timer") ELSE closed
<1>1. h \in cl.data /\ Exact(cl, 0)
  BY DEF Busy, Exact
<1>2. close_cb(cl, h) = unref_client(noTimer)
  BY <1>1 DEF close_cb
<1>3. /\ Typed(cl) /\ Typed(closed) /\ closed.mem = cl.mem /\ closed.fault = cl.fault
      /\ closed.host = cl.host /\ closed.dns = cl.dns /\ closed.ref_count = cl.ref_count
      /\ closed.connecting = cl.connecting /\ closed.data = cl.data \ {h}
      /\ closed.handle = [cl.handle EXCEPT ![h] = "closed"]
      /\ cl.handle \in [Handles -> HandleStatus]
  BY <1>1 DEF Exact, Typed, ClientRec, HandleStatus
<1>4. Uses(cl) = Uses(closed) + 1 /\ Uses(closed) \in Nat
  <2>1. InFlight(closed) = InFlight(cl) /\ InFlight(cl) \in Nat /\ Uses(closed) \in Nat
    BY <1>3, UsesNat DEF InFlight
  <2> QED
    BY <1>1, <1>3, <2>1 DEF Uses, One, Handles, Sockets
<1>5. Exact(closed, 1)
  BY <1>1, <1>3, <1>4 DEF Exact, Handles, Sockets
<1>6. OneUse(closed) /\ Together(closed)
  BY <1>3 DEF Busy, OneUse, Together, InFlight, Handles, Sockets
<1>7. /\ Exact(stopped, 1) /\ stopped.host = closed.host /\ stopped.dns = closed.dns
      /\ stopped.handle = closed.handle /\ stopped.data = closed.data /\ Uses(stopped) = Uses(closed)
  <2> HIDE DEF closed
  <2> QED
    BY <1>5 DEF Exact, Typed, ClientRec, Uses, InFlight
<1> HIDE DEF closed, stopped
<1>8. SocketsGone(closed) => stopped.handle["timeout_timer"] = "open" /\ Sockets \cap stopped.data = {}
  BY <1>1, <1>3, <1>5, <1>7 DEF SocketsGone, Exact, Handles, Sockets
<1>9. /\ Exact(noTimer, 1) /\ Uses(noTimer) = Uses(closed)
      /\ noTimer.host = closed.host /\ noTimer.dns = closed.dns
      /\ \A s \in Sockets : noTimer.handle[s] = closed.handle[s]
  <2>1. CASE SocketsGone(closed)
    <3>1. /\ Exact(noTimer, 1) /\ Uses(noTimer) = Uses(stopped)
          /\ noTimer.host = stopped.host /\ noTimer.dns = stopped.dns
          /\ noTimer.handle = [stopped.handle EXCEPT !["timeout_timer"] = "closing"]
      BY <1>7, <1>8, <2>1, CloseExact DEF Handles
    <3> QED
      BY <1>3, <1>7, <3>1 DEF Handles, Sockets
  <2>2. CASE ~SocketsGone(closed)
    BY <1>5, <2>2
  <2> QED
    BY <2>1, <2>2
<1>10. OneUse(noTimer) /\ Together(noTimer)
  BY <1>6, <1>9 DEF OneUse, Together, InFlight, Sockets
<1> HIDE DEF noTimer
<1>11. Uses(noTimer) > 0 => Busy(unref_client(noTimer))
  BY <1>9, <1>10, UnrefExact DEF Busy, OneUse, Together, SameBut, InFlight
<1> QED
  BY <1>2, <1>4, <1>9, <1>11, UnrefExact

-----------------------------------------------------------------------------
(* The shape of every step: a struct is handed out, used, or freed with    *)
(* its last user.                                                          *)
Starts(c, cl) == client[c] = Unused /\ Busy(cl) /\ client_count' = client_count + 1
Goes(c, cl)   == Busy(client[c]) /\ Busy(cl) /\ client_count' = client_count
Ends(c, cl)   == Busy(client[c]) /\ Freed(cl) /\ client_count' = client_count - 1

Step(c, cl) ==
    /\ client' = [client EXCEPT ![c] = cl]
    /\ Starts(c, cl) \/ Goes(c, cl) \/ Ends(c, cl)

LEMMA HandleShape ==
    ASSUME ExactInv, NEW c \in Clients, NEW cl, Handle(c, cl), Busy(cl) \/ Freed(cl)
    PROVE  Step(c, cl)
<1>1. Busy(client[c])
  <2>1. client[c].mem = "live"
    BY DEF Handle
  <2> QED
    BY <2>1 DEF ExactInv, Unused, Freed
<1>2. CASE Busy(cl)
  <2>1. cl.mem = "live"
    BY <1>2 DEF Busy, Exact
  <2>2. client_count' = client_count /\ client' = [client EXCEPT ![c] = cl]
    BY <2>1 DEF Handle
  <2> QED
    BY <1>1, <1>2, <2>2 DEF Step, Goes
<1>3. CASE Freed(cl)
  BY <1>1, <1>3 DEF Step, Ends, Handle, Freed
<1> QED
  BY <1>2, <1>3

LEMMA OutcomesKnown ==
    ASSUME NoKnownFault
    PROVE  /\ Outcomes("connect") = {TRUE}
           /\ "accept" \notin Mishaps /\ "early_data" \notin Mishaps
BY DEF NoKnownFault, Outcomes

(* What a callback may assume of its struct, and what the handle of a      *)
(* struct is made of.                                                      *)
LEMMA BusyPre ==
    ASSUME ExactInv, NEW c \in Clients, NEW cl, Handle(c, cl)
    PROVE  /\ Busy(client[c]) /\ Exact(client[c], 0) /\ Typed(client[c])
           /\ client[c].handle \in [Handles -> HandleStatus]
<1>1. Busy(client[c])
  <2>1. client[c].mem = "live"
    BY DEF Handle
  <2> QED
    BY <2>1 DEF ExactInv, Unused, Freed
<1> QED
  BY <1>1 DEF Busy, Exact, Typed, ClientRec

(* A request makes of its struct one that holds one reference.             *)
LEMMA RequestedExact ==
    ASSUME NEW cl, Busy(cl), cl.host = FALSE, cl.handle["proxyClient"] = "open"
    PROVE  LET r == Requested(cl)
           IN  /\ Exact(r, 1) /\ Uses(r) > 0 /\ r.host = TRUE
               /\ InFlight(r) = 0 /\ r.handle = cl.handle
               /\ cl.handle["targetClient"] = "none"
<1> DEFINE hosted == [cl EXCEPT !.host = TRUE]
           r      == Requested(cl)
<1>1. Typed(cl) /\ Typed(hosted)
  BY DEF Busy, Exact, Typed, ClientRec
<1>2. /\ hosted.handle = cl.handle /\ hosted.dns = cl.dns /\ hosted.data = cl.data
      /\ hosted.mem = cl.mem /\ hosted.fault = cl.fault /\ hosted.ref_count = cl.ref_count
      /\ hosted.connecting = cl.connecting /\ hosted.host = TRUE
  BY <1>1 DEF Typed, ClientRec
<1>3. Exact(hosted, 0)
  BY <1>1, <1>2 DEF Busy, Exact, Uses, InFlight
<1>4. Exact(r, 0 + 1) /\ SameBut(r, hosted)
  <2> HIDE DEF hosted
  <2>1. r = ref_client(hosted)
    BY DEF Requested, hosted
  <2> QED
    BY <1>3, <2>1, RefExact
<1>5. Typed(r) /\ r.handle["proxyClient"] = "open"
  BY <1>2, <1>4 DEF Exact, SameBut
<1>6. Uses(r) > 0 /\ Uses(r) \in Nat
  BY <1>5, UsesNat
<1>7. InFlight(r) = InFlight(cl) /\ InFlight(cl) = 0 /\ cl.handle["targetClient"] = "none"
  BY <1>2, <1>4 DEF SameBut, InFlight, Busy, OneUse
<1> QED
  BY <1>2, <1>4, <1>6, <1>7 DEF SameBut

LEMMA StepShape ==
    ASSUME NoKnownFault, ExactInv, Next
    PROVE  \E c \in Clients : \E cl : Step(c, cl)
<1>1. ASSUME NEW c \in Clients, on_new_connection(c) PROVE \E cl : Step(c, cl)
  <2>1. client[c] = Unused
    BY <1>1 DEF on_new_connection, ExactInv, Busy, Exact, Freed
  <2>2. PICK readOk \in BOOLEAN : client' = [client EXCEPT ![c] = Accepted(readOk)]
    BY <1>1, OutcomesKnown, OutcomesBoolean DEF on_new_connection
  <2>3. client_count' = client_count + 1
    BY <1>1 DEF on_new_connection
  <2> QED
    BY <2>1, <2>2, <2>3, AcceptedExact DEF Step, Starts
<1>2. ASSUME NEW c \in Clients, read_data_end(c) PROVE \E cl : Step(c, cl)
  <2> DEFINE down == uv_close(client[c], "proxyClient")
             r    == CloseIfUp(down, "targetClient")
  <2>1. Handle(c, r) /\ client[c].handle["proxyClient"] = "open"
    BY <1>2 DEF read_data_end, Readable
  <2>2. /\ Busy(client[c]) /\ Exact(client[c], 0)
        /\ client[c].handle \in [Handles -> HandleStatus]
    BY <2>1, BusyPre
  <2>3. /\ Exact(down, 0) /\ Uses(down) = Uses(client[c])
        /\ down.host = client[c].host /\ down.dns = client[c].dns
        /\ down.handle = [client[c].handle EXCEPT !["proxyClient"] = "closing"]
    BY <2>1, <2>2, ProxyIsHandle, CloseExact
  <2>4. /\ Exact(r, 0) /\ Uses(r) = Uses(down)
        /\ r.host = down.host /\ r.dns = down.dns
        /\ r.handle = IF down.handle["targetClient"] = "open"
                      THEN [down.handle EXCEPT !["targetClient"] = "closing"] ELSE down.handle
    <3> HIDE DEF down
    <3> QED
      BY <2>3, CloseIfUpExact DEF Sockets
  <2> HIDE DEF r, down
  <2>5. Busy(r)
    BY <2>2, <2>3, <2>4 DEF Busy, OneUse, Together, InFlight, Handles, Sockets
  <2> QED
    BY <2>1, <2>5, HandleShape
<1>3. ASSUME NEW c \in Clients, read_data_rejected(c) PROVE \E cl : Step(c, cl)
  <2> DEFINE down == uv_close(client[c], "proxyClient")
  <2>1. Handle(c, down) /\ client[c].handle["proxyClient"] = "open"
    BY <1>3 DEF read_data_rejected, FirstRequest, Readable
  <2>2. /\ Busy(client[c]) /\ Exact(client[c], 0)
        /\ client[c].handle \in [Handles -> HandleStatus]
    BY <2>1, BusyPre
  <2>3. /\ Exact(down, 0) /\ Uses(down) = Uses(client[c])
        /\ down.host = client[c].host /\ down.dns = client[c].dns
        /\ down.handle = [client[c].handle EXCEPT !["proxyClient"] = "closing"]
    BY <2>1, <2>2, ProxyIsHandle, CloseExact
  <2>4. client[c].handle["targetClient"] = "none"
    <3>1. client[c].host = FALSE
      BY <1>3, <2>2, OutcomesKnown DEF read_data_rejected, FirstRequest, Exact, Typed, ClientRec
    <3> QED
      BY <2>2, <3>1 DEF Busy, OneUse
  <2> HIDE DEF down
  <2>5. Busy(down)
    BY <2>2, <2>3, <2>4 DEF Busy, OneUse, Together, InFlight, Handles, Sockets
  <2> QED
    BY <2>1, <2>5, HandleShape
<1>4. ASSUME NEW c \in Clients, read_data_address(c) PROVE \E cl : Step(c, cl)
  <2> DEFINE requested == Requested(client[c])
             r         == [ConnectTargetServer(requested, TRUE) EXCEPT !.state = 1]
  <2>0. PICK connectOk \in Outcomes("connect") :
            LET connected == ConnectTargetServer(requested, connectOk)
            IN  Handle(c, IF connectOk THEN [connected EXCEPT !.state = 1]
                                       ELSE unref_client(connected))
    BY <1>4, Zenon DEF read_data_address
  <2>1. Handle(c, r) /\ client[c].handle["proxyClient"] = "open"
    <3>1. connectOk = TRUE
      BY OutcomesKnown
    <3>2. Handle(c, r)
      BY <2>0, <3>1
    <3> QED
      BY <1>4, <3>2 DEF read_data_address, FirstRequest, Readable
  <2>2. /\ Busy(client[c]) /\ Exact(client[c], 0)
        /\ client[c].handle \in [Handles -> HandleStatus]
    BY <2>1, BusyPre
  <2>3. client[c].host = FALSE
    BY <1>4, <2>2, OutcomesKnown DEF read_data_address, FirstRequest, Exact, Typed, ClientRec
  <2>4. /\ Exact(requested, 1) /\ requested.host = TRUE
        /\ InFlight(requested) = 0 /\ requested.handle = client[c].handle
        /\ client[c].handle["targetClient"] = "none"
    BY <2>1, <2>2, <2>3, RequestedExact
  <2>5. /\ Exact(r, 0) /\ Uses(r) > 0 /\ r.host = requested.host /\ r.dns = requested.dns
        /\ r.handle = [requested.handle EXCEPT !["targetClient"] = "open"]
    <3> HIDE DEF requested
    <3>1. \A k \in Nat : Exact(requested, k + 1) =>
              /\ Exact(r, k) /\ Uses(r) > 0 /\ r.host = requested.host /\ r.dns = requested.dns
              /\ r.handle = [requested.handle EXCEPT !["targetClient"] = "open"]
      BY <2>1, <2>4, ConnectExact
    <3>2. Exact(requested, 0 + 1)
      BY <2>4
    <3> HIDE DEF r
    <3> QED
      BY <3>1, <3>2
  <2> HIDE DEF r, requested
  <2>6. Busy(r)
    BY <2>1, <2>2, <2>4, <2>5 DEF Busy, OneUse, Together, InFlight, Handles, Sockets
  <2> QED
    BY <2>1, <2>6, HandleShape
<1>5. ASSUME NEW c \in Clients, read_data_name(c) PROVE \E cl : Step(c, cl)
  <2> DEFINE requested == Requested(client[c])
             dropped   == unref_client(requested)
             refused   == uv_close(dropped, "proxyClient")
             asked     == send_dns_query(requested, "dns_1")
  <2>1. PICK queryOk \in Outcomes("query"), connectOk \in Outcomes("connect") :
            Handle(c, CASE ~queryOk -> refused
                        [] queryOk /\ Dns = {} -> on_dns(requested, "none", 1, connectOk, TRUE)
                        [] OTHER -> asked)
    BY <1>5, Zenon DEF read_data_name, Resolve, send_default_dns
  <2>2. connectOk = TRUE /\ queryOk \in BOOLEAN
    BY OutcomesKnown, OutcomesBoolean
  <2>3. client[c].handle["proxyClient"] = "open"
    BY <1>5 DEF read_data_name, Resolve, FirstRequest, Readable
  <2>4. /\ Busy(client[c]) /\ Exact(client[c], 0)
        /\ client[c].handle \in [Handles -> HandleStatus]
    BY <2>1, BusyPre
  <2>5. client[c].host = FALSE
    BY <1>5, <2>4, OutcomesKnown DEF read_data_name, Resolve, FirstRequest, Exact, Typed, ClientRec
  <2>6. /\ Exact(requested, 1) /\ Uses(requested) > 0 /\ requested.host = TRUE
        /\ InFlight(requested) = 0 /\ requested.handle = client[c].handle
        /\ client[c].handle["targetClient"] = "none"
    BY <2>3, <2>4, <2>5, RequestedExact
  <2>7. CASE ~queryOk
    <3>1. /\ Exact(dropped, 0) /\ SameBut(dropped, requested)
      BY <2>6, UnrefExact
    <3>2. /\ Exact(refused, 0) /\ Uses(refused) = Uses(dropped)
          /\ refused.host = dropped.host /\ refused.dns = dropped.dns
          /\ refused.handle = [dropped.handle EXCEPT !["proxyClient"] = "closing"]
      <4> HIDE DEF dropped
      <4> QED
        BY <2>3, <2>6, <3>1, ProxyIsHandle, CloseExact DEF SameBut
    <3>3. Uses(dropped) > 0
      BY <2>6, UnrefExact
    <3> HIDE DEF refused, dropped, requested
    <3>4. Busy(refused)
      BY <2>4, <2>6, <3>1, <3>2, <3>3 DEF Busy, OneUse, Together, SameBut, InFlight, Handles, Sockets
    <3>5. Handle(c, refused)
      BY <2>1, <2>7
    <3> QED
      BY <3>4, <3>5, HandleShape
  <2>8. CASE queryOk /\ Dns = {}
    <3>1. Handle(c, on_dns(requested, "none", 1, TRUE, TRUE))
      BY <2>1, <2>2, <2>8
    <3>2. LET r == on_dns(requested, "none", 1, TRUE, TRUE) IN Busy(r) \/ Freed(r)
      BY <2>6, OnDnsExact
    <3> QED
      BY <3>1, <3>2, HandleShape
  <2>9. CASE queryOk /\ Dns # {}
    <3>1. /\ Exact(asked, 0) /\ Uses(asked) > 0 /\ asked.host = TRUE
          /\ asked.handle = client[c].handle /\ InFlight(asked) = 1
      BY <2>6, AskExact DEF DnsServers
    <3> HIDE DEF asked
    <3>2. Busy(asked)
      BY <2>3, <2>6, <3>1 DEF Busy, OneUse, Together
    <3>3. Handle(c, asked)
      BY <2>1, <2>9
    <3> QED
      BY <3>2, <3>3, HandleShape
  <2> QED
    BY <2>2, <2>7, <2>8, <2>9
<1>6. ASSUME NEW c \in Clients, NEW s \in DnsServers, DnsAnswer(c, s) PROVE \E cl : Step(c, cl)
  <2> DEFINE answered == [client[c] EXCEPT !.dns[s] = @ - 1]
  <2>1. PICK status \in {1, -1, -2}, connectOk \in {TRUE}, queryOk \in Outcomes("query") :
            Handle(c, on_dns(answered, s, status, connectOk, queryOk))
    BY <1>6, OutcomesKnown DEF DnsAnswer, DnsReply
  <2>2. client[c].dns[s] > 0
    BY <1>6 DEF DnsAnswer, DnsReply
  <2>3. Busy(client[c]) /\ Exact(client[c], 0) /\ Typed(client[c])
    BY <2>1, BusyPre
  <2>4. Typed(answered) /\ InFlight(client[c]) = InFlight(answered) + 1
    BY <2>2, <2>3 DEF Typed, ClientRec, InFlight, DnsServers
  <2>5. /\ answered.handle = client[c].handle /\ answered.data = client[c].data
        /\ answered.mem = client[c].mem /\ answered.ref_count = client[c].ref_count
        /\ answered.connecting = client[c].connecting /\ answered.fault = client[c].fault
        /\ answered.host = client[c].host
    BY <2>3, <2>4 DEF Typed, ClientRec
  <2>6. Uses(client[c]) = Uses(answered) + 1 /\ Uses(answered) \in Nat /\ InFlight(answered) \in Nat
    BY <2>4, <2>5, UsesNat DEF Uses, One
  <2>7. Exact(answered, 1)
    BY <2>3, <2>4, <2>5, <2>6 DEF Exact
  <2>8. /\ InFlight(answered) = 0 /\ answered.handle["targetClient"] = "none"
        /\ answered.host = TRUE
    BY <2>3, <2>4, <2>5, <2>6 DEF Busy, OneUse, Typed, ClientRec
  <2>9. LET r == on_dns(answered, s, status, TRUE, queryOk) IN Busy(r) \/ Freed(r)
    <3> HIDE DEF answered
    <3> QED
      BY <2>7, <2>8, OnDnsExact
  <2> QED
    BY <2>1, <2>9, HandleShape
<1>7. ASSUME NEW c \in Clients, on_connect_porxy(c) PROVE \E cl : Step(c, cl)
  <2> DEFINE done == [client[c] EXCEPT !.connecting = FALSE]
             one  == CloseIfUp(done, "targetClient")
             both == CloseIfUp(one, "proxyClient")
  <2>1. PICK cl \in {done, both} : Handle(c, cl)
    BY <1>7 DEF on_connect_porxy
  <2>2. /\ Busy(client[c]) /\ Exact(client[c], 0) /\ Typed(client[c])
        /\ client[c].handle \in [Handles -> HandleStatus]
    BY <2>1, BusyPre
  <2>3. /\ Exact(done, 0) /\ Uses(done) = Uses(client[c]) /\ done.host = client[c].host
        /\ done.dns = client[c].dns /\ done.handle = client[c].handle
    BY <2>2 DEF Exact, Typed, ClientRec, Uses, InFlight
  <2>4. Busy(done)
    BY <2>2, <2>3 DEF Busy, OneUse, Together, InFlight
  <2>5. /\ Exact(one, 0) /\ Uses(one) = Uses(done)
        /\ one.host = done.host /\ one.dns = done.dns
        /\ one.handle = IF done.handle["targetClient"] = "open"
                        THEN [done.handle EXCEPT !["targetClient"] = "closing"] ELSE done.handle
    <3> HIDE DEF done
    <3> QED
      BY <2>3, CloseIfUpExact DEF Sockets
  <2>6. /\ Exact(both, 0) /\ Uses(both) = Uses(one)
        /\ both.host = one.host /\ both.dns = one.dns
        /\ both.handle = IF one.handle["proxyClient"] = "open"
                         THEN [one.handle EXCEPT !["proxyClient"] = "closing"] ELSE one.handle
    <3> HIDE DEF one
    <3> QED
      BY <2>5, CloseIfUpExact DEF Sockets
  <2> HIDE DEF done, one, both
  <2>7. Busy(both)
    BY <2>2, <2>3, <2>5, <2>6 DEF Busy, OneUse, Together, InFlight, Handles, Sockets
  <2> QED
    BY <2>1, <2>4, <2>7, HandleShape
<1>8. ASSUME NEW c \in Clients, read_data_porxy_end(c) PROVE \E cl : Step(c, cl)
  <2> DEFINE down == uv_close(client[c], "targetClient")
             r    == CloseIfUp(down, "proxyClient")
  <2>1. Handle(c, r) /\ IsUp(client[c], "targetClient")
    BY <1>8 DEF read_data_porxy_end
  <2>2. /\ Busy(client[c]) /\ Exact(client[c], 0)
        /\ client[c].handle \in [Handles -> HandleStatus]
    BY <2>1, BusyPre
  <2>3. client[c].handle["targetClient"] = "open" /\ "targetClient" \in Handles
    BY <2>1, <2>2 DEF IsUp, uv_is_closing, Exact, Handles, Sockets
  <2>4. /\ Exact(down, 0) /\ Uses(down) = Uses(client[c])
        /\ down.host = client[c].host /\ down.dns = client[c].dns
        /\ down.handle = [client[c].handle EXCEPT !["targetClient"] = "closing"]
    BY <2>2, <2>3, CloseExact
  <2>5. /\ Exact(r, 0) /\ Uses(r) = Uses(down)
        /\ r.host = down.host /\ r.dns = down.dns
        /\ r.handle = IF down.handle["proxyClient"] = "open"
                      THEN [down.handle EXCEPT !["proxyClient"] = "closing"] ELSE down.handle
    <3> HIDE DEF down
    <3> QED
      BY <2>4, CloseIfUpExact DEF Sockets
  <2> HIDE DEF r, down
  <2>6. Busy(r)
    BY <2>2, <2>3, <2>4, <2>5 DEF Busy, OneUse, Together, InFlight, Handles, Sockets
  <2> QED
    BY <2>1, <2>6, HandleShape
<1>9. ASSUME NEW c \in Clients, on_timeout(c) PROVE \E cl : Step(c, cl)
  <2> DEFINE stopped == [client[c] EXCEPT !.armed = FALSE]
             one  == CloseIfUp(stopped, "proxyClient")
             both == CloseIfUp(one, "targetClient")
  <2>1. Handle(c, both)
    BY <1>9 DEF on_timeout
  <2>2. /\ Busy(client[c]) /\ Exact(client[c], 0) /\ Typed(client[c])
        /\ client[c].handle \in [Handles -> HandleStatus]
    BY <2>1, BusyPre
  <2>3. /\ Exact(stopped, 0) /\ Uses(stopped) = Uses(client[c]) /\ stopped.host = client[c].host
        /\ stopped.dns = client[c].dns /\ stopped.handle = client[c].handle
    BY <2>2 DEF Exact, Typed, ClientRec, Uses, InFlight
  <2>4. /\ Exact(one, 0) /\ Uses(one) = Uses(stopped)
        /\ one.host = stopped.host /\ one.dns = stopped.dns
        /\ one.handle = IF stopped.handle["proxyClient"] = "open"
                        THEN [stopped.handle EXCEPT !["proxyClient"] = "closing"] ELSE stopped.handle
    <3> HIDE DEF stopped
    <3> QED
      BY <2>3, CloseIfUpExact DEF Sockets
  <2>5. /\ Exact(both, 0) /\ Uses(both) = Uses(one)
        /\ both.host = one.host /\ both.dns = one.dns
        /\ both.handle = IF one.handle["targetClient"] = "open"
                         THEN [one.handle EXCEPT !["targetClient"] = "closing"] ELSE one.handle
    <3> HIDE DEF one
    <3> QED
      BY <2>4, CloseIfUpExact DEF Sockets
  <2> HIDE DEF stopped, one, both
  <2>6. Busy(both)
    BY <2>2, <2>3, <2>4, <2>5 DEF Busy, OneUse, Together, InFlight, Handles, Sockets
  <2> QED
    BY <2>1, <2>6, HandleShape
<1>10. ASSUME NEW c \in Clients, NEW h \in Handles, Closed(c, h) PROVE \E cl : Step(c, cl)
  <2>1. Handle(c, close_cb(client[c], h))
    BY <1>10 DEF Closed
  <2>2. Busy(client[c])
    BY <2>1, BusyPre
  <2>3. Busy(close_cb(client[c], h)) \/ Freed(close_cb(client[c], h))
    BY <1>10, <2>2, CloseCbExact DEF Closed
  <2> QED
    BY <2>1, <2>3, HandleShape
<1> QED
  BY <1>1, <1>2, <1>3, <1>4, <1>5, <1>6, <1>7, <1>8, <1>9, <1>10 DEF Next

-----------------------------------------------------------------------------
LEMMA UsersOf ==
    /\ Uses(Unused) = 0
    /\ \A cl : Busy(cl) => Uses(cl) > 0
    /\ \A cl : Freed(cl) => Uses(cl) = 0
BY DEF Uses, One, InFlight, Unused, Busy, Freed, Handles, Sockets, DnsServers

(* What the shape of a step says of the others and of those served.        *)
LEMMA StepEffect ==
    ASSUME ExactInv, NEW c \in Clients, NEW cl, Step(c, cl)
    PROVE  /\ client'[c] = cl
           /\ \A d \in Clients \ {c} : client'[d] = client[d]
           /\ Starts(c, cl) => c \notin Served /\ Served' = Served \cup {c}
           /\ Goes(c, cl) => Served' = Served
           /\ Ends(c, cl) => c \in Served /\ Served' = Served \ {c}
<1>1. /\ client'[c] = cl
      /\ \A d \in Clients \ {c} : client'[d] = client[d]
  BY DEF Step, ExactInv, IInv
<1> QED
  BY <1>1, UsersOf DEF Served, Starts, Goes, Ends

LEMMA ExactInit == Init => ExactInv
<1> SUFFICES ASSUME Init PROVE ExactInv
  OBVIOUS
<1>1. \A c \in Clients : client[c] = Unused
  BY DEF Init
<1>2. Served = {}
  BY <1>1, UsersOf DEF Served
<1> QED
  BY <1>1, <1>2, InitSound, FS_EmptySet DEF ExactInv, Init

LEMMA ExactStep ==
    ASSUME NoKnownFault, ExactInv, [Next]_vars
    PROVE  ExactInv'
<1>1. CASE UNCHANGED vars
  BY <1>1 DEF vars, ExactInv, IInv, Served
<1>2. CASE Next
  <2>1. IInv'
    BY <1>2, StepSound DEF ExactInv
  <2>2. PICK c \in Clients : \E cl : Step(c, cl)
    BY <1>2, StepShape
  <2>3. PICK cl : Step(c, cl)
    BY <2>2
  <2>4. \A d \in Clients : client'[d] = Unused \/ Busy(client'[d]) \/ Freed(client'[d])
    BY <2>3, StepEffect DEF ExactInv, Step, Starts, Goes, Ends
  <2>5. client_count \in Int /\ IsFiniteSet(Served) /\ client_count = Cardinality(Served)
    BY DEF ExactInv, IInv
  <2>6. IsFiniteSet(Served') /\ client_count' = Cardinality(Served')
    <3>1. CASE Starts(c, cl)
      BY <2>3, <2>5, <3>1, StepEffect, FS_AddElement DEF Starts
    <3>2. CASE Goes(c, cl)
      BY <2>3, <2>5, <3>2, StepEffect DEF Goes
    <3>3. CASE Ends(c, cl)
      BY <2>3, <2>5, <3>3, StepEffect, FS_RemoveElement DEF Ends
    <3> QED
      BY <2>3, <3>1, <3>2, <3>3 DEF Step
  <2> QED
    BY <2>1, <2>4, <2>6 DEF ExactInv
<1> QED
  BY <1>1, <1>2

THEOREM ExactInvariance ==
    ASSUME NoKnownFault
    PROVE  Spec => []ExactInv
<1>1. ExactInv /\ [Next]_vars => ExactInv'
  BY ExactStep
<1> QED
  BY <1>1, ExactInit, PTL DEF Spec

-----------------------------------------------------------------------------
(* No handler steps outside the contract of libuv or of the allocator.     *)
THEOREM AlwaysMemorySafe ==
    ASSUME NoKnownFault
    PROVE  Spec => []MemorySafe
<1>1. ExactInv => MemorySafe
  BY DEF ExactInv, MemorySafe, Unused, Busy, Exact, Freed
<1> QED
  BY <1>1, ExactInvariance, PTL

(* ref_count is the number of handles and requests that can still reach    *)
(* the struct, between any two callbacks.                                  *)
THEOREM RefCountAlwaysExact ==
    ASSUME NoKnownFault
    PROVE  Spec => []RefCountExact
<1>1. ExactInv => RefCountExact
  <2> SUFFICES ASSUME ExactInv, NEW c \in Clients, client[c].mem = "live"
               PROVE  client[c].ref_count = Uses(client[c])
    BY DEF RefCountExact
  <2>1. Exact(client[c], 0)
    BY DEF ExactInv, Unused, Busy, Freed
  <2> QED
    BY <2>1, UsesNat DEF Exact
<1> QED
  BY <1>1, ExactInvariance, PTL

(* The two sides of a connection close in the same callback.               *)
THEOREM SidesAlwaysCloseTogether ==
    ASSUME NoKnownFault
    PROVE  Spec => []SidesCloseTogether
<1>1. ExactInv => SidesCloseTogether
  <2> SUFFICES ASSUME ExactInv, NEW c \in Clients
               PROVE  /\ client[c].handle["proxyClient"] \in {"closing", "closed"}
                            => ~Serving(client[c], "targetClient")
                      /\ client[c].handle["targetClient"] \in {"closing", "closed"}
                            => ~Serving(client[c], "proxyClient")
    BY DEF SidesCloseTogether
  <2>1. CASE client[c] = Unused
    BY <2>1 DEF Unused, Serving
  <2>2. CASE Busy(client[c])
    BY <2>2 DEF Busy, Together, Serving
  <2>3. CASE Freed(client[c])
    BY <2>3, UsesNat DEF Freed, Serving, ExactInv, IInv, Sound
  <2> QED
    BY <2>1, <2>2, <2>3 DEF ExactInv
<1> QED
  BY <1>1, ExactInvariance, PTL

(* The number logged as the connections that remain is that number.        *)
THEOREM CountAlwaysServed ==
    ASSUME NoKnownFault
    PROVE  Spec => []CountsServed
<1>1. ExactInv => CountsServed
  BY DEF ExactInv, CountsServed, Served
<1> QED
  BY <1>1, ExactInvariance, PTL

-----------------------------------------------------------------------------
(* A Client is freed by the callback that takes its last user away and by  *)
(* no other: the count implements the specification of RefCounted.         *)
LEMMA InitRefines == Init => Abstract!Init
BY UsersOf DEF Init, Abstract!Init, Unused

LEMMA StepRefines ==
    ASSUME NoKnownFault, ExactInv, [Next]_vars
    PROVE  [Abstract!Next]_(Abstract!vars)
<1>1. CASE UNCHANGED vars
  BY <1>1 DEF vars, Abstract!vars
<1>2. CASE Next
  <2>1. PICK c \in Clients : \E cl : Step(c, cl)
    BY <1>2, StepShape
  <2>2. PICK cl : Step(c, cl)
    BY <2>1
  <2> DEFINE life  == [d \in Clients |-> client[d].mem]
             users == [d \in Clients |-> Uses(client[d])]
  <2>3. /\ life'[c] = cl.mem /\ users'[c] = Uses(cl)
        /\ \A d \in Clients \ {c} : life'[d] = life[d] /\ users'[d] = users[d]
    BY <2>2, StepEffect
  <2>4. CASE Starts(c, cl)
    <3>1. life[c] = "unused" /\ cl.mem = "live" /\ Uses(cl) > 0
      BY <2>4 DEF Starts, Unused, Busy, Exact
    <3>2. Abstract!Create(c)
      BY <2>3, <3>1 DEF Abstract!Create, Abstract!Others
    <3> QED
      BY <3>2 DEF Abstract!Next
  <2>5. CASE Goes(c, cl)
    <3>1. life[c] = "live" /\ users[c] > 0 /\ cl.mem = "live" /\ Uses(cl) > 0
      BY <2>5 DEF Goes, Busy, Exact
    <3>2. Abstract!Share(c)
      BY <2>3, <3>1 DEF Abstract!Share, Abstract!Others
    <3> QED
      BY <3>2 DEF Abstract!Next
  <2>6. CASE Ends(c, cl)
    <3>1. life[c] = "live" /\ users[c] > 0 /\ cl.mem = "freed" /\ Uses(cl) = 0
      BY <2>6 DEF Ends, Busy, Exact, Freed
    <3>2. Abstract!Release(c)
      BY <2>3, <3>1 DEF Abstract!Release, Abstract!Others
    <3> QED
      BY <3>2 DEF Abstract!Next
  <2> QED
    BY <2>2, <2>4, <2>5, <2>6 DEF Step
<1> QED
  BY <1>1, <1>2

THEOREM Refinement ==
    ASSUME NoKnownFault
    PROVE  Spec => FreedByLastUser
<1>1. ExactInv /\ [Next]_vars => [Abstract!Next]_(Abstract!vars)
  BY StepRefines
<1> QED
  BY <1>1, ExactInvariance, InitRefines, PTL DEF Spec, FreedByLastUser, Abstract!Spec
=============================================================================
