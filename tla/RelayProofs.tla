---------------------------- MODULE RelayProofs ----------------------------
(***************************************************************************)
(* The bytes of a connection, for every number of connections and chunks,  *)
(* when no call fails in one of the ways NoKnownFault leaves out: every    *)
(* buffer has an owner, and each direction is a pipe.                      *)
(***************************************************************************)
EXTENDS Relay, ProxyProofs, SequenceTheorems

Ended(status) == status \in {"closing", "closed"}

(* A handle that is initialised, or asked to close, outside the closing    *)
(* phase of the loop.                                                      *)
Onward(a, b) ==
    \/ a = b
    \/ a = "none" /\ b \in {"open", "closing"}
    \/ a = "open" /\ b = "closing"

(* What a callback may do to the sides of a connection, as far as the data *)
(* is concerned: no socket is revived, no target is connected at once, and *)
(* state is 1 only with a target.                                          *)
Forward(cl, new) ==
    /\ Typed(new)
    /\ new.host = cl.host
    /\ \A s \in Sockets : Onward(cl.handle[s], new.handle[s])
    /\ new.connecting = TRUE => cl.connecting = TRUE \/ cl.handle["targetClient"] = "none"
    /\ new.handle["targetClient"] = "open" /\ new.connecting # TRUE =>
          cl.handle["targetClient"] = "open" /\ cl.connecting # TRUE
    /\ new.state = 1 => cl.state = 1 \/ new.handle["targetClient"] # "none"

-----------------------------------------------------------------------------
LEMMA ForwardTrans ==
    ASSUME NEW a, NEW b, NEW c, Forward(a, b), Forward(b, c)
    PROVE  Forward(a, c)
BY DEF Forward, Onward, Sockets

LEMMA ForwardSame ==
    ASSUME NEW cl, Typed(cl)
    PROVE  Forward(cl, cl)
BY DEF Forward, Onward

(* Where nothing of the two sides changes. *)
LEMMA ForwardQuiet ==
    ASSUME NEW cl, NEW new, Typed(new), new.host = cl.host, new.handle = cl.handle,
           new.connecting = cl.connecting, new.state = cl.state
    PROVE  Forward(cl, new)
BY DEF Forward, Onward

LEMMA FailForward ==
    ASSUME NEW cl, Typed(cl), NEW kind \in FaultKinds
    PROVE  Forward(cl, Fail(cl, kind))
<1>1. Fail(cl, kind) \in {cl, [cl EXCEPT !.fault = kind]}
  BY DEF Fail
<1>2. Forward(cl, [cl EXCEPT !.fault = kind])
  <2> DEFINE new == [cl EXCEPT !.fault = kind]
  <2>1. Typed(new) /\ new.host = cl.host /\ new.handle = cl.handle
        /\ new.connecting = cl.connecting /\ new.state = cl.state
    BY DEF Typed, ClientRec
  <2> HIDE DEF new
  <2>2. Forward(cl, new)
    BY <2>1, ForwardQuiet
  <2> QED
    BY <2>2 DEF new
<1> QED
  BY <1>1, <1>2, ForwardSame

LEMMA CloseForward ==
    ASSUME NEW cl, Typed(cl), NEW h \in Handles
    PROVE  Forward(cl, uv_close(cl, h)) /\ Forward(cl, CloseIfUp(cl, h))
<1>1. Forward(cl, uv_close(cl, h))
  <2> DEFINE new == [cl EXCEPT !.handle[h] = "closing"]
  <2>1. CASE uv_close(cl, h) = new /\ cl.handle[h] = "open"
    <3>1. /\ Typed(new) /\ new.host = cl.host /\ new.connecting = cl.connecting
          /\ new.state = cl.state /\ new.handle = [cl.handle EXCEPT ![h] = "closing"]
          /\ cl.handle \in [Handles -> HandleStatus]
      BY DEF Typed, ClientRec, HandleStatus
    <3> HIDE DEF new
    <3>2. Forward(cl, new)
      BY <2>1, <3>1 DEF Forward, Onward, Handles, Sockets
    <3> QED
      BY <2>1, <3>2
  <2>2. CASE uv_close(cl, h) \in {Fail(cl, "use_after_free"), Fail(cl, "double_close")}
    BY <2>2, FailForward DEF FaultKinds
  <2> QED
    BY <2>1, <2>2 DEF uv_close
<1> QED
  BY <1>1, ForwardSame DEF CloseIfUp

LEMMA RefForward ==
    ASSUME NEW cl, Typed(cl)
    PROVE  Forward(cl, ref_client(cl))
<1>1. LET new == ref_client(cl)
      IN  /\ Typed(new) /\ new.host = cl.host /\ new.handle = cl.handle
          /\ new.connecting = cl.connecting /\ new.state = cl.state
  BY DEF ref_client, Typed, ClientRec
<1> QED
  BY <1>1, ForwardQuiet

LEMMA UnrefForward ==
    ASSUME NEW cl, Typed(cl)
    PROVE  Forward(cl, unref_client(cl))
<1> DEFINE dropped == [cl EXCEPT !.ref_count = @ - 1]
           freed   == [dropped EXCEPT !.mem = "freed"]
<1>1. /\ Typed(dropped) /\ dropped.host = cl.host /\ dropped.handle = cl.handle
      /\ dropped.connecting = cl.connecting /\ dropped.state = cl.state
  BY DEF Typed, ClientRec
<1>2. unref_client(cl) \in {Fail(cl, "use_after_free"), dropped, Fail(freed, FreeFault(cl))}
  BY DEF unref_client
<1>3. FreeFault(cl) \in FaultKinds
  BY DEF FreeFault, FaultKinds
<1> HIDE DEF dropped
<1>4. /\ Typed(freed) /\ freed.host = dropped.host /\ freed.handle = dropped.handle
      /\ freed.connecting = dropped.connecting /\ freed.state = dropped.state
  BY <1>1 DEF Typed, ClientRec
<1> HIDE DEF freed
<1>5. Forward(cl, dropped) /\ Forward(cl, freed)
  BY <1>1, <1>4, ForwardQuiet
<1>6. Forward(freed, Fail(freed, FreeFault(cl)))
  BY <1>3, <1>4, FailForward
<1>7. Forward(cl, Fail(freed, FreeFault(cl)))
  BY <1>5, <1>6, ForwardTrans
<1> QED
  BY <1>2, <1>5, <1>7, FailForward DEF FaultKinds

(* A connect is started on a target that was not there, and is not done.   *)
LEMMA ConnectForward ==
    ASSUME NEW cl, Typed(cl), cl.handle["targetClient"] = "none"
    PROVE  LET r == [ConnectTargetServer(cl, TRUE) EXCEPT !.state = 1]
           IN  /\ Forward(cl, r) /\ r.connecting = TRUE
               /\ r.handle = [cl.handle EXCEPT !["targetClient"] = "open"]
<1> DEFINE inited == [cl EXCEPT !.handle["targetClient"] = "open"]
           up     == [inited EXCEPT !.data = @ \cup {"targetClient"}, !.connecting = TRUE]
           r      == [up EXCEPT !.state = 1]
<1>1. ConnectTargetServer(cl, TRUE) = up
  BY DEF ConnectTargetServer, uv_init
<1>2. Typed(inited)
  BY DEF Typed, ClientRec, HandleStatus
<1>3. /\ Typed(up) /\ up.host = cl.host /\ up.connecting = TRUE
      /\ up.handle = [cl.handle EXCEPT !["targetClient"] = "open"]
      /\ cl.handle \in [Handles -> HandleStatus]
  BY <1>2 DEF Typed, ClientRec, Handles, Sockets
<1> HIDE DEF up
<1>4. /\ Typed(r) /\ r.host = cl.host /\ r.connecting = TRUE /\ r.state = 1
      /\ r.handle = [cl.handle EXCEPT !["targetClient"] = "open"]
  BY <1>3 DEF Typed, ClientRec
<1> HIDE DEF r
<1>5. Forward(cl, r)
  BY <1>3, <1>4 DEF Forward, Onward, Handles, Sockets
<1> QED
  BY <1>1, <1>4, <1>5 DEF r

LEMMA AskForward ==
    ASSUME NEW cl, Typed(cl), NEW server \in DnsServers
    PROVE  Forward(cl, send_dns_query(cl, server))
<1>1. LET new == send_dns_query(cl, server)
      IN  /\ Typed(new) /\ new.host = cl.host /\ new.handle = cl.handle
          /\ new.connecting = cl.connecting /\ new.state = cl.state
  BY DEF send_dns_query, Typed, ClientRec
<1> QED
  BY <1>1, ForwardQuiet

LEMMA GiveUpForward ==
    ASSUME NEW cl, Typed(cl)
    PROVE  Forward(cl, GiveUp(cl))
<1> DEFINE down == uv_close(cl, "proxyClient")
<1>1. Forward(cl, down) /\ Typed(down)
  BY CloseForward DEF Forward, Handles, Sockets
<1>2. Forward(down, unref_client(down))
  BY <1>1, UnrefForward
<1> QED
  BY <1>1, <1>2, ForwardTrans DEF GiveUp

LEMMA OnDnsForward ==
    ASSUME NEW cl, NEW server, NEW status, NEW queryOk, Typed(cl),
           cl.handle["targetClient"] = "none"
    PROVE  Forward(cl, on_dns(cl, server, status, TRUE, queryOk))
<1> DEFINE counted   == ref_client(cl)
           connected == ConnectTargetServer(counted, TRUE)
           up        == [connected EXCEPT !.state = 1]
<1>1. Forward(cl, counted) /\ Typed(counted) /\ counted.handle = cl.handle
  BY RefForward DEF Forward, ref_client, Typed, ClientRec
<1> HIDE DEF counted
<1>2. Forward(counted, up) /\ Typed(up)
  BY <1>1, ConnectForward DEF Forward
<1>3. Forward(cl, up)
  BY <1>1, <1>2, ForwardTrans
<1> HIDE DEF up
<1>4. Forward(cl, unref_client(up))
  BY <1>2, <1>3, UnrefForward, ForwardTrans
<1>5. on_dns(cl, server, status, TRUE, queryOk) \in
          {unref_client(cl), unref_client(up), send_dns_query(cl, "dns_2"), GiveUp(cl)}
  BY DEF on_dns, up, counted
<1>6. /\ Forward(cl, unref_client(cl)) /\ Forward(cl, send_dns_query(cl, "dns_2"))
      /\ Forward(cl, GiveUp(cl))
  BY UnrefForward, AskForward, GiveUpForward DEF DnsServers
<1> QED
  BY <1>4, <1>5, <1>6

-----------------------------------------------------------------------------
(***************************************************************************)
(* The inductive invariant of one connection: its struct cl and data l.    *)
(***************************************************************************)

(* What the Client struct says of the data, before and after its request.  *)
Stage(cl, l) ==
    /\ cl.state = 1 => cl.handle["targetClient"] # "none"
    /\ cl.host = FALSE =>
          /\ l.host = "none" /\ l.connect_mode = "PROXY_HTTPS" /\ l.send_buf = <<>>
          /\ Len(l.sent["proxyClient"]) <= 1
          /\ ~Ended(cl.handle["proxyClient"]) => l.sent["proxyClient"] = <<>>
    /\ cl.host = TRUE =>
          /\ cl.handle["proxyClient"] # "none"
          /\ l.host \in Hosts /\ Len(l.sent["proxyClient"]) >= 1

(* Until the target is connected nothing has come from it, or gone to it.  *)
Early(cl, l) ==
    cl.connecting = TRUE \/ cl.handle["targetClient"] = "none" =>
        l.got = Nothing /\ l.queue["proxyClient"] = <<>> /\ l.sent["targetClient"] = <<>>

(* A request that is kept is one plain chunk, and nothing was relayed yet. *)
Kept(cl, l) ==
    l.send_buf # <<>> =>
        /\ l.connect_mode = "PROXY_HTTP" /\ Len(l.send_buf) = 1
        /\ l.got = Nothing /\ l.queue["proxyClient"] = <<>>
        /\ cl.handle["targetClient"] = "open" => cl.connecting = TRUE

Owned(l) ==
    l.buffers = Len(l.queue["proxyClient"]) + Len(l.queue["targetClient"]) + Len(l.send_buf)

Linked(cl, l) ==
    /\ l \in LinkRec
    /\ Stage(cl, l)
    /\ Early(cl, l)
    /\ Kept(cl, l)
    /\ Owned(l)
    /\ \A s \in Sockets : l.queue[s] # <<>> => cl.handle[s] \in {"open", "closing"}

(* What the client has and what libuv holds for it is what it is to get,   *)
(* once the target is connected.                                           *)
DownKept(cl, l) ==
    Ended(cl.handle["proxyClient"])
    \/ l.got["proxyClient"] \o l.queue["proxyClient"] = ForClient(l)
    \/ /\ l.got["proxyClient"] = <<>> /\ l.queue["proxyClient"] = <<>>
       /\ l.sent["targetClient"] = <<>>
       /\ cl.handle["targetClient"] = "open" => cl.connecting = TRUE

(* What the target has, what libuv holds for it and the request kept make  *)
(* up what is for it.                                                      *)
UpKept(cl, l) ==
    Ended(cl.handle["targetClient"])
    \/ l.got["targetClient"] \o (l.queue["targetClient"] \o l.send_buf) = ForTarget(l)

RelayInv ==
    /\ ExactInv
    /\ link \in [Clients -> LinkRec]
    /\ \A c \in Clients : Linked(client[c], link[c])

DownInv == RelayInv /\ \A c \in Clients : DownKept(client[c], link[c])
UpInv == RelayInv /\ \A c \in Clients : UpKept(client[c], link[c])

-----------------------------------------------------------------------------
(***************************************************************************)
(* The eight ways a step changes a connection, from cl and l to new and m. *)
(***************************************************************************)
CanRead(l, s) == Len(l.sent[s]) < MaxChunks

NextChunk(l, s, to) == <<Len(l.sent[s]) + 1, to>>

(* A callback that touches no data. *)
Quiet(cl, new, l, m) == Forward(cl, new) /\ m = l

(* The one request of a connection is accepted. *)
Asked(cl, new, l, m) ==
    /\ cl.host = FALSE
    /\ cl.handle["proxyClient"] = "open" /\ cl.handle["targetClient"] = "none"
    /\ Typed(cl) /\ Forward([cl EXCEPT !.host = TRUE], new)
    /\ CanRead(l, "proxyClient")
    /\ \E mode \in Modes, to \in Hosts : m = Parsed(l, mode, to)

Turned(cl, new, l, m) ==
    /\ cl.host = FALSE /\ cl.handle["proxyClient"] = "open"
    /\ Forward(cl, new) /\ new.handle["proxyClient"] = "closing"
    /\ CanRead(l, "proxyClient")
    /\ \E to \in Hosts : m = Sent(l, "proxyClient", to)

Passed(cl, new, l, m) ==
    /\ new = cl /\ Typed(cl) /\ cl.host = TRUE /\ cl.handle["targetClient"] # "none"
    /\ CanRead(l, "proxyClient")
    /\ l.connect_mode \in Eager \/ l.got["proxyClient"] # <<>>
    /\ \E to \in Hosts :
          m = IF cl.handle["targetClient"] = "open"
                 /\ (cl.connecting = TRUE => EarlyWrite = "queued")
              THEN uv_write(Sent(l, "proxyClient", to), "targetClient", NextChunk(l, "proxyClient", to))
              ELSE Sent(l, "proxyClient", to)

(* The connect is done: with the client there, or both sides are closing.  *)
Joined(cl, new, l, m) ==
    /\ cl.connecting = TRUE /\ new.connecting # TRUE
    /\ Typed(new) /\ new.host = cl.host /\ new.state = cl.state /\ cl.host = TRUE
    /\ \/ /\ new.handle = cl.handle /\ m = Connected(l)
          /\ \A s \in Sockets : cl.handle[s] = "open"
       \/ /\ m = l /\ Ended(new.handle["targetClient"])
          /\ \A s \in Sockets : Onward(cl.handle[s], new.handle[s])

Answered(cl, new, l, m) ==
    /\ new = cl /\ cl.handle["targetClient"] = "open" /\ cl.connecting # TRUE
    /\ Typed(cl) /\ cl.host = TRUE /\ CanRead(l, "targetClient")
    /\ m = IF cl.handle["proxyClient"] = "open"
           THEN uv_write(Sent(l, "targetClient", "reply"), "proxyClient",
                         NextChunk(l, "targetClient", "reply"))
           ELSE Sent(l, "targetClient", "reply")

Written(cl, new, l, m) ==
    /\ new = cl
    /\ \E s \in Sockets :
          /\ cl.handle[s] = "open"
          /\ s = "targetClient" => cl.connecting # TRUE
          /\ l.queue[s] # <<>>
          /\ m = [l EXCEPT !.got[s]   = Append(@, Head(l.queue[s])),
                           !.queue[s] = Tail(@),
                           !.buffers  = @ - 1]

Gone(cl, new, l, m) ==
    /\ Typed(new) /\ new.host = cl.host /\ new.state = cl.state
    /\ new.connecting = cl.connecting
    /\ \E h \in Handles :
          /\ cl.handle[h] = "closing"
          /\ h = "targetClient" => cl.connecting # TRUE
          /\ \A s \in Sockets : new.handle[s] = IF s = h THEN "closed" ELSE cl.handle[s]
          /\ m = Dropped(l, h)

Moves(cl, new, l, m) ==
    \/ Quiet(cl, new, l, m)
    \/ Asked(cl, new, l, m)
    \/ Turned(cl, new, l, m)
    \/ Passed(cl, new, l, m)
    \/ Joined(cl, new, l, m)
    \/ Answered(cl, new, l, m)
    \/ Written(cl, new, l, m)
    \/ Gone(cl, new, l, m)

-----------------------------------------------------------------------------
(* The operators of Relay, field by field.                                 *)
LEMMA LinkFields ==
    ASSUME NEW l, l \in LinkRec
    PROVE  /\ l.connect_mode \in {"PROXY_HTTP", "PROXY_HTTPS"}
           /\ l.host \in Hosts \cup {"none"} /\ l.send_buf \in Seq(Chunk) /\ l.buffers \in Nat
           /\ l.queue \in [Sockets -> Seq(Chunk)] /\ l.sent \in [Sockets -> Seq(Chunk)]
           /\ l.got \in [Sockets -> Seq(Chunk)]
           /\ "proxyClient" \in Sockets /\ "targetClient" \in Sockets
           /\ Nothing["proxyClient"] = <<>> /\ Nothing["targetClient"] = <<>>
           /\ "proxyClient" # "targetClient" /\ "PROXY_HTTP" # "PROXY_HTTPS"
           /\ Nothing \in [Sockets -> Seq(Chunk)]
BY DEF LinkRec, Nothing, Sockets

LEMMA ChunkFact ==
    ASSUME NEW l, l \in LinkRec, NEW s \in Sockets, CanRead(l, s), NEW to \in Hosts \cup {"reply"}
    PROVE  NextChunk(l, s, to) \in Chunk /\ Established \in Chunk
<1>1. Len(l.sent[s]) \in Nat /\ MaxChunks \in Nat
  BY LinkFields, MaxChunksAssumption
<1>2. Len(l.sent[s]) + 1 \in 1..MaxChunks
  BY <1>1 DEF CanRead
<1> QED
  BY <1>2 DEF NextChunk, Chunk

(* What Sent and uv_write make of the data.                                *)
SentOne(l, s, x, m) ==
    /\ m \in LinkRec
    /\ m.connect_mode = l.connect_mode /\ m.host = l.host /\ m.send_buf = l.send_buf
    /\ m.queue = l.queue /\ m.got = l.got /\ m.buffers = l.buffers
    /\ m.sent = [l.sent EXCEPT ![s] = Append(l.sent[s], x)]

WroteOne(l, s, x, m) ==
    /\ m \in LinkRec
    /\ m.connect_mode = l.connect_mode /\ m.host = l.host /\ m.send_buf = l.send_buf
    /\ m.sent = l.sent /\ m.got = l.got /\ m.buffers = l.buffers + 1
    /\ m.queue = [l.queue EXCEPT ![s] = Append(l.queue[s], x)]

LEMMA SentFields ==
    ASSUME NEW l, l \in LinkRec, NEW s \in Sockets, CanRead(l, s), NEW to \in Hosts \cup {"reply"}
    PROVE  SentOne(l, s, NextChunk(l, s, to), Sent(l, s, to))
<1>1. NextChunk(l, s, to) \in Chunk
  BY ChunkFact
<1>2. l.sent \in [Sockets -> Seq(Chunk)]
  BY LinkFields
<1>3. [l.sent EXCEPT ![s] = Append(l.sent[s], NextChunk(l, s, to))] \in [Sockets -> Seq(Chunk)]
  BY <1>1, <1>2
<1> QED
  BY <1>3 DEF SentOne, Sent, LinkRec, NextChunk

LEMMA WriteFields ==
    ASSUME NEW l, l \in LinkRec, NEW s \in Sockets, NEW x \in Chunk
    PROVE  WroteOne(l, s, x, uv_write(l, s, x))
<1>1. l.queue \in [Sockets -> Seq(Chunk)] /\ l.buffers \in Nat
  BY LinkFields
<1>2. [l.queue EXCEPT ![s] = Append(l.queue[s], x)] \in [Sockets -> Seq(Chunk)] /\ l.buffers + 1 \in Nat
  BY <1>1
<1> QED
  BY <1>2 DEF WroteOne, uv_write, LinkRec

(* What Parsed makes of the data of a connection nothing was read from.    *)
ParsedAs(l, mode, to, x, m) ==
    /\ m \in LinkRec /\ x \in Chunk
    /\ m.connect_mode = mode /\ m.host = to /\ m.queue = l.queue /\ m.got = l.got
    /\ m.sent = [l.sent EXCEPT !["proxyClient"] = <<x>>]
    /\ mode = "PROXY_HTTPS" => m.send_buf = <<>> /\ m.buffers = l.buffers
    /\ mode = "PROXY_HTTP" => m.send_buf = <<x>> /\ m.buffers = l.buffers + 1

LEMMA ParsedFields ==
    ASSUME NEW l, l \in LinkRec, CanRead(l, "proxyClient"), l.sent["proxyClient"] = <<>>,
           l.send_buf = <<>>, NEW mode \in Modes, NEW to \in Hosts
    PROVE  ParsedAs(l, mode, to, NextChunk(l, "proxyClient", to), Parsed(l, mode, to))
<1> DEFINE x    == NextChunk(l, "proxyClient", to)
           read == Sent(l, "proxyClient", to)
           set  == [read EXCEPT !.connect_mode = mode, !.host = to]
           keep == [set EXCEPT !.send_buf = <<x>>, !.buffers = @ + 1]
<1>1. "proxyClient" \in Sockets /\ to \in Hosts \cup {"reply"}
  BY DEF Sockets
<1>2. x \in Chunk /\ SentOne(l, "proxyClient", x, read)
  BY <1>1, ChunkFact, SentFields
<1>3. mode \in {"PROXY_HTTP", "PROXY_HTTPS"}
  BY ModesAssumption
<1>4. Parsed(l, mode, to) = IF mode = "PROXY_HTTPS" THEN set ELSE keep
  BY DEF Parsed, NextChunk
<1> HIDE DEF read, x
<1>5. /\ set \in LinkRec /\ set.connect_mode = mode /\ set.host = to
      /\ set.send_buf = <<>> /\ set.queue = read.queue /\ set.got = read.got
      /\ set.buffers = read.buffers /\ set.sent = read.sent
  BY <1>2, <1>3 DEF LinkRec, SentOne
<1> HIDE DEF set
<1>6. /\ keep \in LinkRec /\ keep.connect_mode = mode /\ keep.host = to
      /\ keep.send_buf = <<x>> /\ keep.queue = set.queue /\ keep.got = set.got
      /\ keep.buffers = set.buffers + 1 /\ keep.sent = set.sent
  <2>1. keep = [set EXCEPT !.send_buf = <<x>>, !.buffers = set.buffers + 1] /\ set.buffers + 1 \in Nat
    BY <1>5 DEF LinkRec
  <2>2. <<x>> \in Seq(Chunk)
    BY <1>2
  <2>3. [set EXCEPT !.send_buf = <<x>>, !.buffers = set.buffers + 1] \in LinkRec
    BY <1>5, <2>1, <2>2 DEF LinkRec
  <2> QED
    BY <1>5, <2>1, <2>3 DEF LinkRec
<1> HIDE DEF keep
<1>7. read.sent = [l.sent EXCEPT !["proxyClient"] = <<x>>]
  <2>1. Append(l.sent["proxyClient"], x) = <<x>>
    OBVIOUS
  <2> QED
    BY <1>2, <2>1 DEF SentOne
<1> DEFINE m == Parsed(l, mode, to)
<1>8. m \in {set, keep}
  BY <1>4
<1>9. /\ m \in LinkRec /\ m.connect_mode = mode /\ m.host = to
      /\ m.queue = l.queue /\ m.got = l.got /\ m.sent = read.sent
  BY <1>2, <1>5, <1>6, <1>8 DEF SentOne
<1>10. /\ mode = "PROXY_HTTPS" => m.send_buf = <<>> /\ m.buffers = l.buffers
       /\ mode = "PROXY_HTTP" => m.send_buf = <<x>> /\ m.buffers = l.buffers + 1
  BY <1>2, <1>4, <1>5, <1>6 DEF SentOne
<1> HIDE DEF m
<1>11. ParsedAs(l, mode, to, x, m)
  BY <1>2, <1>7, <1>9, <1>10 DEF ParsedAs
<1> QED
  BY <1>11 DEF m, x

(* What Connected makes of the data: the tunnel confirmed, or the request  *)
(* handed on.                                                              *)
Confirmed(l, m) == WroteOne(l, "proxyClient", Established, m)

HandedOn(l, m) ==
    /\ m \in LinkRec
    /\ m.connect_mode = l.connect_mode /\ m.host = l.host
    /\ m.sent = l.sent /\ m.got = l.got
    /\ m.send_buf = <<>> /\ m.buffers = l.buffers
    /\ m.queue = [l.queue EXCEPT !["targetClient"] = l.queue["targetClient"] \o l.send_buf]

LEMMA ConnectedFields ==
    ASSUME NEW l, l \in LinkRec
    PROVE  \/ l.connect_mode = "PROXY_HTTPS" /\ Confirmed(l, Connected(l))
           \/ l.connect_mode = "PROXY_HTTP" /\ HandedOn(l, Connected(l))
<1>1. CASE l.connect_mode = "PROXY_HTTPS"
  <2>1. Connected(l) = uv_write(l, "proxyClient", Established) /\ Established \in Chunk
    BY <1>1 DEF Connected, Chunk
  <2>2. "proxyClient" \in Sockets
    BY DEF Sockets
  <2> QED
    BY <1>1, <2>1, <2>2, WriteFields DEF Confirmed
<1>2. CASE l.connect_mode = "PROXY_HTTP"
  <2> DEFINE q == [l.queue EXCEPT !["targetClient"] = l.queue["targetClient"] \o l.send_buf]
  <2>1. q \in [Sockets -> Seq(Chunk)]
    BY LinkFields
  <2>2. Connected(l) = [l EXCEPT !.queue = q, !.send_buf = <<>>]
    BY <1>2 DEF Connected, LinkRec
  <2>3. <<>> \in Seq(Chunk)
    OBVIOUS
  <2> HIDE DEF q
  <2>4. [l EXCEPT !.queue = q, !.send_buf = <<>>] \in LinkRec
    BY <2>1, <2>3 DEF LinkRec
  <2> QED
    BY <1>2, <2>2, <2>4 DEF LinkRec, q, HandedOn
<1> QED
  BY <1>1, <1>2, LinkFields

(* A queue is part of the sum.                                             *)
LEMMA QueueInSum ==
    ASSUME NEW l, l \in LinkRec, NEW s \in Sockets, Owned(l)
    PROVE  /\ l.buffers - Len(l.queue[s]) \in Nat
           /\ Len(l.queue[s]) > 0 => l.buffers - 1 \in Nat
<1> DEFINE a == Len(l.queue["proxyClient"])
           b == Len(l.queue["targetClient"])
           k == Len(l.send_buf)
           n == l.buffers
           q == Len(l.queue[s])
<1>1. a \in Nat /\ b \in Nat /\ k \in Nat
  BY LinkFields
<1>2. n = a + b + k
  BY DEF Owned
<1>3. q \in {a, b}
  BY DEF Sockets
<1> HIDE DEF a, b, k, n, q
<1>4. n - q \in Nat /\ (q > 0 => n - 1 \in Nat)
  BY <1>1, <1>2, <1>3
<1> QED
  BY <1>4 DEF n, q

(* What on_write, and the close of a handle, make of the data.             *)
WrittenAs(l, s, m) ==
    /\ m \in LinkRec
    /\ m.connect_mode = l.connect_mode /\ m.host = l.host /\ m.send_buf = l.send_buf
    /\ m.sent = l.sent /\ m.buffers = l.buffers - 1
    /\ m.got = [l.got EXCEPT ![s] = Append(l.got[s], Head(l.queue[s]))]
    /\ m.queue = [l.queue EXCEPT ![s] = Tail(l.queue[s])]

DroppedAs(l, h, m) ==
    /\ m \in LinkRec
    /\ m.connect_mode = l.connect_mode /\ m.host = l.host /\ m.send_buf = l.send_buf
    /\ m.sent = l.sent /\ m.got = l.got
    /\ IF h \in Sockets
       THEN /\ m.queue = [l.queue EXCEPT ![h] = <<>>]
            /\ m.buffers = l.buffers - Len(l.queue[h])
       ELSE m = l

LEMMA WrittenFields ==
    ASSUME NEW l, l \in LinkRec, NEW s \in Sockets, l.queue[s] # <<>>, Owned(l)
    PROVE  WrittenAs(l, s, [l EXCEPT !.got[s]   = Append(@, Head(l.queue[s])),
                                     !.queue[s] = Tail(@),
                                     !.buffers  = @ - 1])
<1> DEFINE g == [l.got EXCEPT ![s] = Append(l.got[s], Head(l.queue[s]))]
           q == [l.queue EXCEPT ![s] = Tail(l.queue[s])]
<1>1. l.queue \in [Sockets -> Seq(Chunk)] /\ l.got \in [Sockets -> Seq(Chunk)]
  BY LinkFields
<1>2. Head(l.queue[s]) \in Chunk /\ Tail(l.queue[s]) \in Seq(Chunk) /\ Len(l.queue[s]) > 0
  BY <1>1
<1>3. g \in [Sockets -> Seq(Chunk)] /\ q \in [Sockets -> Seq(Chunk)]
  BY <1>1, <1>2
<1>4. l.buffers - 1 \in Nat
  BY <1>2, QueueInSum
<1> HIDE DEF g, q
<1>5. [l EXCEPT !.got = g, !.queue = q, !.buffers = l.buffers - 1] \in LinkRec
  BY <1>3, <1>4 DEF LinkRec
<1> QED
  BY <1>5 DEF LinkRec, g, q, WrittenAs

LEMMA DroppedFields ==
    ASSUME NEW l, l \in LinkRec, NEW h \in Handles, Owned(l)
    PROVE  DroppedAs(l, h, Dropped(l, h))
<1>1. CASE h \in Sockets
  <2> DEFINE q == [l.queue EXCEPT ![h] = <<>>]
  <2>1. q \in [Sockets -> Seq(Chunk)]
    BY LinkFields
  <2>2. l.buffers - Len(l.queue[h]) \in Nat
    BY <1>1, QueueInSum
  <2>3. Dropped(l, h) = [l EXCEPT !.queue = q, !.buffers = l.buffers - Len(l.queue[h])]
    BY <1>1 DEF Dropped, LinkRec
  <2> HIDE DEF q
  <2>4. [l EXCEPT !.queue = q, !.buffers = l.buffers - Len(l.queue[h])] \in LinkRec
    BY <2>1, <2>2 DEF LinkRec
  <2> QED
    BY <1>1, <2>3, <2>4 DEF LinkRec, q, DroppedAs
<1>2. CASE h \notin Sockets
  BY <1>2 DEF Dropped, DroppedAs
<1> QED
  BY <1>1, <1>2
-----------------------------------------------------------------------------
(* Linked is kept, move by move.                                           *)
LEMMA LinkedQuiet ==
    ASSUME NEW cl, NEW new, NEW l, Linked(cl, l), Forward(cl, new)
    PROVE  Linked(new, l)
BY DEF Linked, Stage, Early, Kept, Forward, Onward, Ended, Sockets

(* The struct of a connection whose request was just accepted.             *)
LEMMA HostedFields ==
    ASSUME NEW cl, Typed(cl)
    PROVE  LET hosted == [cl EXCEPT !.host = TRUE]
           IN  /\ hosted.host = TRUE /\ hosted.handle = cl.handle
               /\ hosted.connecting = cl.connecting /\ hosted.state = cl.state
BY DEF Typed, ClientRec

LEMMA LinkedAsked ==
    ASSUME NEW cl, NEW new, NEW l, NEW m, Linked(cl, l), Asked(cl, new, l, m)
    PROVE  Linked(new, m)
<1> DEFINE hosted == [cl EXCEPT !.host = TRUE]
<1>1. PICK mode \in Modes, to \in Hosts : m = Parsed(l, mode, to)
  BY DEF Asked
<1> DEFINE x == NextChunk(l, "proxyClient", to)
<1>2. /\ l \in LinkRec /\ l.sent["proxyClient"] = <<>> /\ l.send_buf = <<>>
      /\ CanRead(l, "proxyClient") /\ cl.state # 1
      /\ l.got = Nothing /\ l.queue["proxyClient"] = <<>> /\ l.queue["targetClient"] = <<>>
      /\ l.sent["targetClient"] = <<>> /\ l.buffers = 0
  <2>1. /\ l \in LinkRec /\ l.sent["proxyClient"] = <<>> /\ l.send_buf = <<>>
        /\ CanRead(l, "proxyClient") /\ cl.state # 1
        /\ l.got = Nothing /\ l.queue["proxyClient"] = <<>>
        /\ l.sent["targetClient"] = <<>>
    BY DEF Asked, Linked, Stage, Early, Ended
  <2>2. l.queue["targetClient"] = <<>>
    BY DEF Asked, Linked, Sockets
  <2> QED
    BY <2>1, <2>2 DEF Linked, Owned
<1>3. ParsedAs(l, mode, to, x, m)
  BY <1>1, <1>2, ParsedFields
<1>4. /\ hosted.host = TRUE /\ hosted.handle = cl.handle
      /\ hosted.connecting = cl.connecting /\ hosted.state = cl.state
      /\ Forward(hosted, new)
  BY HostedFields DEF Asked
<1> HIDE DEF hosted, x
<1>5. /\ m.sent["proxyClient"] = <<x>> /\ m.sent["targetClient"] = <<>>
      /\ m.queue = l.queue /\ m.got = Nothing /\ m.host = to /\ m.connect_mode = mode
      /\ mode \in {"PROXY_HTTP", "PROXY_HTTPS"} /\ Len(<<x>>) = 1
      /\ mode = "PROXY_HTTPS" => m.send_buf = <<>> /\ m.buffers = 0
      /\ mode = "PROXY_HTTP" => m.send_buf = <<x>> /\ m.buffers = 1
  BY <1>2, <1>3, LinkFields, ModesAssumption DEF ParsedAs
<1>6. Stage(new, m)
  BY <1>2, <1>4, <1>5 DEF Asked, Forward, Onward, Stage, Sockets
<1>7. Early(new, m)
  BY <1>2, <1>5 DEF Early
<1>8. Kept(new, m)
  <2>1. new.handle["targetClient"] = "open" => new.connecting = TRUE
    BY <1>4 DEF Asked, Forward
  <2>2. CASE mode = "PROXY_HTTPS"
    BY <1>5, <2>2 DEF Kept
  <2>3. CASE mode = "PROXY_HTTP"
    <3>1. Len(m.send_buf) = 1
      BY <1>5, <2>3
    <3> QED
      BY <1>2, <1>5, <2>1, <2>3, <3>1, Zenon DEF Kept
  <2> QED
    BY <1>5, <2>2, <2>3
<1>9. Owned(m)
  <2>1. m.queue["proxyClient"] = <<>> /\ m.queue["targetClient"] = <<>>
    BY <1>2, <1>5
  <2>2. m.buffers = Len(m.send_buf)
    <3>1. CASE mode = "PROXY_HTTPS"
      BY <1>5, <3>1
    <3>2. CASE mode = "PROXY_HTTP"
      BY <1>5, <3>2
    <3> QED
      BY <1>5, <3>1, <3>2
  <2>3. m.send_buf \in Seq(Chunk)
    BY <1>3, LinkFields DEF ParsedAs
  <2> QED
    BY <2>1, <2>2, <2>3 DEF Owned
<1>10. \A s \in Sockets : m.queue[s] = <<>>
  BY <1>2, <1>5 DEF Sockets
<1> QED
  BY <1>3, <1>6, <1>7, <1>8, <1>9, <1>10 DEF Linked, ParsedAs

LEMMA LinkedTurned ==
    ASSUME NEW cl, NEW new, NEW l, NEW m, Linked(cl, l), Turned(cl, new, l, m)
    PROVE  Linked(new, m)
<1>1. PICK to \in Hosts : m = Sent(l, "proxyClient", to)
  BY DEF Turned
<1> DEFINE x == NextChunk(l, "proxyClient", to)
<1>2. /\ l \in LinkRec /\ "proxyClient" \in Sockets /\ CanRead(l, "proxyClient")
      /\ to \in Hosts \cup {"reply"}
  BY DEF Turned, Linked, Sockets
<1>3. SentOne(l, "proxyClient", x, m)
  BY <1>1, <1>2, SentFields
<1> HIDE DEF x
<1>4. l.sent["proxyClient"] = <<>> /\ Forward(cl, new) /\ Ended(new.handle["proxyClient"])
  BY DEF Turned, Linked, Stage, Ended
<1>5. m.sent["proxyClient"] = <<x>> /\ m.sent["targetClient"] = l.sent["targetClient"] /\ Len(<<x>>) = 1
  BY <1>2, <1>3, <1>4, LinkFields DEF SentOne
<1>6. Linked(new, l)
  BY <1>4, LinkedQuiet
<1>7. Stage(new, m)
  <2>1. Stage(new, l)
    BY <1>6 DEF Linked
  <2>2. new.host = FALSE
    BY DEF Turned, Forward
  <2> QED
    BY <1>3, <1>4, <1>5, <2>1, <2>2 DEF Stage, SentOne
<1> QED
  BY <1>3, <1>5, <1>6, <1>7 DEF Linked, Early, Kept, Owned, SentOne
(* The sum follows the lengths.                                            *)
Shift(l, m, p, t, b) ==
    /\ Len(m.queue["proxyClient"]) = Len(l.queue["proxyClient"]) + p
    /\ Len(m.queue["targetClient"]) = Len(l.queue["targetClient"]) + t
    /\ Len(m.send_buf) = Len(l.send_buf) + b
    /\ m.buffers = l.buffers + (p + t + b)

LEMMA Lengths ==
    ASSUME NEW l, l \in LinkRec
    PROVE  /\ Len(l.queue["proxyClient"]) \in Nat /\ Len(l.queue["targetClient"]) \in Nat
           /\ Len(l.send_buf) \in Nat /\ l.buffers \in Nat
BY LinkFields

LEMMA OwnedShift ==
    ASSUME NEW l, l \in LinkRec, Owned(l), NEW m, NEW p \in Int, NEW t \in Int, NEW b \in Int,
           Shift(l, m, p, t, b)
    PROVE  Owned(m)
<1> DEFINE lp == Len(l.queue["proxyClient"])
           lt == Len(l.queue["targetClient"])
           lb == Len(l.send_buf)
           mp == Len(m.queue["proxyClient"])
           mt == Len(m.queue["targetClient"])
           mb == Len(m.send_buf)
           n  == l.buffers
           k  == m.buffers
<1>1. lp \in Nat /\ lt \in Nat /\ lb \in Nat
  BY LinkFields
<1>2. n = lp + lt + lb /\ mp = lp + p /\ mt = lt + t /\ mb = lb + b /\ k = n + (p + t + b)
  BY DEF Owned, Shift
<1> HIDE DEF lp, lt, lb, mp, mt, mb, n, k
<1>3. k = mp + mt + mb
  BY <1>1, <1>2
<1> QED
  BY <1>3 DEF Owned, mp, mt, mb, k

Requeued(l, s, q, m) == m.queue = [l.queue EXCEPT ![s] = q]

(* What that leaves at the two sockets.                                    *)
LEMMA QueueAt ==
    ASSUME NEW l, l \in LinkRec, NEW s \in Sockets, NEW q, NEW m, Requeued(l, s, q, m)
    PROVE  /\ s = "proxyClient" => /\ m.queue["proxyClient"] = q
                                   /\ m.queue["targetClient"] = l.queue["targetClient"]
           /\ s = "targetClient" => /\ m.queue["targetClient"] = q
                                    /\ m.queue["proxyClient"] = l.queue["proxyClient"]
           /\ l.queue[s] \in Seq(Chunk)
BY LinkFields DEF Requeued

(* A queue that grows or shrinks by k chunks, and nothing else.            *)
LEMMA OwnedQueue ==
    ASSUME NEW l, l \in LinkRec, Owned(l), NEW s \in Sockets, NEW q, NEW k \in Int, NEW m,
           Requeued(l, s, q, m), Len(q) = Len(l.queue[s]) + k,
           m.send_buf = l.send_buf, m.buffers = l.buffers + k
    PROVE  Owned(m)
<1> DEFINE lp == Len(l.queue["proxyClient"])
           lt == Len(l.queue["targetClient"])
           lb == Len(l.send_buf)
           n  == l.buffers
<1>1. lp \in Nat /\ lt \in Nat /\ lb \in Nat /\ n \in Nat
  BY Lengths
<1> HIDE DEF lp, lt, lb, n
<1>2. CASE s = "proxyClient"
  <2>1. Len(m.queue["proxyClient"]) = lp + k /\ Len(m.queue["targetClient"]) = lt
    <3>1. m.queue["proxyClient"] = q /\ m.queue["targetClient"] = l.queue["targetClient"]
      BY <1>2, QueueAt
    <3> QED
      BY <1>2, <3>1 DEF lp, lt
  <2>2. lt = lt + 0 /\ lb = lb + 0 /\ n + k = n + (k + 0 + 0)
    BY <1>1
  <2>3. Shift(l, m, k, 0, 0) /\ 0 \in Int
    BY <2>1, <2>2 DEF Shift, lp, lt, lb, n
  <2> QED
    BY <2>3, OwnedShift, Zenon
<1>3. CASE s = "targetClient"
  <2>1. Len(m.queue["targetClient"]) = lt + k /\ Len(m.queue["proxyClient"]) = lp
    <3>1. m.queue["targetClient"] = q /\ m.queue["proxyClient"] = l.queue["proxyClient"]
      BY <1>3, QueueAt
    <3> QED
      BY <1>3, <3>1 DEF lp, lt
  <2>2. lp = lp + 0 /\ lb = lb + 0 /\ n + k = n + (0 + k + 0)
    BY <1>1
  <2>3. Shift(l, m, 0, k, 0) /\ 0 \in Int
    BY <2>1, <2>2 DEF Shift, lp, lt, lb, n
  <2> QED
    BY <2>3, OwnedShift, Zenon
<1> QED
  BY <1>2, <1>3 DEF Sockets

LEMMA OwnedWrite ==
    ASSUME NEW l, l \in LinkRec, Owned(l), NEW s \in Sockets, NEW x \in Chunk, NEW m,
           WroteOne(l, s, x, m)
    PROVE  Owned(m)
<1> DEFINE q == Append(l.queue[s], x)
<1>1. Requeued(l, s, q, m) /\ m.buffers = l.buffers + 1 /\ m.send_buf = l.send_buf
  BY DEF WroteOne, Requeued
<1>2. l.queue[s] \in Seq(Chunk)
  BY LinkFields
<1>3. Len(q) = Len(l.queue[s]) + 1 /\ 1 \in Int
  BY <1>2
<1> HIDE DEF q
<1> QED
  BY <1>1, <1>3, OwnedQueue, Zenon

LEMMA OwnedWritten ==
    ASSUME NEW l, l \in LinkRec, Owned(l), NEW s \in Sockets, l.queue[s] # <<>>, NEW m,
           WrittenAs(l, s, m)
    PROVE  Owned(m)
<1> DEFINE q == Tail(l.queue[s])
<1>1. Requeued(l, s, q, m) /\ m.buffers = l.buffers - 1 /\ m.send_buf = l.send_buf
  BY DEF WrittenAs, Requeued
<1>2. l.queue[s] \in Seq(Chunk) /\ l.buffers \in Nat
  BY LinkFields
<1>3. Len(q) = Len(l.queue[s]) + (-1)
  BY <1>2
<1>4. m.buffers = l.buffers + (-1) /\ -1 \in Int
  BY <1>1, <1>2
<1> HIDE DEF q
<1> QED
  BY <1>1, <1>3, <1>4, OwnedQueue

LEMMA OwnedDropped ==
    ASSUME NEW l, l \in LinkRec, Owned(l), NEW s \in Sockets, NEW m, DroppedAs(l, s, m)
    PROVE  Owned(m)
<1> DEFINE k == Len(l.queue[s])
<1>1. Requeued(l, s, <<>>, m) /\ m.buffers = l.buffers - k /\ m.send_buf = l.send_buf
  BY DEF DroppedAs, Requeued
<1>2. k \in Nat /\ l.buffers \in Nat /\ Len(<<>>) = 0
  BY LinkFields
<1> HIDE DEF k
<1>3. Len(<<>>) = k + (-k) /\ m.buffers = l.buffers + (-k) /\ -k \in Int
  BY <1>1, <1>2
<1> QED
  BY <1>1, <1>3, OwnedQueue, Zenon DEF k

LEMMA OwnedHandedOn ==
    ASSUME NEW l, l \in LinkRec, Owned(l), NEW m, HandedOn(l, m)
    PROVE  Owned(m)
<1> DEFINE lp == Len(l.queue["proxyClient"])
           lt == Len(l.queue["targetClient"])
           lb == Len(l.send_buf)
           n  == l.buffers
<1>1. lp \in Nat /\ lt \in Nat /\ lb \in Nat /\ n \in Nat
  BY Lengths
<1>2. /\ m.queue["targetClient"] = l.queue["targetClient"] \o l.send_buf
      /\ m.queue["proxyClient"] = l.queue["proxyClient"]
      /\ m.send_buf = <<>> /\ m.buffers = n
  BY LinkFields DEF HandedOn
<1>3. l.queue["targetClient"] \in Seq(Chunk) /\ l.send_buf \in Seq(Chunk)
  BY LinkFields
<1>4. Len(m.queue["targetClient"]) = lt + lb /\ Len(m.send_buf) = 0
  BY <1>2, <1>3
<1>5. Len(m.queue["proxyClient"]) = lp
  BY <1>2
<1> HIDE DEF lp, lt, lb, n
<1>6. lp = lp + 0 /\ 0 = lb + (-lb) /\ n = n + (0 + lb + (-lb)) /\ -lb \in Int
  BY <1>1
<1>7. Shift(l, m, 0, lb, -lb)
  BY <1>2, <1>4, <1>5, <1>6 DEF Shift, lp, lt, lb, n
<1> QED
  BY <1>1, <1>6, <1>7, OwnedShift
LEMMA SentAt ==
    ASSUME NEW l, l \in LinkRec, NEW s \in Sockets, NEW x, NEW m, SentOne(l, s, x, m)
    PROVE  /\ m.sent[s] = Append(l.sent[s], x) /\ l.sent[s] \in Seq(Chunk)
           /\ \A r \in Sockets \ {s} : m.sent[r] = l.sent[r]
BY LinkFields DEF SentOne

LEMMA WroteAt ==
    ASSUME NEW l, l \in LinkRec, NEW s \in Sockets, NEW x, NEW m, WroteOne(l, s, x, m)
    PROVE  /\ m.queue[s] = Append(l.queue[s], x) /\ l.queue[s] \in Seq(Chunk)
           /\ \A r \in Sockets \ {s} : m.queue[r] = l.queue[r]
BY LinkFields DEF WroteOne

LEMMA WrittenAt ==
    ASSUME NEW l, l \in LinkRec, NEW s \in Sockets, NEW m, WrittenAs(l, s, m)
    PROVE  /\ m.queue[s] = Tail(l.queue[s]) /\ l.queue[s] \in Seq(Chunk)
           /\ m.got[s] = Append(l.got[s], Head(l.queue[s])) /\ l.got[s] \in Seq(Chunk)
           /\ \A r \in Sockets \ {s} : m.queue[r] = l.queue[r] /\ m.got[r] = l.got[r]
BY LinkFields DEF WrittenAs

LEMMA DroppedAt ==
    ASSUME NEW l, l \in LinkRec, NEW h \in Handles, NEW m, DroppedAs(l, h, m)
    PROVE  /\ h \in Sockets => m.queue[h] = <<>>
           /\ \A r \in Sockets \ {h} : m.queue[r] = l.queue[r]
BY LinkFields DEF DroppedAs

LEMMA TwoSockets ==
    /\ "proxyClient" \in Sockets /\ "targetClient" \in Sockets
    /\ "targetClient" \in Sockets \ {"proxyClient"} /\ "proxyClient" \in Sockets \ {"targetClient"}
    /\ Sockets \subseteq Handles
BY DEF Sockets, Handles

(* One more read from the client, its request being accepted.              *)
LEMMA LinkedSentUp ==
    ASSUME NEW cl, NEW l, NEW x, NEW m, Linked(cl, l), cl.host = TRUE,
           SentOne(l, "proxyClient", x, m)
    PROVE  Linked(cl, m)
<1>1. l \in LinkRec
  BY DEF Linked
<1>2. /\ m.sent["proxyClient"] = Append(l.sent["proxyClient"], x)
      /\ l.sent["proxyClient"] \in Seq(Chunk) /\ m.sent["targetClient"] = l.sent["targetClient"]
  BY <1>1, SentAt, TwoSockets
<1>3. Len(m.sent["proxyClient"]) = Len(l.sent["proxyClient"]) + 1 /\ Len(l.sent["proxyClient"]) \in Nat
  BY <1>2
<1>4. Len(l.sent["proxyClient"]) >= 1 => Len(m.sent["proxyClient"]) >= 1
  BY <1>3
<1>5. Stage(cl, m)
  BY <1>4 DEF SentOne, Linked, Stage
<1> QED
  BY <1>2, <1>5 DEF SentOne, Linked, Early, Kept, Owned

(* A write to a socket that may take it: for the client, one the target is *)
(* connected to and that has no request kept.                              *)
LEMMA LinkedWrite ==
    ASSUME NEW cl, NEW l, NEW s \in Sockets, NEW x \in Chunk, NEW m, Linked(cl, l),
           WroteOne(l, s, x, m), cl.handle[s] \in {"open", "closing"},
           s = "proxyClient" => /\ l.send_buf = <<>>
                                /\ cl.connecting # TRUE /\ cl.handle["targetClient"] # "none"
    PROVE  Linked(cl, m)
<1>1. l \in LinkRec /\ Owned(l)
  BY DEF Linked
<1>2. /\ m.queue[s] = Append(l.queue[s], x) /\ l.queue[s] \in Seq(Chunk)
      /\ \A r \in Sockets \ {s} : m.queue[r] = l.queue[r]
  BY <1>1, WroteAt
<1>3. s = "targetClient" => m.queue["proxyClient"] = l.queue["proxyClient"]
  BY <1>2, TwoSockets
<1>4. Owned(m)
  BY <1>1, OwnedWrite
<1>5. Stage(cl, m)
  BY DEF WroteOne, Linked, Stage
<1>6. Early(cl, m)
  BY <1>3 DEF WroteOne, Linked, Early, Sockets
<1>7. Kept(cl, m)
  BY <1>3 DEF WroteOne, Linked, Kept, Sockets
<1>8. \A r \in Sockets : m.queue[r] # <<>> => cl.handle[r] \in {"open", "closing"}
  BY <1>2 DEF Linked
<1> QED
  BY <1>4, <1>5, <1>6, <1>7, <1>8 DEF Linked, WroteOne

LEMMA LinkedPassed ==
    ASSUME NEW cl, NEW new, NEW l, NEW m, Linked(cl, l), Passed(cl, new, l, m)
    PROVE  Linked(new, m)
<1>1. PICK to \in Hosts :
          m = IF cl.handle["targetClient"] = "open"
                 /\ (cl.connecting = TRUE => EarlyWrite = "queued")
              THEN uv_write(Sent(l, "proxyClient", to), "targetClient", NextChunk(l, "proxyClient", to))
              ELSE Sent(l, "proxyClient", to)
  BY DEF Passed
<1> DEFINE x    == NextChunk(l, "proxyClient", to)
           read == Sent(l, "proxyClient", to)
<1>2. l \in LinkRec /\ to \in Hosts \cup {"reply"} /\ CanRead(l, "proxyClient") /\ new = cl /\ cl.host = TRUE
  BY DEF Linked, Passed
<1>3. SentOne(l, "proxyClient", x, read) /\ x \in Chunk
  BY <1>2, SentFields, ChunkFact, TwoSockets
<1> HIDE DEF x, read
<1>4. Linked(cl, read)
  BY <1>2, <1>3, LinkedSentUp
<1>5. CASE m = read
  BY <1>2, <1>4, <1>5
<1>6. CASE m = uv_write(read, "targetClient", x) /\ cl.handle["targetClient"] = "open"
  <2>1. read \in LinkRec
    BY <1>4 DEF Linked
  <2>2. WroteOne(read, "targetClient", x, m)
    BY <1>3, <1>6, <2>1, WriteFields, TwoSockets
  <2>3. "targetClient" \in Sockets /\ "targetClient" # "proxyClient"
        /\ cl.handle["targetClient"] \in {"open", "closing"}
    BY <1>6, TwoSockets
  <2>4. Linked(cl, m)
    BY <1>3, <1>4, <2>2, <2>3, LinkedWrite
  <2> QED
    BY <1>2, <2>4
<1> QED
  BY <1>1, <1>5, <1>6 DEF x, read
(* The struct of a connection whose connect is done.                       *)
LEMMA LinkedDone ==
    ASSUME NEW cl, NEW new, NEW l, Linked(cl, l), new.host = cl.host, new.state = cl.state,
           new.connecting # TRUE, \A s \in Sockets : Onward(cl.handle[s], new.handle[s]),
           l.send_buf = <<>> \/ new.handle["targetClient"] # "open"
    PROVE  Linked(new, l)
<1>1. Stage(new, l)
  BY DEF Linked, Stage, Onward, Ended, Sockets
<1>2. Early(new, l)
  BY DEF Linked, Early, Onward, Sockets
<1>3. Kept(new, l)
  BY DEF Linked, Kept
<1>4. \A s \in Sockets : l.queue[s] # <<>> => new.handle[s] \in {"open", "closing"}
  BY DEF Linked, Onward
<1> QED
  BY <1>1, <1>2, <1>3, <1>4 DEF Linked

LEMMA LinkedJoined ==
    ASSUME NEW cl, NEW new, NEW l, NEW m, Linked(cl, l), Joined(cl, new, l, m)
    PROVE  Linked(new, m)
<1>1. /\ new.host = cl.host /\ new.state = cl.state /\ new.connecting # TRUE
      /\ l \in LinkRec /\ Owned(l)
  BY DEF Joined, Linked
<1>2. CASE m = l /\ Ended(new.handle["targetClient"])
           /\ \A s \in Sockets : Onward(cl.handle[s], new.handle[s])
  <2>1. new.handle["targetClient"] # "open"
    BY <1>2 DEF Ended
  <2> QED
    BY <1>1, <1>2, <2>1, LinkedDone
<1>3. CASE new.handle = cl.handle /\ m = Connected(l) /\ \A s \in Sockets : cl.handle[s] = "open"
  <2>1. \A s \in Sockets : Onward(cl.handle[s], new.handle[s]) /\ new.handle[s] = "open"
    BY <1>3 DEF Onward
  <2>2. CASE l.connect_mode = "PROXY_HTTPS" /\ Confirmed(l, m)
    <3>1. l.send_buf = <<>>
      BY <2>2, LinkFields DEF Linked, Kept
    <3>2. Linked(new, l)
      BY <1>1, <2>1, <3>1, LinkedDone
    <3>3. /\ new.handle["proxyClient"] \in {"open", "closing"}
          /\ new.handle["targetClient"] # "none"
      BY <2>1, TwoSockets
    <3>4. Established \in Chunk
      BY DEF Chunk
    <3> QED
      BY <1>1, <2>2, <3>1, <3>2, <3>3, <3>4, LinkedWrite, TwoSockets DEF Confirmed
  <2>3. CASE l.connect_mode = "PROXY_HTTP" /\ HandedOn(l, m)
    <3>1. Stage(new, m)
      BY <1>1, <1>3, <2>3 DEF Linked, Stage, HandedOn
    <3>2. Early(new, m) /\ Kept(new, m)
      BY <1>1, <2>1, <2>3, TwoSockets DEF Early, Kept, HandedOn
    <3>3. Owned(m)
      BY <1>1, <2>3, OwnedHandedOn
    <3>4. \A s \in Sockets : m.queue[s] # <<>> => new.handle[s] \in {"open", "closing"}
      BY <2>1
    <3> QED
      BY <2>3, <3>1, <3>2, <3>3, <3>4 DEF Linked, HandedOn
  <2> QED
    BY <1>1, <1>3, <2>2, <2>3, ConnectedFields
<1> QED
  BY <1>2, <1>3 DEF Joined

LEMMA LinkedAnswered ==
    ASSUME NEW cl, NEW new, NEW l, NEW m, Linked(cl, l), Answered(cl, new, l, m)
    PROVE  Linked(new, m)
<1> DEFINE x    == NextChunk(l, "targetClient", "reply")
           read == Sent(l, "targetClient", "reply")
<1>1. /\ l \in LinkRec /\ "reply" \in Hosts \cup {"reply"} /\ CanRead(l, "targetClient") /\ new = cl
      /\ cl.handle["targetClient"] = "open" /\ cl.connecting # TRUE
  BY DEF Linked, Answered
<1>2. SentOne(l, "targetClient", x, read) /\ x \in Chunk
  BY <1>1, SentFields, ChunkFact, TwoSockets
<1>3. m = IF cl.handle["proxyClient"] = "open" THEN uv_write(read, "proxyClient", x) ELSE read
  BY DEF Answered
<1> HIDE DEF x, read
<1>4. l.send_buf = <<>>
  BY <1>1 DEF Linked, Kept
<1>5. read.sent["proxyClient"] = l.sent["proxyClient"]
  BY <1>1, <1>2, SentAt, TwoSockets
<1>6. Linked(cl, read)
  <2>1. Stage(cl, read)
    BY <1>2, <1>5 DEF Linked, Stage, SentOne
  <2>2. Early(cl, read) /\ Kept(cl, read)
    BY <1>1, <1>2, <1>4 DEF Early, Kept, SentOne
  <2> QED
    BY <1>2, <2>1, <2>2 DEF Linked, Owned, SentOne
<1>7. CASE m = read
  BY <1>1, <1>6, <1>7
<1>8. CASE m = uv_write(read, "proxyClient", x) /\ cl.handle["proxyClient"] = "open"
  <2>1. read \in LinkRec /\ read.send_buf = <<>>
    BY <1>2, <1>4 DEF SentOne
  <2>2. WroteOne(read, "proxyClient", x, m)
    BY <1>2, <1>8, <2>1, WriteFields, TwoSockets
  <2>3. /\ cl.handle["proxyClient"] \in {"open", "closing"}
        /\ cl.handle["targetClient"] # "none"
    BY <1>1, <1>8
  <2>4. Linked(cl, m)
    BY <1>1, <1>2, <1>6, <2>1, <2>2, <2>3, LinkedWrite, TwoSockets
  <2> QED
    BY <1>1, <2>4
<1> QED
  BY <1>3, <1>7, <1>8

LEMMA LinkedWritten ==
    ASSUME NEW cl, NEW new, NEW l, NEW m, Linked(cl, l), Written(cl, new, l, m)
    PROVE  Linked(new, m)
<1>1. PICK s \in Sockets :
          /\ cl.handle[s] = "open"
          /\ s = "targetClient" => cl.connecting # TRUE
          /\ l.queue[s] # <<>>
          /\ m = [l EXCEPT !.got[s]   = Append(@, Head(l.queue[s])),
                           !.queue[s] = Tail(@),
                           !.buffers  = @ - 1]
  BY DEF Written
<1>2. l \in LinkRec /\ Owned(l) /\ new = cl
  BY DEF Linked, Written
<1>3. WrittenAs(l, s, m)
  BY <1>1, <1>2, WrittenFields
<1>4. s = "targetClient" => cl.connecting # TRUE
  BY <1>1
<1>5. /\ m.queue[s] = Tail(l.queue[s])
      /\ \A r \in Sockets \ {s} : m.queue[r] = l.queue[r]
  BY <1>2, <1>3, WrittenAt
<1>6. ~(cl.connecting = TRUE \/ cl.handle["targetClient"] = "none") /\ l.send_buf = <<>>
  <2>1. CASE s = "proxyClient"
    BY <1>1, <2>1 DEF Linked, Early, Kept
  <2>2. CASE s = "targetClient"
    BY <1>1, <1>4, <2>2 DEF Linked, Kept
  <2> QED
    BY <2>1, <2>2 DEF Sockets
<1>7. Stage(cl, m)
  BY <1>3 DEF Linked, Stage, WrittenAs
<1>8. Early(cl, m) /\ Kept(cl, m)
  BY <1>3, <1>6 DEF Early, Kept, WrittenAs
<1>9. Owned(m)
  BY <1>1, <1>2, <1>3, OwnedWritten
<1>10. \A r \in Sockets : m.queue[r] # <<>> => cl.handle[r] \in {"open", "closing"}
  BY <1>1, <1>5 DEF Linked
<1> QED
  BY <1>2, <1>3, <1>7, <1>8, <1>9, <1>10 DEF Linked, WrittenAs

LEMMA LinkedGone ==
    ASSUME NEW cl, NEW new, NEW l, NEW m, Linked(cl, l), Gone(cl, new, l, m)
    PROVE  Linked(new, m)
<1>1. PICK h \in Handles :
          /\ cl.handle[h] = "closing"
          /\ h = "targetClient" => cl.connecting # TRUE
          /\ \A s \in Sockets : new.handle[s] = IF s = h THEN "closed" ELSE cl.handle[s]
          /\ m = Dropped(l, h)
  BY DEF Gone
<1>2. l \in LinkRec /\ Owned(l)
  BY DEF Linked
<1>3. DroppedAs(l, h, m)
  BY <1>1, <1>2, DroppedFields
<1>4. /\ h \in Sockets => m.queue[h] = <<>>
      /\ \A r \in Sockets \ {h} : m.queue[r] = l.queue[r]
  BY <1>2, <1>3, DroppedAt
<1>5. /\ m.connect_mode = l.connect_mode /\ m.host = l.host /\ m.send_buf = l.send_buf
      /\ m.sent = l.sent /\ m.got = l.got /\ m \in LinkRec
  BY <1>3 DEF DroppedAs
<1>6. /\ new.host = cl.host /\ new.state = cl.state /\ new.connecting = cl.connecting
  BY DEF Gone
<1>7. \A s \in Sockets : /\ new.handle[s] = "none" <=> cl.handle[s] = "none"
                         /\ new.handle[s] = "open" <=> cl.handle[s] = "open"
                         /\ Ended(cl.handle[s]) <=> Ended(new.handle[s])
  BY <1>1 DEF Ended
<1>8. Stage(new, m)
  BY <1>5, <1>6, <1>7, TwoSockets DEF Linked, Stage
<1>9. l.queue["proxyClient"] = <<>> => m.queue["proxyClient"] = <<>>
  BY <1>4, TwoSockets
<1>10. Early(new, m)
  BY <1>5, <1>6, <1>7, <1>9, TwoSockets DEF Linked, Early
<1>11. Kept(new, m)
  BY <1>5, <1>6, <1>7, <1>9, TwoSockets DEF Linked, Kept
<1>12. Owned(m)
  <2>1. CASE h \in Sockets
    BY <1>2, <1>3, <2>1, OwnedDropped
  <2>2. CASE h \notin Sockets
    BY <1>2, <1>3, <2>2 DEF DroppedAs
  <2> QED
    BY <2>1, <2>2
<1>13. \A s \in Sockets : m.queue[s] # <<>> => new.handle[s] \in {"open", "closing"}
  BY <1>1, <1>4 DEF Linked
<1> QED
  BY <1>5, <1>8, <1>10, <1>11, <1>12, <1>13 DEF Linked

LEMMA LinkedMoves ==
    ASSUME NEW cl, NEW new, NEW l, NEW m, Linked(cl, l), Moves(cl, new, l, m)
    PROVE  Linked(new, m)
<1>1. CASE Quiet(cl, new, l, m)
  BY <1>1, LinkedQuiet DEF Quiet
<1> QED
  BY <1>1, LinkedAsked, LinkedTurned, LinkedPassed, LinkedJoined, LinkedAnswered, LinkedWritten,
     LinkedGone DEF Moves
-----------------------------------------------------------------------------
(* Sequences.                                                              *)
LEMMA AppendToConcat ==
    ASSUME NEW S, NEW a \in Seq(S), NEW b \in Seq(S), NEW x \in S
    PROVE  a \o Append(b, x) = Append(a \o b, x)
OBVIOUS

LEMMA HeadMoves ==
    ASSUME NEW S, NEW a \in Seq(S), NEW b \in Seq(S), b # <<>>
    PROVE  /\ Append(a, Head(b)) \o Tail(b) = a \o b
           /\ Len(a) < Len(a \o b) /\ (a \o b)[Len(a) + 1] = Head(b)
OBVIOUS

LEMMA ConcatAssoc ==
    ASSUME NEW S, NEW a \in Seq(S), NEW b \in Seq(S), NEW c \in Seq(S)
    PROVE  (a \o b) \o c = a \o (b \o c)
OBVIOUS

LEMMA ConcatEmpty ==
    ASSUME NEW S, NEW a \in Seq(S)
    PROVE  a \o <<>> = a /\ <<>> \o a = a /\ <<>> \in Seq(S)
OBVIOUS

(* What is for the target of a stream of one chunk, and of one more.       *)
LEMMA SubSeqOne ==
    ASSUME NEW S, NEW x \in S
    PROVE  /\ SubSeq(<<x>>, 1, Len(<<x>>)) = <<x>> /\ SubSeq(<<x>>, 2, Len(<<x>>)) = <<>>
           /\ SubSeq(<<>>, 2, Len(<<>>)) = <<>>
<1>1. <<x>> \in Seq(S) /\ Len(<<x>>) = 1 /\ <<>> \in Seq(S) /\ Len(<<>>) = 0
  OBVIOUS
<1>2. SubSeq(<<x>>, 1, Len(<<x>>)) = <<x>>
  BY <1>1, SubSeqFull
<1>3. SubSeq(<<x>>, 2, Len(<<x>>)) = <<>> /\ SubSeq(<<>>, 2, Len(<<>>)) = <<>>
  BY <1>1, SubSeqEmpty
<1> QED
  BY <1>2, <1>3

LEMMA SubSeqMore ==
    ASSUME NEW S, NEW a \in Seq(S), Len(a) >= 1, NEW x \in S, NEW k \in {1, 2}
    PROVE  SubSeq(Append(a, x), k, Len(Append(a, x))) = Append(SubSeq(a, k, Len(a)), x)
<1>1. Len(Append(a, x)) = Len(a) + 1 /\ Len(a) \in Nat
  OBVIOUS
<1> QED
  BY <1>1

LEMMA ForClientFields ==
    ASSUME NEW l, l \in LinkRec
    PROVE  /\ l.host = "none" => ForClient(l) = l.sent["targetClient"]
           /\ l.connect_mode = "PROXY_HTTP" => ForClient(l) = l.sent["targetClient"]
           /\ l.connect_mode = "PROXY_HTTPS" /\ l.host \in Hosts =>
                 ForClient(l) = <<Established>> \o l.sent["targetClient"]
           /\ ForClient(l) \in Seq(Chunk)
<1>1. l.sent["targetClient"] \in Seq(Chunk) /\ "PROXY_HTTP" # "PROXY_HTTPS"
  BY LinkFields
<1>2. Established \in Chunk
  BY DEF Chunk
<1> HIDE DEF Established
<1>3. <<Established>> \in Seq(Chunk)
  BY <1>2
<1>4. <<Established>> \o l.sent["targetClient"] \in Seq(Chunk)
  BY <1>1, <1>3
<1> QED
  BY <1>1, <1>3, <1>4, ConcatEmpty, HostsAssumption DEF ForClient

LEMMA ForTargetFields ==
    ASSUME NEW l, l \in LinkRec
    PROVE  /\ l.connect_mode = "PROXY_HTTP" =>
                 ForTarget(l) = SubSeq(l.sent["proxyClient"], 1, Len(l.sent["proxyClient"]))
           /\ l.connect_mode = "PROXY_HTTPS" =>
                 ForTarget(l) = SubSeq(l.sent["proxyClient"], 2, Len(l.sent["proxyClient"]))
BY LinkFields DEF ForTarget

-----------------------------------------------------------------------------
(* A step of one pipe, from what was put in, what came out and whether it  *)
(* is open.                                                                *)
PipeMove(s, r, o, s2, r2, o2) ==
    \/ (\E x \in Chunk : s2 = Append(s, x)) /\ r2 = r /\ o2 \in {o, FALSE}
    \/ s2 = s /\ r2 = Append(r, s[Len(r) + 1]) /\ Len(r) < Len(s) /\ o = TRUE /\ o2 = TRUE
    \/ s2 = s /\ r2 = r /\ o2 \in {o, FALSE}

DownMove(cl, new, l, m) ==
    PipeMove(ForClient(l), l.got["proxyClient"], cl.handle["proxyClient"] \notin {"closing", "closed"},
             ForClient(m), m.got["proxyClient"], new.handle["proxyClient"] \notin {"closing", "closed"})

UpMove(cl, new, l, m) ==
    PipeMove(ForTarget(l), l.got["targetClient"], cl.handle["targetClient"] \notin {"closing", "closed"},
             ForTarget(m), m.got["targetClient"], new.handle["targetClient"] \notin {"closing", "closed"})

(* No socket is revived.                                                   *)
LEMMA EndsOnce ==
    ASSUME NEW cl, NEW new, NEW l, NEW m, Moves(cl, new, l, m)
    PROVE  \A s \in Sockets : Ended(cl.handle[s]) => Ended(new.handle[s])
<1>1. CASE Asked(cl, new, l, m)
  BY <1>1, HostedFields DEF Asked, Forward, Onward, Ended
<1>2. CASE Gone(cl, new, l, m)
  BY <1>2 DEF Gone, Ended
<1> QED
  BY <1>1, <1>2 DEF Moves, Quiet, Turned, Passed, Joined, Answered, Written, Forward, Onward, Ended

(* The pipe stands still, or takes one chunk more; either way it may be    *)
(* cut.                                                                    *)
LEMMA PipeStill ==
    ASSUME NEW s, NEW r, NEW o \in BOOLEAN, NEW o2 \in BOOLEAN, o2 => o
    PROVE  /\ PipeMove(s, r, o, s, r, o2)
           /\ \A x \in Chunk : PipeMove(s, r, o, Append(s, x), r, o2)
BY DEF PipeMove
-----------------------------------------------------------------------------
(* The way to the client, move by move.                                    *)
LEMMA DownStill ==
    ASSUME NEW cl, NEW new, NEW l, NEW m,
           Ended(cl.handle["proxyClient"]) => Ended(new.handle["proxyClient"]),
           ForClient(m) = ForClient(l), m.got["proxyClient"] = l.got["proxyClient"]
    PROVE  DownMove(cl, new, l, m)
BY PipeStill DEF DownMove, Ended

LEMMA DownSame ==
    ASSUME NEW cl, NEW new, NEW l, NEW m, DownKept(cl, l),
           Ended(cl.handle["proxyClient"]) => Ended(new.handle["proxyClient"]),
           new.handle["targetClient"] = "open" /\ new.connecting # TRUE =>
               cl.handle["targetClient"] = "open" /\ cl.connecting # TRUE,
           ForClient(m) = ForClient(l), m.got["proxyClient"] = l.got["proxyClient"],
           m.queue["proxyClient"] = l.queue["proxyClient"],
           m.sent["targetClient"] = l.sent["targetClient"]
    PROVE  DownKept(new, m) /\ DownMove(cl, new, l, m)
<1>1. DownKept(new, m)
  BY DEF DownKept
<1> QED
  BY <1>1, DownStill

LEMMA DownAsked ==
    ASSUME NEW cl, NEW new, NEW l, NEW m, Linked(cl, l), DownKept(cl, l), Asked(cl, new, l, m)
    PROVE  DownKept(new, m) /\ DownMove(cl, new, l, m)
<1> DEFINE hosted == [cl EXCEPT !.host = TRUE]
<1>1. PICK mode \in Modes, to \in Hosts : m = Parsed(l, mode, to)
  BY DEF Asked
<1> DEFINE x == NextChunk(l, "proxyClient", to)
<1>2. /\ l \in LinkRec /\ l.sent["proxyClient"] = <<>> /\ l.send_buf = <<>> /\ l.host = "none"
      /\ CanRead(l, "proxyClient") /\ l.got = Nothing /\ l.queue["proxyClient"] = <<>>
      /\ l.sent["targetClient"] = <<>>
  BY DEF Asked, Linked, Stage, Early, Ended
<1>3. ParsedAs(l, mode, to, x, m)
  BY <1>1, <1>2, ParsedFields
<1> HIDE DEF x
<1>4. /\ m \in LinkRec /\ m.sent["targetClient"] = <<>> /\ m.queue["proxyClient"] = <<>>
      /\ m.got = Nothing /\ m.host \in Hosts /\ m.connect_mode \in {"PROXY_HTTP", "PROXY_HTTPS"}
  BY <1>2, <1>3, LinkFields, ModesAssumption DEF ParsedAs
<1>5. new.handle["targetClient"] = "open" => new.connecting = TRUE
  <2>1. hosted.handle = cl.handle /\ Forward(hosted, new)
    BY HostedFields DEF Asked
  <2> HIDE DEF hosted
  <2> QED
    BY <2>1 DEF Asked, Forward
<1>6. l.got["proxyClient"] = <<>> /\ m.got["proxyClient"] = <<>>
  BY <1>2, <1>4, LinkFields
<1>7. DownKept(new, m)
  BY <1>4, <1>5, <1>6 DEF DownKept
<1>8. Ended(cl.handle["proxyClient"]) => Ended(new.handle["proxyClient"])
  BY EndsOnce, TwoSockets DEF Moves
<1>9. ForClient(l) = <<>> /\ Established \in Chunk
  BY <1>2, ForClientFields DEF Chunk
<1>10. ForClient(m) \in {<<>>, Append(<<>>, Established)}
  <2>1. <<Established>> \o <<>> = Append(<<>>, Established)
    <3> HIDE DEF Established
    <3> QED
      BY <1>9
  <2> QED
    BY <1>4, <2>1, ForClientFields
<1>11. DownMove(cl, new, l, m)
  BY <1>6, <1>8, <1>9, <1>10, PipeStill DEF DownMove, Ended
<1> QED
  BY <1>7, <1>11

LEMMA DownTurned ==
    ASSUME NEW cl, NEW new, NEW l, NEW m, Linked(cl, l), DownKept(cl, l), Turned(cl, new, l, m)
    PROVE  DownKept(new, m) /\ DownMove(cl, new, l, m)
<1>1. PICK to \in Hosts : m = Sent(l, "proxyClient", to)
  BY DEF Turned
<1> DEFINE x == NextChunk(l, "proxyClient", to)
<1>2. /\ l \in LinkRec /\ CanRead(l, "proxyClient") /\ to \in Hosts \cup {"reply"}
  BY DEF Turned, Linked
<1>3. SentOne(l, "proxyClient", x, m)
  BY <1>1, <1>2, SentFields, TwoSockets
<1> HIDE DEF x
<1>4. m.sent["targetClient"] = l.sent["targetClient"]
  BY <1>2, <1>3, SentAt, TwoSockets
<1>5. ForClient(m) = ForClient(l) /\ m.got = l.got /\ m.queue = l.queue
  BY <1>3, <1>4 DEF ForClient, SentOne
<1>6. Ended(new.handle["proxyClient"]) /\ Forward(cl, new)
  BY DEF Turned, Ended
<1> QED
  BY <1>4, <1>5, <1>6, DownSame DEF Forward

LEMMA DownPassed ==
    ASSUME NEW cl, NEW new, NEW l, NEW m, Linked(cl, l), DownKept(cl, l), Passed(cl, new, l, m)
    PROVE  DownKept(new, m) /\ DownMove(cl, new, l, m)
<1>1. PICK to \in Hosts :
          m = IF cl.handle["targetClient"] = "open"
                 /\ (cl.connecting = TRUE => EarlyWrite = "queued")
              THEN uv_write(Sent(l, "proxyClient", to), "targetClient", NextChunk(l, "proxyClient", to))
              ELSE Sent(l, "proxyClient", to)
  BY DEF Passed
<1> DEFINE x    == NextChunk(l, "proxyClient", to)
           read == Sent(l, "proxyClient", to)
<1>2. l \in LinkRec /\ to \in Hosts \cup {"reply"} /\ CanRead(l, "proxyClient") /\ new = cl
  BY DEF Linked, Passed
<1>3. SentOne(l, "proxyClient", x, read) /\ x \in Chunk /\ read \in LinkRec
  <2>1. SentOne(l, "proxyClient", x, read) /\ x \in Chunk
    BY <1>2, SentFields, ChunkFact, TwoSockets
  <2> QED
    BY <2>1 DEF SentOne
<1>4. m = read \/ WroteOne(read, "targetClient", x, m)
  BY <1>1, <1>3, WriteFields, TwoSockets
<1> HIDE DEF x, read
<1>5. /\ read.sent["targetClient"] = l.sent["targetClient"]
      /\ read.queue = l.queue /\ read.got = l.got
      /\ read.connect_mode = l.connect_mode /\ read.host = l.host
  BY <1>2, <1>3, SentAt, TwoSockets DEF SentOne
<1>6. /\ m.sent = read.sent /\ m.got = read.got
      /\ m.connect_mode = read.connect_mode /\ m.host = read.host
      /\ m.queue["proxyClient"] = read.queue["proxyClient"]
  BY <1>3, <1>4, WroteAt, TwoSockets DEF WroteOne
<1>7. ForClient(m) = ForClient(l)
  BY <1>5, <1>6 DEF ForClient
<1> QED
  BY <1>2, <1>5, <1>6, <1>7, DownSame
LEMMA DownJoined ==
    ASSUME NEW cl, NEW new, NEW l, NEW m, Linked(cl, l), DownKept(cl, l), Joined(cl, new, l, m)
    PROVE  DownKept(new, m) /\ DownMove(cl, new, l, m)
<1>1. Ended(cl.handle["proxyClient"]) => Ended(new.handle["proxyClient"])
  BY EndsOnce, TwoSockets DEF Moves
<1>2. /\ l \in LinkRec /\ cl.connecting = TRUE /\ l.got = Nothing /\ l.queue["proxyClient"] = <<>>
      /\ l.sent["targetClient"] = <<>> /\ l.host \in Hosts
  BY DEF Joined, Linked, Stage, Early
<1>3. CASE m = l /\ Ended(new.handle["targetClient"])
  <2>1. new.handle["targetClient"] # "open"
    BY <1>3 DEF Ended
  <2> QED
    BY <1>1, <1>3, <2>1, DownSame
<1>4. CASE l.connect_mode = "PROXY_HTTPS" /\ Confirmed(l, m)
  <2>1. WroteOne(l, "proxyClient", Established, m)
    BY <1>4 DEF Confirmed
  <2>2. ForClient(m) = ForClient(l) /\ m.got = l.got
    BY <2>1 DEF WroteOne, ForClient
  <2>3. ForClient(l) = <<Established>> \o <<>> /\ Established \in Chunk
    BY <1>2, <1>4, ForClientFields DEF Chunk
  <2>4. m.queue["proxyClient"] = Append(<<>>, Established)
    BY <1>2, <2>1, WroteAt, TwoSockets
  <2>5. l.got["proxyClient"] = <<>>
    BY <1>2, LinkFields
  <2>6. <<>> \o Append(<<>>, Established) = <<Established>> \o <<>>
    <3> HIDE DEF Established
    <3> QED
      BY <2>3
  <2>7. DownKept(new, m)
    BY <2>2, <2>3, <2>4, <2>5, <2>6 DEF DownKept
  <2> QED
    BY <1>1, <2>2, <2>7, DownStill
<1>5. CASE l.connect_mode = "PROXY_HTTP" /\ HandedOn(l, m)
  <2>1. ForClient(m) = ForClient(l) /\ m.got = l.got
    BY <1>5 DEF HandedOn, ForClient
  <2>2. ForClient(l) = <<>> /\ m.queue["proxyClient"] = <<>> /\ l.got["proxyClient"] = <<>>
    BY <1>2, <1>5, ForClientFields, LinkFields DEF HandedOn
  <2>3. DownKept(new, m)
    BY <2>1, <2>2 DEF DownKept
  <2> QED
    BY <1>1, <2>1, <2>3, DownStill
<1> QED
  BY <1>2, <1>3, <1>4, <1>5, ConnectedFields DEF Joined

LEMMA DownAnswered ==
    ASSUME NEW cl, NEW new, NEW l, NEW m, Linked(cl, l), DownKept(cl, l), Answered(cl, new, l, m)
    PROVE  DownKept(new, m) /\ DownMove(cl, new, l, m)
<1> DEFINE x    == NextChunk(l, "targetClient", "reply")
           read == Sent(l, "targetClient", "reply")
<1>1. /\ l \in LinkRec /\ "reply" \in Hosts \cup {"reply"} /\ CanRead(l, "targetClient") /\ new = cl
      /\ cl.handle["targetClient"] = "open" /\ cl.connecting # TRUE
      /\ cl.host = TRUE /\ Typed(cl)
  BY DEF Linked, Answered
<1>2. SentOne(l, "targetClient", x, read) /\ x \in Chunk
  BY <1>1, SentFields, ChunkFact, TwoSockets
<1>3. m = IF cl.handle["proxyClient"] = "open" THEN uv_write(read, "proxyClient", x) ELSE read
  BY DEF Answered
<1> HIDE DEF x, read
<1>4. read \in LinkRec /\ read.got = l.got /\ read.queue = l.queue
      /\ read.connect_mode = l.connect_mode /\ read.host = l.host
  BY <1>2 DEF SentOne
<1>5. read.sent["targetClient"] = Append(l.sent["targetClient"], x) /\ l.sent["targetClient"] \in Seq(Chunk)
  BY <1>1, <1>2, SentAt, TwoSockets
<1>6. cl.handle["proxyClient"] = "open" => WroteOne(read, "proxyClient", x, m)
  BY <1>2, <1>3, <1>4, WriteFields, TwoSockets
<1>7. m.sent = read.sent /\ m.got = l.got /\ m.connect_mode = l.connect_mode /\ m.host = l.host
  BY <1>3, <1>4, <1>6 DEF WroteOne
<1>8. ForClient(m) = Append(ForClient(l), x)
  <2>1. m \in LinkRec
    BY <1>3, <1>4, <1>6 DEF WroteOne
  <2>2. <<Established>> \in Seq(Chunk)
    <3>1. Established \in Chunk
      BY DEF Chunk
    <3> HIDE DEF Established
    <3> QED
      BY <3>1
  <2>3. CASE l.connect_mode = "PROXY_HTTP"
    BY <1>1, <1>5, <1>7, <2>1, <2>3, ForClientFields
  <2>4. CASE l.connect_mode = "PROXY_HTTPS"
    <3>1. l.host \in Hosts
      BY <1>1 DEF Linked, Stage
    <3>2. ForClient(l) = <<Established>> \o l.sent["targetClient"]
      BY <1>1, <2>4, <3>1, ForClientFields
    <3>3. ForClient(m) = <<Established>> \o Append(l.sent["targetClient"], x)
      BY <1>5, <1>7, <2>1, <2>4, <3>1, ForClientFields
    <3>4. <<Established>> \o Append(l.sent["targetClient"], x)
              = Append(<<Established>> \o l.sent["targetClient"], x)
      <4>1. x \in Chunk
        BY <1>2
      <4> QED
        BY <1>5, <2>2, <4>1
    <3> QED
      BY <3>2, <3>3, <3>4, Zenon
  <2> QED
    BY <1>1, <2>3, <2>4, LinkFields
<1>9. DownKept(cl, m)
  <2>1. CASE cl.handle["proxyClient"] = "open"
    <3>1. l.got["proxyClient"] \o l.queue["proxyClient"] = ForClient(l)
      BY <1>1, <2>1 DEF DownKept, Ended
    <3>2. m.queue["proxyClient"] = Append(l.queue["proxyClient"], x)
      BY <1>4, <1>6, <2>1, WroteAt, TwoSockets
    <3>3. l.got["proxyClient"] \in Seq(Chunk) /\ l.queue["proxyClient"] \in Seq(Chunk)
      BY <1>1, LinkFields
    <3>4. l.got["proxyClient"] \o Append(l.queue["proxyClient"], x)
              = Append(l.got["proxyClient"] \o l.queue["proxyClient"], x)
      <4> DEFINE a == l.got["proxyClient"]
                 b == l.queue["proxyClient"]
      <4>1. x \in Chunk /\ a \in Seq(Chunk) /\ b \in Seq(Chunk)
        BY <1>2, <3>3
      <4> HIDE DEF a, b
      <4>2. a \o Append(b, x) = Append(a \o b, x)
        BY <4>1
      <4> QED
        BY <4>2 DEF a, b
    <3> QED
      BY <1>7, <1>8, <3>1, <3>2, <3>4 DEF DownKept
  <2>2. CASE cl.handle["proxyClient"] # "open"
    <3>1. cl.handle["proxyClient"] \in HandleStatus /\ cl.handle["proxyClient"] # "none"
      BY <1>1, TwoSockets DEF Typed, ClientRec, Linked, Stage
    <3> QED
      BY <2>2, <3>1 DEF DownKept, Ended, HandleStatus
  <2> QED
    BY <2>1, <2>2
<1>10. DownMove(cl, cl, l, m)
  BY <1>2, <1>7, <1>8, PipeStill DEF DownMove
<1> QED
  BY <1>1, <1>9, <1>10

LEMMA DownWritten ==
    ASSUME NEW cl, NEW new, NEW l, NEW m, Linked(cl, l), DownKept(cl, l), Written(cl, new, l, m)
    PROVE  DownKept(new, m) /\ DownMove(cl, new, l, m)
<1>1. PICK s \in Sockets :
          /\ cl.handle[s] = "open"
          /\ s = "targetClient" => cl.connecting # TRUE
          /\ l.queue[s] # <<>>
          /\ m = [l EXCEPT !.got[s]   = Append(@, Head(l.queue[s])),
                           !.queue[s] = Tail(@),
                           !.buffers  = @ - 1]
  BY DEF Written
<1>2. l \in LinkRec /\ Owned(l) /\ new = cl
  BY DEF Linked, Written
<1>3. WrittenAs(l, s, m)
  BY <1>1, <1>2, WrittenFields
<1>4. ForClient(m) = ForClient(l) /\ m.sent = l.sent
  BY <1>3 DEF WrittenAs, ForClient
<1>5. CASE s = "targetClient"
  <2>1. m.queue["proxyClient"] = l.queue["proxyClient"] /\ m.got["proxyClient"] = l.got["proxyClient"]
    BY <1>2, <1>3, <1>5, WrittenAt, TwoSockets
  <2> QED
    BY <1>2, <1>4, <2>1, DownSame
<1>6. CASE s = "proxyClient"
  <2> DEFINE a == l.got["proxyClient"]
             b == l.queue["proxyClient"]
  <2>1. a \in Seq(Chunk) /\ b \in Seq(Chunk) /\ b # <<>>
    BY <1>1, <1>2, <1>6, LinkFields
  <2>2. m.got["proxyClient"] = Append(a, Head(b)) /\ m.queue["proxyClient"] = Tail(b)
    BY <1>2, <1>3, <1>6, WrittenAt
  <2>3. a \o b = ForClient(l)
    BY <1>1, <1>6 DEF DownKept, Ended
  <2> HIDE DEF a, b
  <2>4. /\ Append(a, Head(b)) \o Tail(b) = a \o b
        /\ Len(a) < Len(a \o b) /\ (a \o b)[Len(a) + 1] = Head(b)
    BY <2>1, HeadMoves
  <2>5. DownKept(cl, m)
    BY <1>4, <2>2, <2>3, <2>4 DEF DownKept
  <2>6. cl.handle["proxyClient"] \notin {"closing", "closed"}
    BY <1>1, <1>6
  <2>7. DownMove(cl, cl, l, m)
    BY <1>4, <2>2, <2>3, <2>4, <2>6 DEF DownMove, PipeMove, a
  <2> QED
    BY <1>2, <2>5, <2>7
<1> QED
  BY <1>5, <1>6 DEF Sockets

LEMMA DownGone ==
    ASSUME NEW cl, NEW new, NEW l, NEW m, Linked(cl, l), DownKept(cl, l), Gone(cl, new, l, m)
    PROVE  DownKept(new, m) /\ DownMove(cl, new, l, m)
<1>1. PICK h \in Handles :
          /\ cl.handle[h] = "closing"
          /\ h = "targetClient" => cl.connecting # TRUE
          /\ \A s \in Sockets : new.handle[s] = IF s = h THEN "closed" ELSE cl.handle[s]
          /\ m = Dropped(l, h)
  BY DEF Gone
<1>2. l \in LinkRec /\ Owned(l) /\ new.connecting = cl.connecting
  BY DEF Linked, Gone
<1>3. DroppedAs(l, h, m)
  BY <1>1, <1>2, DroppedFields
<1>4. ForClient(m) = ForClient(l) /\ m.got = l.got /\ m.sent = l.sent
  BY <1>3 DEF DroppedAs, ForClient
<1>5. Ended(cl.handle["proxyClient"]) => Ended(new.handle["proxyClient"])
  BY EndsOnce, TwoSockets DEF Moves
<1>6. new.handle["targetClient"] = "open" => cl.handle["targetClient"] = "open"
  BY <1>1, TwoSockets
<1>7. CASE h = "proxyClient"
  <2>1. Ended(new.handle["proxyClient"])
    BY <1>1, <1>7, TwoSockets DEF Ended
  <2> QED
    BY <1>4, <1>5, <2>1, DownStill DEF DownKept
<1>8. CASE h # "proxyClient"
  <2>1. m.queue["proxyClient"] = l.queue["proxyClient"]
    BY <1>2, <1>3, <1>8, DroppedAt, TwoSockets
  <2> QED
    BY <1>2, <1>4, <1>5, <1>6, <2>1, DownSame
<1> QED
  BY <1>7, <1>8

LEMMA DownMoves ==
    ASSUME NEW cl, NEW new, NEW l, NEW m, Linked(cl, l), DownKept(cl, l), Moves(cl, new, l, m)
    PROVE  DownKept(new, m) /\ DownMove(cl, new, l, m)
<1>1. CASE Quiet(cl, new, l, m)
  <2>1. m = l /\ Forward(cl, new)
    BY <1>1 DEF Quiet
  <2>2. Ended(cl.handle["proxyClient"]) => Ended(new.handle["proxyClient"])
    BY EndsOnce, TwoSockets
  <2> QED
    BY <2>1, <2>2, DownSame DEF Forward
<1> QED
  BY <1>1, DownAsked, DownTurned, DownPassed, DownJoined, DownAnswered, DownWritten, DownGone
  DEF Moves
-----------------------------------------------------------------------------
(* The way to the target, move by move.  A client that asks for a plain    *)
(* request waits for something to come back, and where libuv refuses to    *)
(* write to a socket that is still connecting every client waits.          *)
ClientsWait == "PROXY_HTTP" \notin Eager /\ (Eager = {} \/ EarlyWrite = "queued")

LEMMA UpSame ==
    ASSUME NEW cl, NEW new, NEW l, NEW m, UpKept(cl, l),
           Ended(cl.handle["targetClient"]) => Ended(new.handle["targetClient"]),
           ForTarget(m) = ForTarget(l), m.got["targetClient"] = l.got["targetClient"],
           m.queue["targetClient"] = l.queue["targetClient"], m.send_buf = l.send_buf
    PROVE  UpKept(new, m) /\ UpMove(cl, new, l, m)
<1>1. UpKept(new, m)
  BY DEF UpKept
<1> QED
  BY <1>1, PipeStill DEF UpMove, Ended

LEMMA UpAsked ==
    ASSUME NEW cl, NEW new, NEW l, NEW m, Linked(cl, l), UpKept(cl, l), Asked(cl, new, l, m)
    PROVE  UpKept(new, m) /\ UpMove(cl, new, l, m)
<1>1. PICK mode \in Modes, to \in Hosts : m = Parsed(l, mode, to)
  BY DEF Asked
<1> DEFINE x == NextChunk(l, "proxyClient", to)
<1>2. /\ l \in LinkRec /\ l.sent["proxyClient"] = <<>> /\ l.send_buf = <<>>
      /\ l.connect_mode = "PROXY_HTTPS" /\ CanRead(l, "proxyClient") /\ l.got = Nothing
      /\ l.queue["targetClient"] = <<>>
  <2>1. /\ l \in LinkRec /\ l.sent["proxyClient"] = <<>> /\ l.send_buf = <<>>
        /\ l.connect_mode = "PROXY_HTTPS" /\ CanRead(l, "proxyClient") /\ l.got = Nothing
    BY DEF Asked, Linked, Stage, Early, Ended
  <2>2. l.queue["targetClient"] = <<>>
    BY DEF Asked, Linked, Sockets
  <2> QED
    BY <2>1, <2>2
<1>3. ParsedAs(l, mode, to, x, m)
  BY <1>1, <1>2, ParsedFields
<1> HIDE DEF x
<1>4. /\ m \in LinkRec /\ x \in Chunk /\ m.sent["proxyClient"] = <<x>>
      /\ m.queue["targetClient"] = <<>> /\ m.got["targetClient"] = <<>>
      /\ l.got["targetClient"] = <<>> /\ m.connect_mode = mode
  BY <1>2, <1>3, LinkFields DEF ParsedAs
<1>5. Ended(cl.handle["targetClient"]) => Ended(new.handle["targetClient"])
  BY EndsOnce, TwoSockets DEF Moves
<1>6. ForTarget(l) = <<>>
  BY <1>2, <1>4, ForTargetFields, SubSeqOne
<1>7. mode \in {"PROXY_HTTP", "PROXY_HTTPS"}
  BY ModesAssumption
<1>8. CASE mode = "PROXY_HTTPS"
  <2>1. ForTarget(m) = <<>>
    BY <1>4, <1>8, ForTargetFields, SubSeqOne
  <2>2. m.send_buf = <<>>
    BY <1>3, <1>8 DEF ParsedAs
  <2> QED
    BY <1>2, <1>4, <1>5, <1>6, <2>1, <2>2, UpSame
<1>9. CASE mode = "PROXY_HTTP"
  <2>1. ForTarget(m) = <<x>>
    BY <1>4, <1>9, ForTargetFields, SubSeqOne
  <2>2. m.send_buf = <<x>>
    BY <1>3, <1>9 DEF ParsedAs
  <2>3. <<>> \o (<<>> \o <<x>>) = <<x>> /\ Append(<<>>, x) = <<x>>
    BY <1>4
  <2>4. UpKept(new, m)
    BY <1>4, <2>1, <2>2, <2>3 DEF UpKept
  <2>5. ForTarget(m) = Append(ForTarget(l), x)
    BY <1>6, <2>1, <2>3
  <2>6. UpMove(cl, new, l, m)
    BY <1>4, <1>5, <2>5, PipeStill DEF UpMove, Ended
  <2> QED
    BY <2>4, <2>6
<1> QED
  BY <1>7, <1>8, <1>9

LEMMA UpTurned ==
    ASSUME NEW cl, NEW new, NEW l, NEW m, Linked(cl, l), UpKept(cl, l), Turned(cl, new, l, m)
    PROVE  UpKept(new, m) /\ UpMove(cl, new, l, m)
<1>1. PICK to \in Hosts : m = Sent(l, "proxyClient", to)
  BY DEF Turned
<1> DEFINE x == NextChunk(l, "proxyClient", to)
<1>2. /\ l \in LinkRec /\ CanRead(l, "proxyClient") /\ to \in Hosts \cup {"reply"}
      /\ l.sent["proxyClient"] = <<>> /\ l.connect_mode = "PROXY_HTTPS"
  BY DEF Turned, Linked, Stage, Ended
<1>3. SentOne(l, "proxyClient", x, m) /\ x \in Chunk
  BY <1>1, <1>2, SentFields, ChunkFact, TwoSockets
<1> HIDE DEF x
<1>4. m.sent["proxyClient"] = <<x>>
  <2>1. m.sent["proxyClient"] = Append(<<>>, x)
    BY <1>2, <1>3, SentAt, TwoSockets
  <2> QED
    BY <1>3, <2>1
<1>5. /\ m \in LinkRec /\ m.connect_mode = "PROXY_HTTPS" /\ m.got = l.got /\ m.queue = l.queue
      /\ m.send_buf = l.send_buf
  BY <1>2, <1>3 DEF SentOne
<1>6. ForTarget(m) = <<>> /\ ForTarget(l) = <<>>
  BY <1>2, <1>3, <1>4, <1>5, ForTargetFields, SubSeqOne
<1>7. Ended(cl.handle["targetClient"]) => Ended(new.handle["targetClient"])
  BY EndsOnce, TwoSockets DEF Moves
<1> QED
  BY <1>5, <1>6, <1>7, UpSame

LEMMA UpPassed ==
    ASSUME ClientsWait, NEW cl, NEW new, NEW l, NEW m, Linked(cl, l), UpKept(cl, l),
           Passed(cl, new, l, m)
    PROVE  UpKept(new, m) /\ UpMove(cl, new, l, m)
<1>1. PICK to \in Hosts :
          m = IF cl.handle["targetClient"] = "open"
                 /\ (cl.connecting = TRUE => EarlyWrite = "queued")
              THEN uv_write(Sent(l, "proxyClient", to), "targetClient", NextChunk(l, "proxyClient", to))
              ELSE Sent(l, "proxyClient", to)
  BY DEF Passed
<1> DEFINE x     == NextChunk(l, "proxyClient", to)
           read  == Sent(l, "proxyClient", to)
           taken == cl.handle["targetClient"] = "open" /\ (cl.connecting = TRUE => EarlyWrite = "queued")
<1>2. /\ l \in LinkRec /\ to \in Hosts \cup {"reply"} /\ CanRead(l, "proxyClient") /\ new = cl
      /\ Len(l.sent["proxyClient"]) >= 1
  BY DEF Linked, Passed, Stage
<1>3. SentOne(l, "proxyClient", x, read) /\ x \in Chunk
  BY <1>2, SentFields, ChunkFact, TwoSockets
<1>4. m = IF taken THEN uv_write(read, "targetClient", x) ELSE read
  BY <1>1
<1> HIDE DEF x, read
<1>5. /\ read \in LinkRec /\ read.got = l.got /\ read.queue = l.queue
      /\ read.send_buf = l.send_buf /\ read.connect_mode = l.connect_mode
  BY <1>3 DEF SentOne
<1>6. taken => WroteOne(read, "targetClient", x, m)
  BY <1>3, <1>4, <1>5, WriteFields, TwoSockets
<1>7. /\ m \in LinkRec /\ m.sent = read.sent /\ m.got = l.got /\ m.connect_mode = l.connect_mode
      /\ m.send_buf = l.send_buf
  BY <1>4, <1>5, <1>6 DEF WroteOne
<1>8. ForTarget(m) = Append(ForTarget(l), x)
  <2> DEFINE a == l.sent["proxyClient"]
  <2>1. m.sent["proxyClient"] = Append(a, x) /\ a \in Seq(Chunk)
    BY <1>2, <1>3, <1>7, SentAt, TwoSockets
  <2>2. \A k \in {1, 2} : SubSeq(Append(a, x), k, Len(Append(a, x))) = Append(SubSeq(a, k, Len(a)), x)
    BY <1>2, <1>3, <2>1, SubSeqMore
  <2> QED
    BY <1>2, <1>7, <2>1, <2>2, ForTargetFields, LinkFields
<1>9. cl.handle["targetClient"] # "open" \/ (taken /\ l.send_buf = <<>>)
  <2>1. l.connect_mode \in Eager \/ l.got["proxyClient"] # <<>>
    BY DEF Passed
  <2>2. l.send_buf = <<>>
    <3>1. CASE l.connect_mode \in Eager
      BY <3>1, LinkFields DEF ClientsWait, Linked, Kept
    <3>2. CASE l.got["proxyClient"] # <<>>
      BY <1>2, <3>2, LinkFields DEF Linked, Kept
    <3> QED
      BY <2>1, <3>1, <3>2
  <2>3. cl.connecting = TRUE => EarlyWrite = "queued"
    <3>1. cl.connecting = TRUE => l.got["proxyClient"] = <<>>
      BY <1>2, LinkFields DEF Linked, Early
    <3> QED
      BY <2>1, <3>1 DEF ClientsWait
  <2> QED
    BY <2>2, <2>3
<1>10. UpKept(cl, m)
  <2>1. CASE Ended(cl.handle["targetClient"])
    BY <2>1 DEF UpKept
  <2>2. CASE ~Ended(cl.handle["targetClient"])
    <3>1. cl.handle["targetClient"] = "open"
      BY <2>2, TwoSockets DEF Passed, Typed, ClientRec, HandleStatus, Ended
    <3>2. taken /\ l.send_buf = <<>>
      BY <1>9, <3>1
    <3> DEFINE a == l.got["targetClient"]
               b == l.queue["targetClient"]
    <3>3. a \in Seq(Chunk) /\ b \in Seq(Chunk) /\ x \in Chunk
      BY <1>2, <1>3, LinkFields
    <3>4. a \o (b \o <<>>) = ForTarget(l)
      BY <2>2, <3>2 DEF UpKept
    <3>5. m.queue["targetClient"] = Append(b, x)
      BY <1>5, <1>6, <3>2, WroteAt, TwoSockets
    <3>6. m.got["targetClient"] = a /\ m.send_buf = <<>>
      BY <1>7, <3>2
    <3> HIDE DEF a, b
    <3>7. a \o (Append(b, x) \o <<>>) = Append(a \o (b \o <<>>), x)
      BY <3>3
    <3> QED
      BY <1>8, <3>4, <3>5, <3>6, <3>7 DEF UpKept
  <2> QED
    BY <2>1, <2>2
<1>11. UpMove(cl, cl, l, m)
  BY <1>3, <1>7, <1>8, PipeStill DEF UpMove
<1> QED
  BY <1>2, <1>10, <1>11
LEMMA UpJoined ==
    ASSUME NEW cl, NEW new, NEW l, NEW m, Linked(cl, l), UpKept(cl, l), Joined(cl, new, l, m)
    PROVE  UpKept(new, m) /\ UpMove(cl, new, l, m)
<1>1. Ended(cl.handle["targetClient"]) => Ended(new.handle["targetClient"])
  BY EndsOnce, TwoSockets DEF Moves
<1>2. l \in LinkRec
  BY DEF Linked
<1>3. CASE m = l
  BY <1>1, <1>3, UpSame
<1>4. CASE Confirmed(l, m)
  <2>1. WroteOne(l, "proxyClient", Established, m)
    BY <1>4 DEF Confirmed
  <2>2. ForTarget(m) = ForTarget(l) /\ m.got = l.got /\ m.send_buf = l.send_buf
    BY <2>1 DEF WroteOne, ForTarget
  <2>3. m.queue["targetClient"] = l.queue["targetClient"]
    BY <1>2, <2>1, WroteAt, TwoSockets
  <2> QED
    BY <1>1, <2>2, <2>3, UpSame
<1>5. CASE HandedOn(l, m) /\ new.handle = cl.handle
  <2> DEFINE a == l.got["targetClient"]
             b == l.queue["targetClient"]
             k == l.send_buf
  <2>1. a \in Seq(Chunk) /\ b \in Seq(Chunk) /\ k \in Seq(Chunk)
    BY <1>2, LinkFields
  <2>2. /\ ForTarget(m) = ForTarget(l) /\ m.got["targetClient"] = a
        /\ m.queue["targetClient"] = b \o k /\ m.send_buf = <<>>
    BY <1>2, <1>5, LinkFields DEF HandedOn, ForTarget
  <2>3. Ended(cl.handle["targetClient"]) \/ a \o (b \o k) = ForTarget(l)
    BY DEF UpKept
  <2> HIDE DEF a, b, k
  <2>4. a \o ((b \o k) \o <<>>) = a \o (b \o k)
    BY <2>1
  <2>5. UpKept(new, m)
    BY <1>5, <2>2, <2>3, <2>4 DEF UpKept
  <2>6. UpMove(cl, new, l, m)
    BY <1>5, <2>2, PipeStill DEF UpMove, a
  <2> QED
    BY <2>5, <2>6
<1> QED
  BY <1>2, <1>3, <1>4, <1>5, ConnectedFields DEF Joined

LEMMA UpAnswered ==
    ASSUME NEW cl, NEW new, NEW l, NEW m, Linked(cl, l), UpKept(cl, l), Answered(cl, new, l, m)
    PROVE  UpKept(new, m) /\ UpMove(cl, new, l, m)
<1> DEFINE x    == NextChunk(l, "targetClient", "reply")
           read == Sent(l, "targetClient", "reply")
<1>1. /\ l \in LinkRec /\ "reply" \in Hosts \cup {"reply"} /\ CanRead(l, "targetClient") /\ new = cl
  BY DEF Linked, Answered
<1>2. SentOne(l, "targetClient", x, read) /\ x \in Chunk
  BY <1>1, SentFields, ChunkFact, TwoSockets
<1>3. m = IF cl.handle["proxyClient"] = "open" THEN uv_write(read, "proxyClient", x) ELSE read
  BY DEF Answered
<1> HIDE DEF x, read
<1>4. /\ read \in LinkRec /\ read.got = l.got /\ read.queue = l.queue
      /\ read.send_buf = l.send_buf /\ read.connect_mode = l.connect_mode
  BY <1>2 DEF SentOne
<1>5. read.sent["proxyClient"] = l.sent["proxyClient"]
  BY <1>1, <1>2, SentAt, TwoSockets
<1>6. cl.handle["proxyClient"] = "open" => WroteOne(read, "proxyClient", x, m)
  BY <1>2, <1>3, <1>4, WriteFields, TwoSockets
<1>7. /\ m.sent = read.sent /\ m.got = l.got /\ m.connect_mode = l.connect_mode
      /\ m.send_buf = l.send_buf
  BY <1>3, <1>4, <1>6 DEF WroteOne
<1>8. m.queue["targetClient"] = l.queue["targetClient"]
  BY <1>3, <1>4, <1>6, WroteAt, TwoSockets
<1>9. ForTarget(m) = ForTarget(l)
  BY <1>5, <1>7 DEF ForTarget
<1> QED
  BY <1>1, <1>7, <1>8, <1>9, UpSame

LEMMA UpWritten ==
    ASSUME NEW cl, NEW new, NEW l, NEW m, Linked(cl, l), UpKept(cl, l), Written(cl, new, l, m)
    PROVE  UpKept(new, m) /\ UpMove(cl, new, l, m)
<1>1. PICK s \in Sockets :
          /\ cl.handle[s] = "open"
          /\ s = "targetClient" => cl.connecting # TRUE
          /\ l.queue[s] # <<>>
          /\ m = [l EXCEPT !.got[s]   = Append(@, Head(l.queue[s])),
                           !.queue[s] = Tail(@),
                           !.buffers  = @ - 1]
  BY DEF Written
<1>2. l \in LinkRec /\ Owned(l) /\ new = cl
  BY DEF Linked, Written
<1>3. WrittenAs(l, s, m)
  BY <1>1, <1>2, WrittenFields
<1>4. ForTarget(m) = ForTarget(l) /\ m.send_buf = l.send_buf
  BY <1>3 DEF WrittenAs, ForTarget
<1>5. CASE s = "proxyClient"
  <2>1. m.queue["targetClient"] = l.queue["targetClient"] /\ m.got["targetClient"] = l.got["targetClient"]
    BY <1>2, <1>3, <1>5, WrittenAt, TwoSockets
  <2> QED
    BY <1>2, <1>4, <2>1, UpSame
<1>6. CASE s = "targetClient"
  <2> DEFINE a == l.got["targetClient"]
             b == l.queue["targetClient"]
             k == l.send_buf
  <2>1. a \in Seq(Chunk) /\ b \in Seq(Chunk) /\ k \in Seq(Chunk) /\ b # <<>>
    BY <1>1, <1>2, <1>6, LinkFields
  <2>2. m.got["targetClient"] = Append(a, Head(b)) /\ m.queue["targetClient"] = Tail(b)
    BY <1>2, <1>3, <1>6, WrittenAt
  <2>3. a \o (b \o k) = ForTarget(l)
    BY <1>1, <1>6 DEF UpKept, Ended
  <2> HIDE DEF a, b, k
  <2>4. b \o k \in Seq(Chunk) /\ b \o k # <<>> /\ Head(b \o k) = Head(b) /\ Tail(b \o k) = Tail(b) \o k
    BY <2>1
  <2>5. /\ Append(a, Head(b)) \o (Tail(b) \o k) = a \o (b \o k)
        /\ Len(a) < Len(a \o (b \o k)) /\ (a \o (b \o k))[Len(a) + 1] = Head(b)
    <3> DEFINE d == b \o k
    <3>1. d \in Seq(Chunk) /\ d # <<>>
      BY <2>4
    <3> HIDE DEF d
    <3>2. /\ Append(a, Head(d)) \o Tail(d) = a \o d
          /\ Len(a) < Len(a \o d) /\ (a \o d)[Len(a) + 1] = Head(d)
      BY <2>1, <3>1, HeadMoves
    <3> QED
      BY <2>4, <3>2 DEF d
  <2>6. UpKept(cl, m)
    BY <1>4, <2>2, <2>3, <2>5 DEF UpKept, k
  <2>7. cl.handle["targetClient"] \notin {"closing", "closed"}
    BY <1>1, <1>6
  <2>8. UpMove(cl, cl, l, m)
    BY <1>4, <2>2, <2>3, <2>5, <2>7 DEF UpMove, PipeMove, a
  <2> QED
    BY <1>2, <2>6, <2>8
<1> QED
  BY <1>5, <1>6 DEF Sockets

LEMMA UpGone ==
    ASSUME NEW cl, NEW new, NEW l, NEW m, Linked(cl, l), UpKept(cl, l), Gone(cl, new, l, m)
    PROVE  UpKept(new, m) /\ UpMove(cl, new, l, m)
<1>1. PICK h \in Handles :
          /\ cl.handle[h] = "closing"
          /\ h = "targetClient" => cl.connecting # TRUE
          /\ \A s \in Sockets : new.handle[s] = IF s = h THEN "closed" ELSE cl.handle[s]
          /\ m = Dropped(l, h)
  BY DEF Gone
<1>2. l \in LinkRec /\ Owned(l)
  BY DEF Linked
<1>3. DroppedAs(l, h, m)
  BY <1>1, <1>2, DroppedFields
<1>4. ForTarget(m) = ForTarget(l) /\ m.got = l.got /\ m.send_buf = l.send_buf
  BY <1>3 DEF DroppedAs, ForTarget
<1>5. Ended(cl.handle["targetClient"]) => Ended(new.handle["targetClient"])
  BY EndsOnce, TwoSockets DEF Moves
<1>6. CASE h = "targetClient"
  <2>1. Ended(new.handle["targetClient"])
    BY <1>1, <1>6, TwoSockets DEF Ended
  <2>2. UpMove(cl, new, l, m)
    BY <1>4, <1>5, PipeStill DEF UpMove, Ended
  <2> QED
    BY <2>1, <2>2 DEF UpKept
<1>7. CASE h # "targetClient"
  <2>1. m.queue["targetClient"] = l.queue["targetClient"]
    BY <1>2, <1>3, <1>7, DroppedAt, TwoSockets
  <2> QED
    BY <1>4, <1>5, <2>1, UpSame
<1> QED
  BY <1>6, <1>7

LEMMA UpMoves ==
    ASSUME ClientsWait, NEW cl, NEW new, NEW l, NEW m, Linked(cl, l), UpKept(cl, l),
           Moves(cl, new, l, m)
    PROVE  UpKept(new, m) /\ UpMove(cl, new, l, m)
<1>1. CASE Quiet(cl, new, l, m)
  <2>1. m = l
    BY <1>1 DEF Quiet
  <2>2. Ended(cl.handle["targetClient"]) => Ended(new.handle["targetClient"])
    BY EndsOnce, TwoSockets
  <2> QED
    BY <2>1, <2>2, UpSame
<1> QED
  BY <1>1, UpAsked, UpTurned, UpPassed, UpJoined, UpAnswered, UpWritten, UpGone DEF Moves
-----------------------------------------------------------------------------
(* The callbacks of Proxy, as moves.                                       *)
Alike(cl, new) ==
    /\ Typed(new) /\ new.host = cl.host /\ new.state = cl.state /\ new.connecting = cl.connecting
    /\ \A s \in Sockets : new.handle[s] = cl.handle[s]

LEMMA AlikeForward ==
    ASSUME NEW cl, NEW new, Alike(cl, new)
    PROVE  Forward(cl, new)
BY TwoSockets DEF Alike, Forward, Onward

LEMMA FailAlike ==
    ASSUME NEW cl, Typed(cl), NEW kind \in FaultKinds
    PROVE  Alike(cl, Fail(cl, kind))
<1> DEFINE new == [cl EXCEPT !.fault = kind]
<1>1. Alike(cl, cl)
  BY DEF Alike
<1>2. Alike(cl, new)
  BY DEF Alike, Typed, ClientRec
<1>3. Fail(cl, kind) \in {cl, new}
  BY DEF Fail
<1> HIDE DEF new
<1> QED
  BY <1>1, <1>2, <1>3

LEMMA UnrefAlike ==
    ASSUME NEW cl, Typed(cl)
    PROVE  Alike(cl, unref_client(cl))
<1> DEFINE dropped == [cl EXCEPT !.ref_count = @ - 1]
           freed   == [dropped EXCEPT !.mem = "freed"]
<1>1. Typed(dropped) /\ Alike(cl, dropped)
  BY DEF Typed, ClientRec, Alike
<1>2. unref_client(cl) \in {Fail(cl, "use_after_free"), dropped, Fail(freed, FreeFault(cl))}
  BY DEF unref_client
<1>3. FreeFault(cl) \in FaultKinds /\ "use_after_free" \in FaultKinds
  BY DEF FreeFault, FaultKinds
<1> HIDE DEF dropped
<1>4. Typed(freed) /\ Alike(dropped, freed)
  BY <1>1 DEF Typed, ClientRec, Alike
<1> HIDE DEF freed
<1>5. Alike(freed, Fail(freed, FreeFault(cl))) /\ Alike(cl, Fail(cl, "use_after_free"))
  BY <1>3, <1>4, FailAlike
<1>6. Alike(cl, Fail(freed, FreeFault(cl)))
  BY <1>1, <1>4, <1>5 DEF Alike
<1> QED
  BY <1>1, <1>2, <1>5, <1>6

(* The timer is not a side.                                                *)
LEMMA CloseTimerAlike ==
    ASSUME NEW cl, Typed(cl)
    PROVE  Alike(cl, uv_close(cl, "timeout_timer"))
<1> DEFINE new == [cl EXCEPT !.handle["timeout_timer"] = "closing"]
<1>1. Alike(cl, new)
  BY DEF Alike, Typed, ClientRec, Handles, Sockets, HandleStatus
<1>2. uv_close(cl, "timeout_timer") \in {Fail(cl, "use_after_free"), Fail(cl, "double_close"), new}
  BY DEF uv_close
<1> HIDE DEF new
<1>3. "use_after_free" \in FaultKinds /\ "double_close" \in FaultKinds
  BY DEF FaultKinds
<1> QED
  BY <1>1, <1>2, <1>3, FailAlike

LEMMA CloseCbFields ==
    ASSUME NEW cl, NEW h \in Handles, Typed(cl), h \in cl.data
    PROVE  LET new == close_cb(cl, h)
           IN  /\ Typed(new) /\ new.host = cl.host /\ new.state = cl.state
               /\ new.connecting = cl.connecting
               /\ \A s \in Sockets : new.handle[s] = IF s = h THEN "closed" ELSE cl.handle[s]
<1> DEFINE closed  == [cl EXCEPT !.handle[h] = "closed", !.data = @ \ {h}]
           stopped == [closed EXCEPT !.armed = FALSE]
           noTimer == IF SocketsGone(closed) THEN uv_close(stopped, "timeout_timer") ELSE closed
<1>1. /\ Typed(closed) /\ closed.host = cl.host /\ closed.state = cl.state
      /\ closed.connecting = cl.connecting
      /\ \A s \in Sockets : closed.handle[s] = IF s = h THEN "closed" ELSE cl.handle[s]
  BY TwoSockets DEF Typed, ClientRec, HandleStatus
<1>2. close_cb(cl, h) = unref_client(noTimer)
  BY DEF close_cb
<1> HIDE DEF closed
<1>3. Alike(closed, closed) /\ Alike(closed, stopped)
  BY <1>1 DEF Alike, Typed, ClientRec
<1> HIDE DEF stopped
<1>4. Alike(stopped, uv_close(stopped, "timeout_timer"))
  BY <1>3, CloseTimerAlike DEF Alike
<1>5. Alike(closed, noTimer)
  BY <1>3, <1>4 DEF Alike
<1> HIDE DEF noTimer
<1>6. Alike(noTimer, unref_client(noTimer))
  BY <1>5, UnrefAlike DEF Alike
<1> QED
  BY <1>1, <1>2, <1>5, <1>6 DEF Alike

LEMMA AcceptedForward ==
    ASSUME NEW readOk \in BOOLEAN
    PROVE  Forward(Unused, Accepted(readOk))
<1> DEFINE opened == [Create_client EXCEPT !.handle["proxyClient"] = "open"]
           timed  == [AcceptedClient EXCEPT !.handle["timeout_timer"] = "open"]
           listed == [timed EXCEPT !.data = @ \cup {"timeout_timer"}, !.armed = TRUE]
<1>1. Forward(Unused, opened) /\ Typed(opened)
  <2>1. Typed(Unused) /\ Typed(Create_client)
    <3>1. Typed(Unused)
      BY DEF Unused, Typed, ClientRec, Handles, Sockets, HandleStatus, DnsServers, FaultKinds
    <3> QED
      BY <3>1 DEF Create_client, Typed, ClientRec
  <2>2. Alike(Unused, Create_client) /\ Unused.handle["targetClient"] = "none"
        /\ Unused.handle["proxyClient"] = "none" /\ Unused.state = 0 /\ Unused.connecting = FALSE
    <3>1. /\ Create_client.host = FALSE /\ Create_client.state = 0 /\ Create_client.connecting = FALSE
          /\ Create_client.handle = [h \in Handles |-> "none"]
          /\ Unused.host = FALSE /\ Unused.state = 0 /\ Unused.connecting = FALSE
          /\ Unused.handle = [h \in Handles |-> "none"]
      BY DEF Create_client, Unused
    <3> QED
      BY <2>1, <3>1, TwoSockets DEF Alike
  <2>3. /\ Typed(opened) /\ opened.host = Create_client.host /\ opened.state = Create_client.state
        /\ opened.connecting = Create_client.connecting
        /\ opened.handle = [Create_client.handle EXCEPT !["proxyClient"] = "open"]
        /\ Create_client.handle \in [Handles -> HandleStatus]
    BY <2>1 DEF Typed, ClientRec, Handles, Sockets, HandleStatus
  <2> HIDE DEF opened
  <2>4. opened.handle["proxyClient"] = "open" /\ opened.handle["targetClient"] = "none"
    BY <2>2, <2>3, TwoSockets DEF Alike
  <2> QED
    BY <2>2, <2>3, <2>4 DEF Forward, Onward, Alike, Sockets
<1>2. NewClient = ref_client(opened)
  BY DEF NewClient, uv_init, Create_client, Unused, Handles, Sockets
<1>3. Forward(opened, NewClient) /\ Typed(NewClient)
  <2> HIDE DEF opened
  <2> QED
    BY <1>1, <1>2, RefForward DEF Forward
<1>4. Alike(NewClient, AcceptedClient)
  <2> HIDE DEF opened
  <2> QED
    BY <1>3 DEF Alike, AcceptedClient, Typed, ClientRec, Handles, Sockets
<1>5. AcceptedClient.handle["timeout_timer"] = "none" /\ Typed(AcceptedClient)
  BY AcceptedFields DEF Handles
<1>6. Alike(AcceptedClient, timed) /\ Typed(timed)
  BY <1>5 DEF Alike, Typed, ClientRec, Handles, Sockets, HandleStatus
<1>7. TimedClient = ref_client(listed)
  BY <1>5 DEF TimedClient, uv_init
<1> HIDE DEF timed
<1>8. Alike(timed, listed) /\ Typed(listed)
  BY <1>6 DEF Alike, Typed, ClientRec, Handles
<1> HIDE DEF listed
<1>9. Forward(listed, TimedClient) /\ Typed(TimedClient)
  BY <1>7, <1>8, RefForward DEF Forward
<1> HIDE DEF opened
<1>10. Forward(Unused, AcceptedClient)
  BY <1>1, <1>3, <1>4, AlikeForward, ForwardTrans
<1>11. Forward(AcceptedClient, listed)
  BY <1>6, <1>8, AlikeForward, ForwardTrans
<1>12. Forward(Unused, TimedClient)
  BY <1>9, <1>10, <1>11, ForwardTrans
<1> DEFINE ready == IF TimeOut # 0 THEN TimedClient ELSE AcceptedClient
<1>13. Forward(Unused, ready) /\ Typed(ready)
  BY <1>5, <1>9, <1>10, <1>12
<1>14. Accepted(readOk) = IF readOk THEN ready ELSE uv_close(ready, "proxyClient")
  BY AcceptedIsOne
<1> HIDE DEF ready
<1>15. Forward(Unused, uv_close(ready, "proxyClient"))
  BY <1>13, CloseForward, ForwardTrans, TwoSockets
<1> QED
  BY <1>13, <1>14, <1>15
(* What is known of a struct that is in use.                               *)
LEMMA BusyFacts ==
    ASSUME NEW cl, Busy(cl)
    PROVE  /\ Typed(cl) /\ cl.connecting \in BOOLEAN /\ cl.host \in BOOLEAN
           /\ \A s \in Sockets : IsUp(cl, s) <=> cl.handle[s] = "open"
           /\ cl.connecting = TRUE => cl.handle["targetClient"] \in {"open", "closing"}
           /\ cl.handle["targetClient"] # "none" => cl.host = TRUE
           /\ cl.handle["targetClient"] = "open" => ~Ended(cl.handle["proxyClient"])
           /\ cl.host = FALSE => cl.handle["targetClient"] = "none"
           /\ cl.handle \in [Handles -> HandleStatus]
<1>1. Typed(cl) /\ cl.connecting \in BOOLEAN /\ cl.host \in BOOLEAN /\ cl.handle \in [Handles -> HandleStatus]
  BY DEF Busy, Exact, Typed, ClientRec
<1>2. \A s \in Sockets : s \in cl.data <=> cl.handle[s] \in {"open", "closing"}
  BY TwoSockets DEF Busy, Exact
<1>3. \A s \in Sockets : IsUp(cl, s) <=> cl.handle[s] = "open"
  BY <1>2 DEF IsUp, uv_is_closing
<1>4. cl.connecting = TRUE => cl.handle["targetClient"] \in {"open", "closing"}
  BY <1>2, TwoSockets DEF Busy, Exact
<1>5. /\ cl.handle["targetClient"] # "none" => cl.host = TRUE
      /\ cl.host = FALSE => cl.handle["targetClient"] = "none"
  BY <1>1 DEF Busy, OneUse
<1>6. cl.handle["targetClient"] = "open" => ~Ended(cl.handle["proxyClient"])
  BY DEF Busy, Together, Ended
<1> QED
  BY <1>1, <1>3, <1>4, <1>5, <1>6

LEMMA OpenIsBusy ==
    ASSUME ExactInv, NEW c \in Clients, NEW h \in Handles, client[c].handle[h] = "open"
    PROVE  Busy(client[c])
<1>1. client[c] # Unused
  BY DEF Unused
<1>2. ~Freed(client[c])
  BY DEF Freed, Listed
<1> QED
  BY <1>1, <1>2 DEF ExactInv

Others(c) == \A d \in Clients \ {c} : client'[d] = client[d] /\ link'[d] = link[d]

LEMMA HandleEffect ==
    ASSUME ExactInv, NEW c \in Clients, NEW cl, Handle(c, cl)
    PROVE  client'[c] = cl /\ \A d \in Clients \ {c} : client'[d] = client[d]
BY DEF Handle, ExactInv, IInv

LEMMA MoveEffect ==
    ASSUME RelayInv, NEW c \in Clients, NEW l, Move(c, l)
    PROVE  link'[c] = l /\ \A d \in Clients \ {c} : link'[d] = link[d]
BY DEF Move, RelayInv

LEMMA MoveOnlyEffect ==
    ASSUME RelayInv, NEW c \in Clients, NEW l, MoveOnly(c, l)
    PROVE  client' = client /\ link'[c] = l /\ Others(c)
<1>1. client' = client /\ Move(c, l)
  BY DEF MoveOnly, vars
<1> QED
  BY <1>1, MoveEffect DEF Others

LEMMA ClosePair ==
    ASSUME NEW cl, Typed(cl), NEW h \in Handles, NEW s \in Sockets
    PROVE  /\ Forward(cl, CloseIfUp(uv_close(cl, h), s))
           /\ Forward(cl, CloseIfUp(CloseIfUp(cl, h), s))
<1> DEFINE a == uv_close(cl, h)
           b == CloseIfUp(cl, h)
<1>1. Forward(cl, a) /\ Forward(cl, b)
  BY CloseForward
<1> HIDE DEF a, b
<1>2. Forward(a, CloseIfUp(a, s)) /\ Forward(b, CloseIfUp(b, s))
  BY <1>1, CloseForward, TwoSockets DEF Forward
<1>3. Forward(cl, CloseIfUp(a, s)) /\ Forward(cl, CloseIfUp(b, s))
  BY <1>1, <1>2, ForwardTrans
<1> QED
  BY <1>3 DEF a, b

(* The callbacks that touch no data.                                       *)
LEMMA UntouchedForward ==
    ASSUME NoKnownFault, RelayInv, NEW c \in Clients, Untouched(c)
    PROVE  Others(c) /\ Quiet(client[c], client'[c], link[c], link'[c])
<1>1. link' = link /\ ExactInv
  BY DEF Untouched, RelayInv
<1>2. CASE on_new_connection(c)
  <2>1. client[c] = Unused
    BY <1>1, <1>2 DEF on_new_connection, ExactInv, Busy, Exact, Freed
  <2>2. PICK readOk \in BOOLEAN : client' = [client EXCEPT ![c] = Accepted(readOk)]
    BY <1>2, OutcomesKnown, OutcomesBoolean DEF on_new_connection
  <2>3. /\ client'[c] = Accepted(readOk)
        /\ \A d \in Clients \ {c} : client'[d] = client[d]
    BY <1>1, <2>2 DEF ExactInv, IInv
  <2> QED
    BY <1>1, <2>1, <2>3, AcceptedForward DEF Others, Quiet
<1>3. ASSUME NEW cl, Handle(c, cl), Forward(client[c], cl)
      PROVE  Others(c) /\ Quiet(client[c], client'[c], link[c], link'[c])
  BY <1>1, <1>3, HandleEffect DEF Others, Quiet
<1>4. CASE read_data_end(c)
  <2>1. Handle(c, CloseIfUp(uv_close(client[c], "proxyClient"), "targetClient"))
    BY <1>4 DEF read_data_end
  <2>2. Typed(client[c])
    BY <1>1, <2>1, BusyPre
  <2> QED
    BY <1>3, <2>1, <2>2, ClosePair, TwoSockets
<1>5. ASSUME NEW s \in DnsServers, DnsAnswer(c, s)
      PROVE  Others(c) /\ Quiet(client[c], client'[c], link[c], link'[c])
  <2> DEFINE answered == [client[c] EXCEPT !.dns[s] = @ - 1]
  <2>1. PICK status \in {1, -1, -2}, connectOk \in {TRUE}, queryOk \in Outcomes("query") :
            Handle(c, on_dns(answered, s, status, connectOk, queryOk))
    BY <1>5, OutcomesKnown DEF DnsAnswer, DnsReply
  <2>2. client[c].dns[s] > 0
    BY <1>5 DEF DnsAnswer, DnsReply
  <2>3. Busy(client[c]) /\ Typed(client[c])
    BY <1>1, <2>1, BusyPre
  <2>4. Typed(answered) /\ InFlight(client[c]) # 0
    BY <2>2, <2>3 DEF Typed, ClientRec, InFlight, DnsServers
  <2>5. /\ answered.handle = client[c].handle /\ answered.connecting = client[c].connecting
        /\ answered.host = client[c].host /\ answered.state = client[c].state
    BY <2>3, <2>4 DEF Typed, ClientRec
  <2> HIDE DEF answered
  <2>6. Forward(client[c], answered)
    BY <2>4, <2>5, ForwardQuiet
  <2>7. answered.handle["targetClient"] = "none"
    BY <2>3, <2>4, <2>5 DEF Busy, OneUse
  <2>8. Forward(answered, on_dns(answered, s, status, TRUE, queryOk))
    BY <2>4, <2>7, OnDnsForward
  <2>9. Forward(client[c], on_dns(answered, s, status, TRUE, queryOk))
    BY <2>6, <2>8, ForwardTrans
  <2> QED
    BY <1>3, <2>1, <2>9
<1>6. CASE read_data_porxy_end(c)
  <2>1. Handle(c, CloseIfUp(uv_close(client[c], "targetClient"), "proxyClient"))
    BY <1>6 DEF read_data_porxy_end
  <2>2. Typed(client[c])
    BY <1>1, <2>1, BusyPre
  <2> QED
    BY <1>3, <2>1, <2>2, ClosePair, TwoSockets
<1>7. CASE on_timeout(c)
  <2> DEFINE stopped == [client[c] EXCEPT !.armed = FALSE]
             both    == CloseIfUp(CloseIfUp(stopped, "proxyClient"), "targetClient")
  <2>1. Handle(c, both)
    BY <1>7 DEF on_timeout
  <2>2. Typed(client[c])
    BY <1>1, <2>1, BusyPre
  <2>3. Alike(client[c], stopped)
    BY <2>2 DEF Alike, Typed, ClientRec
  <2> HIDE DEF stopped
  <2>4. Forward(client[c], stopped) /\ Typed(stopped)
    BY <2>3, AlikeForward DEF Alike
  <2>5. Forward(stopped, both)
    BY <2>4, ClosePair, TwoSockets
  <2>6. Forward(client[c], both)
    BY <2>4, <2>5, ForwardTrans
  <2> QED
    BY <1>3, <2>1, <2>6
<1> QED
  BY <1>2, <1>4, <1>5, <1>6, <1>7 DEF Untouched
(* A request is accepted: it is for an address, or for a name.             *)
LEMMA RequestedForward ==
    ASSUME NEW cl, Busy(cl), cl.host = FALSE, cl.handle["proxyClient"] = "open"
    PROVE  /\ Forward([cl EXCEPT !.host = TRUE], Requested(cl))
           /\ Typed(Requested(cl)) /\ Requested(cl).handle["targetClient"] = "none"
<1> DEFINE hosted == [cl EXCEPT !.host = TRUE]
<1>1. Typed(hosted)
  BY DEF Busy, Exact, Typed, ClientRec
<1>2. Requested(cl).handle = cl.handle /\ cl.handle["targetClient"] = "none"
  BY RequestedExact
<1>3. Requested(cl) = ref_client(hosted)
  BY DEF Requested
<1> HIDE DEF hosted
<1>4. Forward(hosted, Requested(cl))
  BY <1>1, <1>3, RefForward
<1> QED
  BY <1>2, <1>4 DEF Forward, hosted

LEMMA FirstFacts ==
    ASSUME NoKnownFault, ExactInv, NEW c \in Clients, FirstRequest(c)
    PROVE  /\ Busy(client[c]) /\ Typed(client[c]) /\ client[c].host = FALSE
           /\ client[c].handle["proxyClient"] = "open"
           /\ client[c].handle["targetClient"] = "none"
<1>1. client[c].handle["proxyClient"] = "open"
  BY DEF FirstRequest, Readable
<1>2. Busy(client[c])
  BY <1>1, OpenIsBusy, ProxyIsHandle
<1>3. Typed(client[c]) /\ client[c].host \in BOOLEAN
  BY <1>2, BusyFacts
<1>4. client[c].host = FALSE
  BY <1>3, OutcomesKnown DEF FirstRequest
<1>5. client[c].handle["targetClient"] = "none"
  BY <1>2, <1>4, BusyFacts
<1> QED
  BY <1>1, <1>2, <1>3, <1>4, <1>5

LEMMA AddressForward ==
    ASSUME NoKnownFault, ExactInv, NEW c \in Clients, read_data_address(c)
    PROVE  \E new : Handle(c, new) /\ Forward([client[c] EXCEPT !.host = TRUE], new)
<1> DEFINE requested == Requested(client[c])
           r         == [ConnectTargetServer(requested, TRUE) EXCEPT !.state = 1]
<1>1. PICK connectOk \in Outcomes("connect") :
          LET connected == ConnectTargetServer(requested, connectOk)
          IN  Handle(c, IF connectOk THEN [connected EXCEPT !.state = 1]
                                     ELSE unref_client(connected))
  BY Zenon DEF read_data_address
<1>2. connectOk = TRUE
  BY OutcomesKnown
<1>3. Handle(c, r)
  BY <1>1, <1>2
<1>4. FirstRequest(c)
  BY DEF read_data_address
<1>5. /\ Forward([client[c] EXCEPT !.host = TRUE], requested)
      /\ Typed(requested) /\ requested.handle["targetClient"] = "none"
  BY <1>4, FirstFacts, RequestedForward
<1> HIDE DEF requested
<1>6. Forward(requested, r)
  BY <1>5, ConnectForward
<1> HIDE DEF r
<1>7. Forward([client[c] EXCEPT !.host = TRUE], r)
  BY <1>5, <1>6, ForwardTrans
<1> QED
  BY <1>3, <1>7

LEMMA NameForward ==
    ASSUME NoKnownFault, ExactInv, NEW c \in Clients, read_data_name(c)
    PROVE  \E new : Handle(c, new) /\ Forward([client[c] EXCEPT !.host = TRUE], new)
<1> DEFINE hosted    == [client[c] EXCEPT !.host = TRUE]
           requested == Requested(client[c])
           dropped   == unref_client(requested)
           refused   == uv_close(dropped, "proxyClient")
           resolved  == on_dns(requested, "none", 1, TRUE, TRUE)
           asked     == send_dns_query(requested, "dns_1")
<1>1. PICK queryOk \in Outcomes("query"), connectOk \in Outcomes("connect") :
          Handle(c, CASE ~queryOk -> refused
                      [] queryOk /\ Dns = {} -> on_dns(requested, "none", 1, connectOk, TRUE)
                      [] OTHER -> asked)
  BY Zenon DEF read_data_name, Resolve, send_default_dns
<1>2. connectOk = TRUE /\ queryOk \in BOOLEAN
  BY OutcomesKnown, OutcomesBoolean
<1>3. Handle(c, refused) \/ Handle(c, resolved) \/ Handle(c, asked)
  <2> HIDE DEF refused, asked, requested
  <2> QED
    BY <1>1, <1>2
<1>4. FirstRequest(c)
  BY DEF read_data_name, Resolve
<1>5. /\ Forward(hosted, requested)
      /\ Typed(requested) /\ requested.handle["targetClient"] = "none"
  BY <1>4, FirstFacts, RequestedForward
<1> HIDE DEF requested, hosted
<1>6. Forward(hosted, asked)
  BY <1>5, AskForward, ForwardTrans DEF DnsServers
<1>7. Forward(hosted, resolved)
  BY <1>5, OnDnsForward, ForwardTrans
<1>8. Forward(hosted, refused)
  <2>1. Forward(requested, dropped)
    BY <1>5, UnrefForward
  <2> HIDE DEF dropped
  <2>2. Forward(dropped, refused)
    BY <2>1, CloseForward, ProxyIsHandle DEF Forward
  <2> HIDE DEF refused
  <2> QED
    BY <1>5, <2>1, <2>2, ForwardTrans
<1> HIDE DEF refused, asked, resolved
<1>9. \E new : Handle(c, new) /\ Forward(hosted, new)
  BY <1>3, <1>6, <1>7, <1>8
<1> QED
  BY <1>9 DEF hosted

LEMMA RequestMoves ==
    ASSUME NoKnownFault, RelayInv, NEW c \in Clients, Request(c)
    PROVE  Others(c) /\ Asked(client[c], client'[c], link[c], link'[c])
<1>1. ExactInv /\ MayRead(c, "proxyClient")
  BY DEF RelayInv, Request
<1>2. PICK mode \in Modes, to \in Hosts : Move(c, Parsed(link[c], mode, to))
  BY DEF Request
<1>3. PICK new : Handle(c, new) /\ Forward([client[c] EXCEPT !.host = TRUE], new)
  BY <1>1, AddressForward, NameForward DEF Request
<1>4. client'[c] = new /\ \A d \in Clients \ {c} : client'[d] = client[d]
  BY <1>1, <1>3, HandleEffect
<1>5. link'[c] = Parsed(link[c], mode, to) /\ \A d \in Clients \ {c} : link'[d] = link[d]
  BY <1>2, MoveEffect
<1>6. FirstRequest(c)
  BY DEF Request, read_data_address, read_data_name, Resolve
<1>7. /\ Typed(client[c]) /\ client[c].host = FALSE
      /\ client[c].handle["proxyClient"] = "open" /\ client[c].handle["targetClient"] = "none"
  BY <1>1, <1>6, FirstFacts
<1>8. CanRead(link[c], "proxyClient")
  BY <1>1 DEF MayRead, CanRead
<1> QED
  BY <1>3, <1>4, <1>5, <1>7, <1>8 DEF Others, Asked

LEMMA RejectedMoves ==
    ASSUME NoKnownFault, RelayInv, NEW c \in Clients, Rejected(c)
    PROVE  Others(c) /\ Turned(client[c], client'[c], link[c], link'[c])
<1> DEFINE new == uv_close(client[c], "proxyClient")
<1>1. ExactInv /\ CanRead(link[c], "proxyClient") /\ FirstRequest(c) /\ Handle(c, new)
  BY DEF RelayInv, Rejected, MayRead, CanRead, read_data_rejected
<1>2. PICK to \in Hosts : Move(c, Sent(link[c], "proxyClient", to))
  BY DEF Rejected
<1>3. /\ Typed(client[c]) /\ client[c].host = FALSE /\ Exact(client[c], 0)
      /\ client[c].handle["proxyClient"] = "open"
      /\ client[c].handle \in [Handles -> HandleStatus]
  BY <1>1, FirstFacts, BusyPre
<1>4. new.handle["proxyClient"] = "closing"
  <2>1. new.handle = [client[c].handle EXCEPT !["proxyClient"] = "closing"]
    BY <1>3, ProxyIsHandle, CloseExact
  <2> HIDE DEF new
  <2> QED
    BY <1>3, <2>1, ProxyIsHandle
<1>5. Forward(client[c], new)
  BY <1>3, CloseForward, ProxyIsHandle
<1>6. client'[c] = new /\ \A d \in Clients \ {c} : client'[d] = client[d]
  BY <1>1, HandleEffect
<1>7. link'[c] = Sent(link[c], "proxyClient", to) /\ \A d \in Clients \ {c} : link'[d] = link[d]
  BY <1>2, MoveEffect
<1> HIDE DEF new
<1> QED
  BY <1>1, <1>3, <1>4, <1>5, <1>6, <1>7 DEF Others, Turned
(* The callbacks that only move data.                                      *)
LEMMA PassedMoves ==
    ASSUME RelayInv, NEW c \in Clients, read_data(c)
    PROVE  Others(c) /\ Passed(client[c], client'[c], link[c], link'[c])
<1> DEFINE cl == client[c]
           l  == link[c]
<1>1. ExactInv /\ Stage(cl, l)
  BY DEF RelayInv, Linked
<1>2. Busy(cl)
  BY <1>1, OpenIsBusy, ProxyIsHandle DEF read_data, Readable
<1>3. /\ Typed(cl) /\ cl.connecting \in BOOLEAN
      /\ IsUp(cl, "targetClient") <=> cl.handle["targetClient"] = "open"
      /\ cl.handle["targetClient"] # "none" => cl.host = TRUE
  BY <1>2, BusyFacts, TwoSockets
<1>4. cl.handle["targetClient"] # "none"
  BY <1>1 DEF read_data, Stage
<1>5. CanRead(l, "proxyClient") /\ (l.connect_mode \in Eager \/ l.got["proxyClient"] # <<>>)
  BY DEF read_data, MayRead, CanRead, Waits
<1>6. PICK to \in Hosts :
          MoveOnly(c, sendTargetServer(c, Sent(l, "proxyClient", to), NextChunk(l, "proxyClient", to)))
  BY DEF read_data, NextChunk
<1>7. /\ client' = client /\ Others(c)
      /\ link'[c] = sendTargetServer(c, Sent(l, "proxyClient", to), NextChunk(l, "proxyClient", to))
  BY <1>6, MoveOnlyEffect
<1>8. link'[c] = IF cl.handle["targetClient"] = "open"
                    /\ (cl.connecting = TRUE => EarlyWrite = "queued")
                 THEN uv_write(Sent(l, "proxyClient", to), "targetClient", NextChunk(l, "proxyClient", to))
                 ELSE Sent(l, "proxyClient", to)
  <2>1. (IsUp(client[c], "targetClient") /\ (client[c].connecting => EarlyWrite = "queued"))
           <=> (cl.handle["targetClient"] = "open" /\ (cl.connecting = TRUE => EarlyWrite = "queued"))
    BY <1>3
  <2> HIDE DEF cl
  <2> QED
    BY <1>7, <2>1 DEF sendTargetServer
<1> QED
  BY <1>3, <1>4, <1>5, <1>7, <1>8 DEF Passed

LEMMA AnsweredMoves ==
    ASSUME RelayInv, NEW c \in Clients, read_data_porxy(c)
    PROVE  Others(c) /\ Answered(client[c], client'[c], link[c], link'[c])
<1> DEFINE cl == client[c]
           l  == link[c]
           m  == Sent(l, "targetClient", "reply")
<1>1. ExactInv /\ IInv /\ Linked(cl, l)
  BY DEF RelayInv, ExactInv
<1>2. IsUp(cl, "targetClient") /\ ~cl.connecting /\ CanRead(l, "targetClient")
  BY DEF read_data_porxy, MayRead, CanRead
<1>3. Busy(cl)
  <2>1. client[c] # Unused
    BY <1>2 DEF IsUp, Unused
  <2>2. ~Freed(client[c])
    BY <1>1, <1>2, UsesNat DEF IsUp, Freed, IInv, Sound
  <2> QED
    BY <1>1, <2>1, <2>2 DEF ExactInv
<1>4. /\ Typed(cl) /\ cl.connecting \in BOOLEAN
      /\ IsUp(cl, "targetClient") <=> cl.handle["targetClient"] = "open"
      /\ IsUp(cl, "proxyClient") <=> cl.handle["proxyClient"] = "open"
      /\ cl.handle["targetClient"] # "none" => cl.host = TRUE
  BY <1>3, BusyFacts, TwoSockets
<1>5. m.sent["targetClient"] = Append(l.sent["targetClient"], NextChunk(l, "targetClient", "reply"))
  <2>1. l \in LinkRec
    BY <1>1 DEF Linked
  <2> HIDE DEF l
  <2>2. SentOne(l, "targetClient", NextChunk(l, "targetClient", "reply"), m)
    BY <1>2, <2>1, SentFields, TwoSockets
  <2> HIDE DEF m
  <2> QED
    BY <2>1, <2>2, LinkFields DEF SentOne
<1>6. <<Len(m.sent["targetClient"]), "reply">> = NextChunk(l, "targetClient", "reply")
  BY <1>1, <1>5, LinkFields DEF Linked, NextChunk
<1>7. MoveOnly(c, IF IsUp(cl, "proxyClient")
                  THEN uv_write(m, "proxyClient", NextChunk(l, "targetClient", "reply"))
                  ELSE m)
  <2>1. MoveOnly(c, IF IsUp(cl, "proxyClient")
                    THEN uv_write(m, "proxyClient", <<Len(m.sent["targetClient"]), "reply">>)
                    ELSE m)
    BY DEF read_data_porxy
  <2> HIDE DEF m
  <2> QED
    BY <1>6, <2>1
<1>8. /\ client' = client /\ Others(c)
      /\ link'[c] = IF IsUp(cl, "proxyClient")
                    THEN uv_write(m, "proxyClient", NextChunk(l, "targetClient", "reply"))
                    ELSE m
  BY <1>7, MoveOnlyEffect
<1> QED
  BY <1>2, <1>4, <1>8 DEF Answered

LEMMA WrittenMoves ==
    ASSUME RelayInv, NEW c \in Clients, NEW s \in Sockets, on_write(c, s)
    PROVE  Others(c) /\ Written(client[c], client'[c], link[c], link'[c])
<1> DEFINE m == [link[c] EXCEPT !.got[s]   = Append(@, Head(link[c].queue[s])),
                                !.queue[s] = Tail(@),
                                !.buffers  = @ - 1]
<1>1. MoveOnly(c, m) /\ client[c].handle[s] = "open" /\ link[c].queue[s] # <<>>
      /\ (s = "targetClient" => client[c].connecting # TRUE)
  BY DEF on_write
<1>2. client' = client /\ Others(c) /\ link'[c] = m
  BY <1>1, MoveOnlyEffect
<1> QED
  BY <1>1, <1>2 DEF Written

LEMMA GoneMoves ==
    ASSUME RelayInv, NEW c \in Clients, NEW h \in Handles,
           Closed(c, h), Move(c, Dropped(link[c], h))
    PROVE  Others(c) /\ Gone(client[c], client'[c], link[c], link'[c])
<1>1. ExactInv
  BY DEF RelayInv
<1>2. /\ client[c].handle[h] = "closing" /\ Handle(c, close_cb(client[c], h))
      /\ h = "targetClient" => client[c].connecting # TRUE
  BY DEF Closed
<1>3. Typed(client[c]) /\ Exact(client[c], 0)
  BY <1>1, <1>2, BusyPre
<1>4. h \in client[c].data
  BY <1>2, <1>3 DEF Exact
<1>5. LET new == close_cb(client[c], h)
      IN  /\ Typed(new) /\ new.host = client[c].host /\ new.state = client[c].state
          /\ new.connecting = client[c].connecting
          /\ \A s \in Sockets : new.handle[s] = IF s = h THEN "closed" ELSE client[c].handle[s]
  BY <1>3, <1>4, CloseCbFields
<1>6. client'[c] = close_cb(client[c], h) /\ \A d \in Clients \ {c} : client'[d] = client[d]
  BY <1>1, <1>2, HandleEffect
<1>7. link'[c] = Dropped(link[c], h) /\ \A d \in Clients \ {c} : link'[d] = link[d]
  BY MoveEffect
<1> QED
  BY <1>2, <1>5, <1>6, <1>7 DEF Others, Gone
LEMMA CloseState ==
    ASSUME NEW cl, Typed(cl), NEW h \in Handles
    PROVE  CloseIfUp(cl, h).state = cl.state
<1>1. \A kind : [cl EXCEPT !.fault = kind].state = cl.state
  BY DEF Typed, ClientRec
<1>2. [cl EXCEPT !.handle[h] = "closing"].state = cl.state
  BY DEF Typed, ClientRec
<1> QED
  BY <1>1, <1>2 DEF CloseIfUp, uv_close, Fail

LEMMA JoinedMoves ==
    ASSUME RelayInv, NEW c \in Clients, Connect(c)
    PROVE  Others(c) /\ Joined(client[c], client'[c], link[c], link'[c])
<1> DEFINE cl     == client[c]
           l      == link[c]
           done   == [cl EXCEPT !.connecting = FALSE]
           nearer == CloseIfUp(done, "targetClient")
           both   == CloseIfUp(nearer, "proxyClient")
<1>1. ExactInv /\ Stage(cl, l) /\ cl.connecting
  BY DEF RelayInv, Linked, Connect, on_connect_porxy
<1>2. (cl.handle["targetClient"] = "open" /\ Handle(c, done)) \/ Handle(c, both)
  BY DEF Connect, on_connect_porxy
<1>3. /\ Busy(cl) /\ Typed(cl) /\ cl.connecting = TRUE
      /\ cl.handle \in [Handles -> HandleStatus]
  <2>1. Busy(cl) /\ Typed(cl) /\ cl.handle \in [Handles -> HandleStatus]
    BY <1>1, <1>2, BusyPre
  <2>2. cl.connecting \in BOOLEAN
    BY <2>1, BusyFacts
  <2> QED
    BY <1>1, <2>1, <2>2
<1>4. /\ IsUp(cl, "proxyClient") <=> cl.handle["proxyClient"] = "open"
      /\ IsUp(cl, "targetClient") <=> cl.handle["targetClient"] = "open"
      /\ cl.handle["targetClient"] \in {"open", "closing"}
      /\ cl.host = TRUE
      /\ cl.handle["targetClient"] = "open" => ~Ended(cl.handle["proxyClient"])
  BY <1>3, BusyFacts, TwoSockets
<1>5. /\ Typed(done) /\ done.host = cl.host /\ done.state = cl.state /\ done.handle = cl.handle
      /\ done.connecting = FALSE /\ done.data = cl.data
  BY <1>3 DEF Typed, ClientRec
<1>6. /\ link'[c] = IF IsUp(client'[c], "targetClient") /\ IsUp(cl, "proxyClient")
                    THEN Connected(l) ELSE l
      /\ \A d \in Clients \ {c} : link'[d] = link[d]
  BY MoveEffect DEF Connect
<1>7. CASE cl.handle["targetClient"] = "open" /\ Handle(c, done)
  <2>1. client'[c] = done /\ \A d \in Clients \ {c} : client'[d] = client[d]
    BY <1>1, <1>7, HandleEffect
  <2>2. cl.handle["proxyClient"] = "open"
    <3>1. cl.handle["proxyClient"] \in HandleStatus
      BY <1>3, TwoSockets
    <3> QED
      BY <1>1, <1>4, <1>7, <3>1 DEF Stage, HandleStatus, Ended
  <2>3. IsUp(done, "targetClient") /\ IsUp(cl, "proxyClient")
    BY <1>4, <1>5, <1>7, <2>2 DEF IsUp, uv_is_closing
  <2> HIDE DEF done
  <2>4. link'[c] = Connected(l)
    BY <1>6, <2>1, <2>3
  <2> QED
    BY <1>3, <1>4, <1>5, <1>6, <1>7, <2>1, <2>2, <2>4 DEF Joined, Others, Sockets
<1>8. CASE Handle(c, both)
  <2>1. client'[c] = both /\ \A d \in Clients \ {c} : client'[d] = client[d]
    BY <1>1, <1>8, HandleEffect
  <2> HIDE DEF done
  <2>2. Forward(done, both) /\ Forward(done, nearer) /\ Typed(nearer)
    <3>1. Forward(done, both)
      BY <1>5, ClosePair, TwoSockets
    <3>2. Forward(done, nearer)
      BY <1>5, CloseForward, TwoSockets
    <3> HIDE DEF nearer, both
    <3> QED
      BY <3>1, <3>2 DEF Forward
  <2>3. nearer.state = done.state /\ both.state = nearer.state
    <3>1. nearer.state = done.state
      BY <1>5, CloseState, TwoSockets
    <3> HIDE DEF nearer
    <3>2. both.state = nearer.state
      BY <2>2, CloseState, TwoSockets
    <3> QED
      BY <3>1, <3>2
  <2>4. Ended(nearer.handle["targetClient"])
    <3>1. CASE cl.handle["targetClient"] = "open"
      <4>1. IsUp(done, "targetClient") /\ done.mem = "live" /\ done.handle["targetClient"] = "open"
        <5>1. cl.mem = "live" /\ done.mem = cl.mem
          BY <1>3 DEF Busy, Exact, Typed, ClientRec, done
        <5> QED
          BY <1>4, <1>5, <3>1, <5>1 DEF IsUp, uv_is_closing
      <4>2. nearer = [done EXCEPT !.handle["targetClient"] = "closing"]
        BY <4>1 DEF CloseIfUp, uv_close
      <4>3. nearer.handle["targetClient"] = "closing"
        BY <1>5, <4>2, TwoSockets DEF Typed, ClientRec
      <4> QED
        BY <4>3 DEF Ended
    <3>2. CASE cl.handle["targetClient"] = "closing"
      <4>1. Onward("closing", nearer.handle["targetClient"])
        BY <1>5, <2>2, <3>2, TwoSockets DEF Forward
      <4> QED
        BY <4>1 DEF Onward, Ended
    <3> QED
      BY <1>4, <3>1, <3>2
  <2> HIDE DEF nearer
  <2>5. Forward(nearer, both)
    BY <2>2, CloseForward, TwoSockets
  <2>6. Ended(both.handle["targetClient"])
    <3>1. Onward(nearer.handle["targetClient"], both.handle["targetClient"])
      BY <2>5, TwoSockets DEF Forward
    <3> QED
      BY <2>4, <3>1 DEF Onward, Ended
  <2> HIDE DEF both
  <2>7. link'[c] = l
    BY <1>6, <2>1, <2>6 DEF IsUp, uv_is_closing, Ended
  <2>8. /\ Typed(both) /\ both.host = done.host /\ both.connecting # TRUE
        /\ \A s \in Sockets : Onward(cl.handle[s], both.handle[s])
    BY <1>4, <1>5, <2>2 DEF Forward
  <2> QED
    BY <1>3, <1>4, <1>5, <1>6, <2>1, <2>3, <2>6, <2>7, <2>8 DEF Joined, Others
<1> QED
  BY <1>2, <1>7, <1>8

(* Every step is one of the eight moves, of one connection.                *)
LEMMA RelayShape ==
    ASSUME NoKnownFault, RelayInv, RelayNext
    PROVE  \E c \in Clients : Others(c) /\ Moves(client[c], client'[c], link[c], link'[c])
<1> SUFFICES ASSUME NEW c \in Clients,
                    \/ Untouched(c)
                    \/ Request(c)
                    \/ Rejected(c)
                    \/ read_data(c)
                    \/ Connect(c)
                    \/ read_data_porxy(c)
                    \/ \E s \in Sockets : on_write(c, s)
                    \/ \E h \in Handles : Closed(c, h) /\ Move(c, Dropped(link[c], h))
             PROVE  Others(c) /\ Moves(client[c], client'[c], link[c], link'[c])
  BY Zenon DEF RelayNext
<1>1. CASE Untouched(c)
  BY <1>1, UntouchedForward DEF Moves
<1>2. CASE Request(c)
  BY <1>2, RequestMoves DEF Moves
<1>3. CASE Rejected(c)
  BY <1>3, RejectedMoves DEF Moves
<1>4. CASE read_data(c)
  BY <1>4, PassedMoves DEF Moves
<1>5. CASE Connect(c)
  BY <1>5, JoinedMoves DEF Moves
<1>6. CASE read_data_porxy(c)
  BY <1>6, AnsweredMoves DEF Moves
<1>7. ASSUME NEW s \in Sockets, on_write(c, s)
      PROVE  Others(c) /\ Moves(client[c], client'[c], link[c], link'[c])
  BY <1>7, WrittenMoves DEF Moves
<1>8. ASSUME NEW h \in Handles, Closed(c, h), Move(c, Dropped(link[c], h))
      PROVE  Others(c) /\ Moves(client[c], client'[c], link[c], link'[c])
  BY <1>8, GoneMoves DEF Moves
<1> QED
  BY <1>1, <1>2, <1>3, <1>4, <1>5, <1>6, <1>7, <1>8
-----------------------------------------------------------------------------
(* A step takes a whole action of Proxy, or leaves what Proxy keeps alone. *)
LEMMA RelayIsProxy ==
    ASSUME [RelayNext]_relayVars
    PROVE  [Next]_vars
<1>1. CASE UNCHANGED relayVars
  BY <1>1 DEF relayVars, vars
<1>2. CASE RelayNext
  <2> SUFFICES ASSUME NEW c \in Clients,
                      \/ Untouched(c)
                      \/ Request(c)
                      \/ Rejected(c)
                      \/ read_data(c)
                      \/ Connect(c)
                      \/ read_data_porxy(c)
                      \/ \E s \in Sockets : on_write(c, s)
                      \/ \E h \in Handles : Closed(c, h) /\ Move(c, Dropped(link[c], h))
               PROVE  [Next]_vars
    BY <1>2, Zenon DEF RelayNext
  <2>1. CASE Untouched(c)
    BY <2>1 DEF Untouched, Next
  <2>2. CASE Request(c) \/ Rejected(c) \/ Connect(c)
    BY <2>2 DEF Request, Rejected, Connect, Next
  <2>3. ASSUME NEW m, MoveOnly(c, m) PROVE [Next]_vars
    BY <2>3 DEF MoveOnly
  <2>4. CASE read_data(c)
    BY <2>3, <2>4 DEF read_data
  <2>5. CASE read_data_porxy(c)
    BY <2>3, <2>5 DEF read_data_porxy
  <2>6. ASSUME NEW s \in Sockets, on_write(c, s) PROVE [Next]_vars
    BY <2>3, <2>6 DEF on_write
  <2>7. ASSUME NEW h \in Handles, Closed(c, h) PROVE [Next]_vars
    BY <2>7 DEF Next
  <2> QED
    BY <2>1, <2>2, <2>4, <2>5, <2>6, <2>7
<1> QED
  BY <1>1, <1>2

LEMMA LinkStaysTyped ==
    ASSUME link \in [Clients -> LinkRec], NEW c \in Clients, Others(c), link'[c] \in LinkRec,
           RelayNext
    PROVE  link' \in [Clients -> LinkRec]
<1>1. \A d \in Clients : link'[d] \in LinkRec
  BY DEF Others
<1>2. link' = link \/ \E d \in Clients : \E m : link' = [link EXCEPT ![d] = m]
  BY Zenon DEF RelayNext, Untouched, Request, Rejected, read_data, Connect, read_data_porxy, on_write,
     MoveOnly, Move
<1> QED
  BY <1>1, <1>2

(* A fresh connection: nothing was read, written or kept.                  *)
Fresh ==
    [ connect_mode |-> "PROXY_HTTPS",
      host         |-> "none",
      send_buf     |-> <<>>,
      queue        |-> Nothing,
      buffers      |-> 0,
      sent         |-> Nothing,
      got          |-> Nothing ]

LEMMA FreshFields ==
    /\ Fresh \in LinkRec
    /\ Fresh.connect_mode = "PROXY_HTTPS" /\ Fresh.host = "none" /\ Fresh.send_buf = <<>>
    /\ Fresh.buffers = 0 /\ Fresh.queue = Nothing /\ Fresh.sent = Nothing /\ Fresh.got = Nothing
    /\ \A s \in Sockets : Nothing[s] = <<>>
    /\ ForClient(Fresh) = <<>> /\ ForTarget(Fresh) = <<>>
<1>1. Nothing \in [Sockets -> Seq(Chunk)] /\ \A s \in Sockets : Nothing[s] = <<>>
  BY DEF Nothing
<1>2. <<>> \in Seq(Chunk)
  OBVIOUS
<1>3. /\ Fresh \in LinkRec
      /\ Fresh.connect_mode = "PROXY_HTTPS" /\ Fresh.host = "none" /\ Fresh.send_buf = <<>>
      /\ Fresh.buffers = 0 /\ Fresh.queue = Nothing /\ Fresh.sent = Nothing /\ Fresh.got = Nothing
  BY <1>1, <1>2 DEF Fresh, LinkRec
<1>4. ForClient(Fresh) = <<>>
  BY <1>1, <1>3, ConcatEmpty, TwoSockets DEF ForClient
<1>5. ForTarget(Fresh) = <<>>
  <2>1. ForTarget(Fresh) = SubSeq(<<>>, 2, 0)
    BY <1>1, <1>3, TwoSockets DEF ForTarget
  <2> QED
    BY <2>1
<1> QED
  BY <1>1, <1>3, <1>4, <1>5

LEMMA RelayStarts ==
    ASSUME RelayInit
    PROVE  RelayInv /\ DownInv /\ UpInv
<1>1. ExactInv /\ \A c \in Clients : client[c] = Unused
  BY ExactInit DEF RelayInit, Init
<1>2. link = [c \in Clients |-> Fresh]
  BY DEF RelayInit, Fresh
<1>3. link \in [Clients -> LinkRec] /\ \A c \in Clients : link[c] = Fresh
  BY <1>2, FreshFields
<1>4. /\ Unused.host = FALSE /\ Unused.state = 0
      /\ \A s \in Sockets : Unused.handle[s] = "none"
  BY TwoSockets DEF Unused
<1>5. Linked(Unused, Fresh)
  <2> DEFINE cl == Unused
             l  == Fresh
  <2> HIDE DEF cl, l
  <2>1. /\ cl.host = FALSE /\ cl.state = 0
        /\ l \in LinkRec
        /\ l.connect_mode = "PROXY_HTTPS" /\ l.host = "none" /\ l.send_buf = <<>>
        /\ l.buffers = 0 /\ l.got = Nothing
        /\ \A s \in Sockets : l.queue[s] = <<>> /\ l.sent[s] = <<>>
    BY <1>4, FreshFields DEF cl, l
  <2>2. Len(<<>>) = 0
    OBVIOUS
  <2>3. Stage(cl, l)
    BY <2>1, <2>2, TwoSockets DEF Stage
  <2>4. Early(cl, l) /\ Kept(cl, l)
    <3>1. Early(cl, l)
      BY <2>1, TwoSockets, Zenon DEF Early
    <3>2. Kept(cl, l)
      BY <2>1, Zenon DEF Kept
    <3> QED
      BY <3>1, <3>2
  <2>5. Owned(l)
    <3>1. /\ Len(l.queue["proxyClient"]) = 0 /\ Len(l.queue["targetClient"]) = 0
          /\ Len(l.send_buf) = 0 /\ l.buffers = 0
      BY <2>1, <2>2, TwoSockets, Zenon
    <3> QED
      BY <3>1 DEF Owned
  <2> QED
    BY <2>1, <2>3, <2>4, <2>5 DEF Linked, cl, l
<1>6. DownKept(Unused, Fresh) /\ UpKept(Unused, Fresh)
  BY FreshFields, TwoSockets DEF DownKept, UpKept
<1> QED
  BY <1>1, <1>3, <1>5, <1>6 DEF RelayInv, DownInv, UpInv

LEMMA RelayStep ==
    ASSUME NoKnownFault, RelayInv, [RelayNext]_relayVars
    PROVE  RelayInv'
<1>1. ExactInv'
  BY RelayIsProxy, ExactStep DEF RelayInv
<1>2. CASE UNCHANGED relayVars
  BY <1>1, <1>2 DEF relayVars, RelayInv
<1>3. CASE RelayNext
  <2>1. PICK c \in Clients : Others(c) /\ Moves(client[c], client'[c], link[c], link'[c])
    BY <1>3, RelayShape
  <2>2. Linked(client'[c], link'[c])
    BY <2>1, LinkedMoves DEF RelayInv
  <2>3. \A d \in Clients : Linked(client'[d], link'[d])
    BY <2>1, <2>2 DEF RelayInv, Others
  <2>4. link' \in [Clients -> LinkRec]
    BY <1>3, <2>1, <2>2, LinkStaysTyped DEF RelayInv, Linked
  <2> QED
    BY <1>1, <2>3, <2>4 DEF RelayInv
<1> QED
  BY <1>2, <1>3

-----------------------------------------------------------------------------
(* What one connection does is what its pipe does.                         *)
PipeStep(c, s, r, o, s2, r2, o2) ==
    \/ /\ \E x \in Chunk : s2 = [s EXCEPT ![c] = Append(@, x)]
       /\ \E p \in {o[c], FALSE} : o2 = [o EXCEPT ![c] = p]
       /\ r2 = r
    \/ /\ o[c]
       /\ Len(r[c]) < Len(s[c])
       /\ r2 = [r EXCEPT ![c] = Append(@, s[c][Len(@) + 1])]
       /\ s2 = s /\ o2 = o
    \/ /\ o[c]
       /\ o2 = [o EXCEPT ![c] = FALSE]
       /\ s2 = s /\ r2 = r
    \/ s2 = s /\ r2 = r /\ o2 = o

LEMMA PipeLift ==
    ASSUME NEW c \in Clients,
           NEW s, s = [d \in Clients |-> s[d]], NEW s2, s2 = [d \in Clients |-> s2[d]],
           NEW r, r = [d \in Clients |-> r[d]], NEW r2, r2 = [d \in Clients |-> r2[d]],
           NEW o, o = [d \in Clients |-> o[d]], NEW o2, o2 = [d \in Clients |-> o2[d]],
           o[c] \in BOOLEAN,
           \A d \in Clients \ {c} : s2[d] = s[d] /\ r2[d] = r[d] /\ o2[d] = o[d],
           PipeMove(s[c], r[c], o[c], s2[c], r2[c], o2[c])
    PROVE  PipeStep(c, s, r, o, s2, r2, o2)
<1>1. s2 = [s EXCEPT ![c] = s2[c]] /\ r2 = [r EXCEPT ![c] = r2[c]] /\ o2 = [o EXCEPT ![c] = o2[c]]
  OBVIOUS
<1>2. /\ s2[c] = s[c] => s2 = s
      /\ r2[c] = r[c] => r2 = r
      /\ o2[c] = o[c] => o2 = o
  OBVIOUS
<1>3. CASE (\E x \in Chunk : s2[c] = Append(s[c], x)) /\ r2[c] = r[c] /\ o2[c] \in {o[c], FALSE}
  BY <1>1, <1>2, <1>3 DEF PipeStep
<1>4. CASE /\ s2[c] = s[c] /\ r2[c] = Append(r[c], s[c][Len(r[c]) + 1]) /\ Len(r[c]) < Len(s[c])
           /\ o[c] = TRUE /\ o2[c] = TRUE
  BY <1>1, <1>2, <1>4 DEF PipeStep
<1>5. CASE s2[c] = s[c] /\ r2[c] = r[c] /\ o2[c] \in {o[c], FALSE}
  BY <1>1, <1>2, <1>5 DEF PipeStep
<1> QED
  BY <1>3, <1>4, <1>5 DEF PipeMove, PipeStep

LEMMA DownLift ==
    ASSUME NEW c \in Clients, Others(c), DownMove(client[c], client'[c], link[c], link'[c])
    PROVE  [Down!Next]_(Down!vars)
<1> DEFINE s  == [d \in Clients |-> ForClient(link[d])]
           s2 == [d \in Clients |-> ForClient(link'[d])]
           r  == [d \in Clients |-> link[d].got["proxyClient"]]
           r2 == [d \in Clients |-> link'[d].got["proxyClient"]]
           o  == Uncut("proxyClient")
           o2 == [d \in Clients |-> client'[d].handle["proxyClient"] \notin {"closing", "closed"}]
<1>1. /\ s = [d \in Clients |-> s[d]] /\ s2 = [d \in Clients |-> s2[d]]
      /\ r = [d \in Clients |-> r[d]] /\ r2 = [d \in Clients |-> r2[d]]
      /\ o = [d \in Clients |-> o[d]] /\ o2 = [d \in Clients |-> o2[d]]
  BY DEF Uncut
<1>2. o[c] \in BOOLEAN
  BY DEF Uncut
<1>3. \A d \in Clients \ {c} : s2[d] = s[d] /\ r2[d] = r[d] /\ o2[d] = o[d]
  BY DEF Others, Uncut
<1>4. PipeMove(s[c], r[c], o[c], s2[c], r2[c], o2[c])
  BY DEF DownMove, Uncut
<1>5. /\ s' = s2 /\ r' = r2 /\ o' = o2
  BY DEF Uncut, ForClient
<1> HIDE DEF s, s2, r, r2, o, o2
<1>6. \/ /\ \E x \in Chunk : s' = [s EXCEPT ![c] = Append(@, x)]
         /\ \E p \in {o[c], FALSE} : o' = [o EXCEPT ![c] = p]
         /\ r' = r
      \/ /\ o[c]
         /\ Len(r[c]) < Len(s[c])
         /\ r' = [r EXCEPT ![c] = Append(@, s[c][Len(@) + 1])]
         /\ s' = s /\ o' = o
      \/ /\ o[c]
         /\ o' = [o EXCEPT ![c] = FALSE]
         /\ s' = s /\ r' = r
      \/ s' = s /\ r' = r /\ o' = o
  <2>1. PipeStep(c, s, r, o, s2, r2, o2)
    BY <1>1, <1>2, <1>3, <1>4, PipeLift
  <2> QED
    BY <1>5, <2>1 DEF PipeStep
<1>7. CASE s' = s /\ r' = r /\ o' = o
  BY <1>7 DEF Down!vars, s, r, o
<1>8. CASE /\ \E x \in Chunk : s' = [s EXCEPT ![c] = Append(@, x)]
           /\ \E p \in {o[c], FALSE} : o' = [o EXCEPT ![c] = p]
           /\ r' = r
  <2>1. Down!Send(c)
    BY <1>8, Zenon DEF Down!Send, s, r, o
  <2> QED
    BY <2>1 DEF Down!Next
<1>9. CASE /\ o[c]
           /\ Len(r[c]) < Len(s[c])
           /\ r' = [r EXCEPT ![c] = Append(@, s[c][Len(@) + 1])]
           /\ s' = s /\ o' = o
  <2>1. Down!Deliver(c)
    BY <1>9, Zenon DEF Down!Deliver, s, r, o
  <2> QED
    BY <2>1 DEF Down!Next
<1>10. CASE /\ o[c]
            /\ o' = [o EXCEPT ![c] = FALSE]
            /\ s' = s /\ r' = r
  <2>1. Down!Cut(c)
    BY <1>10, Zenon DEF Down!Cut, s, r, o
  <2> QED
    BY <2>1 DEF Down!Next
<1> QED
  BY <1>6, <1>7, <1>8, <1>9, <1>10
LEMMA UpLift ==
    ASSUME NEW c \in Clients, Others(c), UpMove(client[c], client'[c], link[c], link'[c])
    PROVE  [Up!Next]_(Up!vars)
<1> DEFINE s  == [d \in Clients |-> ForTarget(link[d])]
           s2 == [d \in Clients |-> ForTarget(link'[d])]
           r  == [d \in Clients |-> link[d].got["targetClient"]]
           r2 == [d \in Clients |-> link'[d].got["targetClient"]]
           o  == Uncut("targetClient")
           o2 == [d \in Clients |-> client'[d].handle["targetClient"] \notin {"closing", "closed"}]
<1>1. /\ s = [d \in Clients |-> s[d]] /\ s2 = [d \in Clients |-> s2[d]]
      /\ r = [d \in Clients |-> r[d]] /\ r2 = [d \in Clients |-> r2[d]]
      /\ o = [d \in Clients |-> o[d]] /\ o2 = [d \in Clients |-> o2[d]]
  BY DEF Uncut
<1>2. o[c] \in BOOLEAN
  BY DEF Uncut
<1>3. \A d \in Clients \ {c} : s2[d] = s[d] /\ r2[d] = r[d] /\ o2[d] = o[d]
  BY DEF Others, Uncut
<1>4. PipeMove(s[c], r[c], o[c], s2[c], r2[c], o2[c])
  BY DEF UpMove, Uncut
<1>5. /\ s' = s2 /\ r' = r2 /\ o' = o2
  BY DEF Uncut, ForTarget
<1> HIDE DEF s, s2, r, r2, o, o2
<1>6. \/ /\ \E x \in Chunk : s' = [s EXCEPT ![c] = Append(@, x)]
         /\ \E p \in {o[c], FALSE} : o' = [o EXCEPT ![c] = p]
         /\ r' = r
      \/ /\ o[c]
         /\ Len(r[c]) < Len(s[c])
         /\ r' = [r EXCEPT ![c] = Append(@, s[c][Len(@) + 1])]
         /\ s' = s /\ o' = o
      \/ /\ o[c]
         /\ o' = [o EXCEPT ![c] = FALSE]
         /\ s' = s /\ r' = r
      \/ s' = s /\ r' = r /\ o' = o
  <2>1. PipeStep(c, s, r, o, s2, r2, o2)
    BY <1>1, <1>2, <1>3, <1>4, PipeLift
  <2> QED
    BY <1>5, <2>1 DEF PipeStep
<1>7. CASE s' = s /\ r' = r /\ o' = o
  BY <1>7 DEF Up!vars, s, r, o
<1>8. CASE /\ \E x \in Chunk : s' = [s EXCEPT ![c] = Append(@, x)]
           /\ \E p \in {o[c], FALSE} : o' = [o EXCEPT ![c] = p]
           /\ r' = r
  <2>1. Up!Send(c)
    BY <1>8, Zenon DEF Up!Send, s, r, o
  <2> QED
    BY <2>1 DEF Up!Next
<1>9. CASE /\ o[c]
           /\ Len(r[c]) < Len(s[c])
           /\ r' = [r EXCEPT ![c] = Append(@, s[c][Len(@) + 1])]
           /\ s' = s /\ o' = o
  <2>1. Up!Deliver(c)
    BY <1>9, Zenon DEF Up!Deliver, s, r, o
  <2> QED
    BY <2>1 DEF Up!Next
<1>10. CASE /\ o[c]
            /\ o' = [o EXCEPT ![c] = FALSE]
            /\ s' = s /\ r' = r
  <2>1. Up!Cut(c)
    BY <1>10, Zenon DEF Up!Cut, s, r, o
  <2> QED
    BY <2>1 DEF Up!Next
<1> QED
  BY <1>6, <1>7, <1>8, <1>9, <1>10

LEMMA PipesStill ==
    ASSUME UNCHANGED relayVars
    PROVE  [Down!Next]_(Down!vars) /\ [Up!Next]_(Up!vars)
<1>1. client' = client /\ link' = link
  BY DEF relayVars
<1>2. UNCHANGED Down!vars
  BY <1>1 DEF Down!vars, ForClient, Uncut
<1>3. UNCHANGED Up!vars
  BY <1>1 DEF Up!vars, ForTarget, Uncut
<1> QED
  BY <1>2, <1>3

LEMMA DownStep ==
    ASSUME NoKnownFault, DownInv, [RelayNext]_relayVars
    PROVE  DownInv' /\ [Down!Next]_(Down!vars)
<1>1. RelayInv /\ RelayInv'
  BY RelayStep DEF DownInv
<1>2. CASE UNCHANGED relayVars
  BY <1>1, <1>2, PipesStill DEF relayVars, DownInv
<1>3. CASE RelayNext
  <2>1. PICK c \in Clients : Others(c) /\ Moves(client[c], client'[c], link[c], link'[c])
    BY <1>1, <1>3, RelayShape
  <2>2. Linked(client[c], link[c]) /\ DownKept(client[c], link[c])
    BY DEF DownInv, RelayInv
  <2>3. /\ DownKept(client'[c], link'[c])
        /\ DownMove(client[c], client'[c], link[c], link'[c])
    BY <2>1, <2>2, DownMoves
  <2>4. \A d \in Clients : DownKept(client'[d], link'[d])
    BY <2>1, <2>3 DEF DownInv, Others
  <2>5. [Down!Next]_(Down!vars)
    BY <2>1, <2>3, DownLift
  <2> QED
    BY <1>1, <2>4, <2>5 DEF DownInv
<1> QED
  BY <1>2, <1>3

LEMMA UpStep ==
    ASSUME NoKnownFault, ClientsWait, UpInv, [RelayNext]_relayVars
    PROVE  UpInv' /\ [Up!Next]_(Up!vars)
<1>1. RelayInv /\ RelayInv'
  BY RelayStep DEF UpInv
<1>2. CASE UNCHANGED relayVars
  BY <1>1, <1>2, PipesStill DEF relayVars, UpInv
<1>3. CASE RelayNext
  <2>1. PICK c \in Clients : Others(c) /\ Moves(client[c], client'[c], link[c], link'[c])
    BY <1>1, <1>3, RelayShape
  <2>2. Linked(client[c], link[c]) /\ UpKept(client[c], link[c])
    BY DEF UpInv, RelayInv
  <2>3. /\ UpKept(client'[c], link'[c])
        /\ UpMove(client[c], client'[c], link[c], link'[c])
    BY <2>1, <2>2, UpMoves
  <2>4. \A d \in Clients : UpKept(client'[d], link'[d])
    BY <2>1, <2>3 DEF UpInv, Others
  <2>5. [Up!Next]_(Up!vars)
    BY <2>1, <2>3, UpLift
  <2> QED
    BY <1>1, <2>4, <2>5 DEF UpInv
<1> QED
  BY <1>2, <1>3

LEMMA PipesStart ==
    ASSUME RelayInit
    PROVE  Down!Init /\ Up!Init
<1>1. link = [c \in Clients |-> Fresh] /\ \A c \in Clients : client[c] = Unused
  BY DEF RelayInit, Init, Fresh
<1>2. \A c \in Clients : link[c] = Fresh
  BY <1>1
<1>3. \A c \in Clients, s \in Sockets :
          /\ ForClient(link[c]) = <<>> /\ ForTarget(link[c]) = <<>>
          /\ link[c].got[s] = <<>>
          /\ client[c].handle[s] \notin {"closing", "closed"}
  <2>1. \A s \in Sockets : Unused.handle[s] \notin {"closing", "closed"}
    BY TwoSockets DEF Unused
  <2>2. \A s \in Sockets : Fresh.got[s] = <<>>
    BY FreshFields
  <2> QED
    BY <1>1, <1>2, <2>1, <2>2, FreshFields
<1>4. Down!Init
  BY <1>3, TwoSockets DEF Down!Init, Uncut
<1>5. Up!Init
  BY <1>3, TwoSockets DEF Up!Init, Uncut
<1> QED
  BY <1>4, <1>5

-----------------------------------------------------------------------------
(* Every behaviour of the relay is one of the connections it relays for:   *)
(* what is proved of Proxy holds with the data (Main.c, PorxyClient.c).    *)
THEOREM RelayImplementsProxy == RelaySpec => Spec
<1>1. RelayInit => Init
  BY DEF RelayInit
<1>2. [RelayNext]_relayVars => [Next]_vars
  BY RelayIsProxy
<1> QED
  BY <1>1, <1>2, PTL DEF RelaySpec, Spec

(* The data keeps its type, and libuv holds writes only for a socket that  *)
(* exists (uv_write behind the guards of sendTargetServer, read_data_porxy *)
(* and on_connect_porxy).                                                  *)
THEOREM RelayTypeCorrect ==
    ASSUME NoKnownFault
    PROVE  RelaySpec => []RelayTypeOK
<1>1. RelayInv => RelayTypeOK
  BY DEF RelayInv, Linked, RelayTypeOK
<1>2. RelayInit => RelayInv
  BY RelayStarts
<1>3. RelayInv /\ [RelayNext]_relayVars => RelayInv'
  BY RelayStep
<1> QED
  BY <1>1, <1>2, <1>3, PTL DEF RelaySpec

(* Every heap buffer of a chunk has one owner that will free it, and a     *)
(* freed connection leaves at most the request nothing was relayed on      *)
(* (sendTargetServer, on_connect_porxy, on_write, read_data).              *)
THEOREM BuffersAlwaysOwned ==
    ASSUME NoKnownFault
    PROVE  RelaySpec => []BuffersOwned
<1>1. RelayInv => BuffersOwned
  <2> SUFFICES ASSUME RelayInv, NEW c \in Clients
               PROVE  LET l == link[c]
                      IN  /\ l.buffers = Len(l.queue["proxyClient"]) + Len(l.queue["targetClient"])
                                          + Len(l.send_buf)
                          /\ client[c].mem = "freed" /\ l.buffers # 0 =>
                                l.connect_mode = "PROXY_HTTP" /\ l.buffers = 1 /\ l.got = Nothing
    BY DEF BuffersOwned
  <2>1. Linked(client[c], link[c]) /\ ExactInv
    BY DEF RelayInv
  <2>2. Owned(link[c]) /\ Kept(client[c], link[c])
    BY <2>1 DEF Linked
  <2>3. ASSUME client[c].mem = "freed", link[c].buffers # 0
        PROVE  link[c].connect_mode = "PROXY_HTTP" /\ link[c].buffers = 1 /\ link[c].got = Nothing
    <3>1. ~Listed(client[c])
      BY <2>1, <2>3 DEF ExactInv, Unused, Busy, Exact, Freed
    <3>2. link[c].queue["proxyClient"] = <<>> /\ link[c].queue["targetClient"] = <<>>
      BY <2>1, <3>1, TwoSockets DEF Linked, Listed
    <3>3. link[c].send_buf \in Seq(Chunk)
      BY <2>1, LinkFields DEF Linked
    <3>4. Len(<<>>) = 0
      OBVIOUS
    <3>5. link[c].buffers = Len(link[c].send_buf)
      BY <2>2, <3>2, <3>3, <3>4 DEF Owned
    <3>6. link[c].send_buf # <<>>
      BY <2>3, <3>4, <3>5
    <3> QED
      BY <2>2, <3>5, <3>6 DEF Kept
  <2> QED
    BY <2>2, <2>3 DEF Owned
<1>2. RelayInit => RelayInv
  BY RelayStarts
<1>3. RelayInv /\ [RelayNext]_relayVars => RelayInv'
  BY RelayStep
<1> QED
  BY <1>1, <1>2, <1>3, PTL DEF RelaySpec

(* The client gets what the target sent, after "Established" if it asked   *)
(* for a tunnel: a close may cut the end, never the middle                 *)
(* (on_connect_porxy and read_data_porxy write to the same socket).        *)
THEOREM DownAlwaysInOrder ==
    ASSUME NoKnownFault
    PROVE  RelaySpec => DownInOrder
<1>1. RelayInit => DownInv /\ Down!Init
  BY RelayStarts, PipesStart
<1>2. DownInv /\ [RelayNext]_relayVars => DownInv' /\ [Down!Next]_(Down!vars)
  BY DownStep
<1> QED
  BY <1>1, <1>2, PTL DEF RelaySpec, DownInOrder, Down!Spec

(* The target gets what the client sent, in order and without a hole,      *)
(* until it is cut off, if clients wait as ClientsWait says                *)
(* (sendTargetServer and on_connect_porxy write to the same socket).       *)
THEOREM UpAlwaysInOrder ==
    ASSUME NoKnownFault, ClientsWait
    PROVE  RelaySpec => UpInOrder
<1>1. RelayInit => UpInv /\ Up!Init
  BY RelayStarts, PipesStart
<1>2. UpInv /\ [RelayNext]_relayVars => UpInv' /\ [Up!Next]_(Up!vars)
  BY UpStep
<1> QED
  BY <1>1, <1>2, PTL DEF RelaySpec, UpInOrder, Up!Spec
=============================================================================
