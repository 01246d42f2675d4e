-------------------------------- MODULE Relay --------------------------------
(***************************************************************************)
(* The bytes: what read_data and read_data_porxy pass on, the request kept *)
(* in send_buf until the target is connected, and the writes libuv still   *)
(* holds for a socket.                                                     *)
(*                                                                         *)
(* The module adds data to the actions of Proxy.  A Proxy action is taken  *)
(* whole, with its effect on the data beside it; the three callbacks that  *)
(* only move data leave the Client struct alone.  So every behaviour of    *)
(* Relay is one of Proxy.                                                  *)
(*                                                                         *)
(* A chunk is what one read returns: its number in the stream it came from *)
(* and the host it is meant for.                                           *)
(***************************************************************************)
EXTENDS ProxyProperties, Sequences

CONSTANTS
    Hosts,      \* the hosts a client may name in a request
    Modes,      \* connect modes of this instance: PROXY_HTTP, PROXY_HTTPS
    Eager,      \* the modes whose clients send on before they are connected
    EarlyWrite, \* what uv_write does with a socket still connecting
    MaxChunks   \* bound: chunks read from either side

ASSUME HostsAssumption == "none" \notin Hosts
ASSUME ModesAssumption == Modes \subseteq {"PROXY_HTTP", "PROXY_HTTPS"}
ASSUME EagerAssumption == Eager \subseteq Modes

(* Unix queues an early write in front of what is written once connected;  *)
(* Windows refuses it with UV_EPIPE.                                       *)
ASSUME EarlyWriteAssumption == EarlyWrite \in {"queued", "refused"}
ASSUME MaxChunksAssumption == MaxChunks \in Nat

VARIABLE link  \* of each connection: its data, and what its peers saw

relayVars == <<client, client_count, link>>

Established == <<0, "reply">>

Chunk == {Established} \cup (1..MaxChunks) \X (Hosts \cup {"reply"})

(***************************************************************************)
(*   connect_mode  as in Client, PROXY_HTTPS being the zero of the enum    *)
(*   host          the host the target of this connection was looked up by *)
(*   send_buf      the request kept for the target, until it is handed on  *)
(*   queue         writes libuv holds for each socket                      *)
(*   buffers       heap buffers of chunks that were not freed              *)
(*   sent, got     what the peer at each socket has sent (and the proxy    *)
(*                 read), and what it has received                         *)
(***************************************************************************)
LinkRec ==
    [ connect_mode : {"PROXY_HTTP", "PROXY_HTTPS"},
      host         : Hosts \cup {"none"},
      send_buf     : Seq(Chunk),
      queue        : [Sockets -> Seq(Chunk)],
      buffers      : Nat,
      sent         : [Sockets -> Seq(Chunk)],
      got          : [Sockets -> Seq(Chunk)] ]

Nothing == [s \in Sockets |-> <<>>]

RelayInit ==
    /\ Init
    /\ link = [c \in Clients |->
          [ connect_mode |-> "PROXY_HTTPS",
            host         |-> "none",
            send_buf     |-> <<>>,
            queue        |-> Nothing,
            buffers      |-> 0,
            sent         |-> Nothing,
            got          |-> Nothing ]]

-----------------------------------------------------------------------------
(* uv_write with a buffer of its own: the socket's queue owns it. *)
uv_write(l, s, chunk) ==
    [l EXCEPT !.queue[s] = Append(@, chunk), !.buffers = @ + 1]

(* One more read from the peer at socket s. *)
Sent(l, s, to) == [l EXCEPT !.sent[s] = Append(@, <<Len(@) + 1, to>>)]

MayRead(c, s) == Len(link[c].sent[s]) < MaxChunks

Move(c, l) == link' = [link EXCEPT ![c] = l]

(* A callback that only moves data. *)
MoveOnly(c, l) == Running /\ Move(c, l) /\ UNCHANGED vars

-----------------------------------------------------------------------------
(* read_data, first connection: a plain request is kept for the target, a  *)
(* CONNECT is for the proxy itself.                                        *)
Parsed(l, mode, to) ==
    LET read == [Sent(l, "proxyClient", to) EXCEPT !.connect_mode = mode, !.host = to]
    IN  IF mode = "PROXY_HTTPS" THEN read
        ELSE [read EXCEPT !.send_buf = <<<<Len(l.sent["proxyClient"]) + 1, to>>>>,
                          !.buffers = @ + 1]

Request(c) ==
    /\ MayRead(c, "proxyClient")
    /\ read_data_address(c) \/ read_data_name(c)
    /\ \E mode \in Modes, to \in Hosts : Move(c, Parsed(link[c], mode, to))

Rejected(c) ==
    /\ MayRead(c, "proxyClient")
    /\ read_data_rejected(c)
    /\ \E to \in Hosts : Move(c, Sent(link[c], "proxyClient", to))

(* A client that is not eager waits for its target: for "Established" if   *)
(* it asked for a tunnel, for something to answer it otherwise.            *)
Waits(c) == link[c].connect_mode \notin Eager /\ link[c].got["proxyClient"] = <<>>

(* Mutation of sendTargetServer: a target that is still connecting counts  *)
(* as gone.                                                                *)
sendTargetServer_late(c, l, chunk) ==
    IF IsUp(client[c], "targetClient") /\ ~client[c].connecting
    THEN uv_write(l, "targetClient", chunk)
    ELSE l

(* PorxyClient.c, sendTargetServer: the chunk is copied and written, or    *)
(* dropped if the target is gone or the write is refused.                  *)
sendTargetServer(c, l, chunk) ==
    IF IsUp(client[c], "targetClient") /\ (client[c].connecting => EarlyWrite = "queued")
    THEN uv_write(l, "targetClient", chunk)
    ELSE l

(* read_data with state = 1: what comes is for the target, whatever it is. *)
read_data(c) ==
    /\ Readable(c)
    /\ client[c].state = 1
    /\ MayRead(c, "proxyClient")
    /\ ~Waits(c)
    /\ \E to \in Hosts :
          MoveOnly(c, sendTargetServer(c, Sent(link[c], "proxyClient", to),
                                       <<Len(link[c].sent["proxyClient"]) + 1, to>>))

-----------------------------------------------------------------------------
(* on_connect_porxy, the client still there: the tunnel is confirmed, or   *)
(* the request kept in send_buf goes to the target, its buffer with it.    *)
Connected(l) ==
    IF l.connect_mode = "PROXY_HTTPS"
    THEN uv_write(l, "proxyClient", Established)
    ELSE [l EXCEPT !.queue["targetClient"] = @ \o l.send_buf, !.send_buf = <<>>]

(* on_connect_porxy with status 0 leaves the target open, with an error it *)
(* does not.                                                               *)
Connect(c) ==
    /\ on_connect_porxy(c)
    /\ Move(c, IF IsUp(client'[c], "targetClient") /\ IsUp(client[c], "proxyClient")
               THEN Connected(link[c])
               ELSE link[c])

(* Mutation of read_data_porxy: the answer goes ahead of what is queued.   *)
read_data_porxy_first(c) ==
    /\ IsUp(client[c], "targetClient")
    /\ ~client[c].connecting
    /\ MayRead(c, "targetClient")
    /\ LET l     == link[c]
           chunk == <<Len(l.sent["targetClient"]) + 1, "reply">>
       IN  MoveOnly(c, [Sent(l, "targetClient", "reply") EXCEPT
                            !.queue["proxyClient"] = <<chunk>> \o @, !.buffers = @ + 1])

(* read_data_porxy with data: it is for the client, if there is one.  The  *)
(* target is read however much the client has not taken yet.               *)
read_data_porxy(c) ==
    /\ IsUp(client[c], "targetClient")
    /\ ~client[c].connecting
    /\ MayRead(c, "targetClient")
    /\ LET l     == Sent(link[c], "targetClient", "reply")
           chunk == <<Len(l.sent["targetClient"]), "reply">>
       IN  MoveOnly(c, IF IsUp(client[c], "proxyClient")
                       THEN uv_write(l, "proxyClient", chunk)
                       ELSE l)

-----------------------------------------------------------------------------
(* libuv hands the first write of a connected socket to the peer; on_write *)
(* frees its buffer.                                                       *)
on_write(c, s) ==
    /\ client[c].handle[s] = "open"
    /\ s = "targetClient" => ~client[c].connecting
    /\ link[c].queue[s] # <<>>
    /\ MoveOnly(c, [link[c] EXCEPT !.got[s]   = Append(@, Head(link[c].queue[s])),
                                   !.queue[s] = Tail(@),
                                   !.buffers  = @ - 1])

(* Mutations of Dropped: nothing is cancelled; the buffers stay. *)
Dropped_kept(l, h) == l

Dropped_unfreed(l, h) == IF h \in Sockets THEN [l EXCEPT !.queue[h] = <<>>] ELSE l

(* Before the close callback of a socket libuv cancels the writes it still *)
(* holds for it; on_write frees their buffers.                             *)
Dropped(l, h) ==
    IF h \in Sockets
    THEN [l EXCEPT !.queue[h] = <<>>, !.buffers = @ - Len(l.queue[h])]
    ELSE l

(* The callbacks that touch no data. *)
Untouched(c) ==
    /\ \/ on_new_connection(c)
       \/ read_data_end(c)
       \/ \E s \in DnsServers : DnsAnswer(c, s)
       \/ read_data_porxy_end(c)
       \/ on_timeout(c)
    /\ UNCHANGED link

RelayNext ==
    \E c \in Clients :
        \/ Untouched(c)
        \/ Request(c)
        \/ Rejected(c)
        \/ read_data(c)
        \/ Connect(c)
        \/ read_data_porxy(c)
        \/ \E s \in Sockets : on_write(c, s)
        \/ \E h \in Handles : Closed(c, h) /\ Move(c, Dropped(link[c], h))

RelaySpec == RelayInit /\ [][RelayNext]_relayVars

-----------------------------------------------------------------------------
(* Every field keeps its type, and writes are held only for a socket that  *)
(* exists.                                                                 *)
RelayTypeOK ==
    /\ link \in [Clients -> LinkRec]
    /\ \A c \in Clients, s \in Sockets :
          link[c].queue[s] # <<>> => client[c].handle[s] \in {"open", "closing"}

(* Every buffer has one owner that will free it: libuv's queue, through    *)
(* on_write, or send_buf (the malloc of sendTargetServer, the strdup of    *)
(* on_connect_porxy, the read buffer read_data_porxy passes on).  So a     *)
(* connection that is freed leaves no buffer behind, but for the request   *)
(* of one no byte was ever relayed on: send_buf has no owner until         *)
(* on_connect_porxy hands it on (read_data).                               *)
BuffersOwned ==
    \A c \in Clients :
        LET l == link[c]
        IN  /\ l.buffers = Len(l.queue["proxyClient"]) + Len(l.queue["targetClient"])
                            + Len(l.send_buf)
            /\ client[c].mem = "freed" /\ l.buffers # 0 =>
                  l.connect_mode = "PROXY_HTTP" /\ l.buffers = 1 /\ l.got = Nothing

-----------------------------------------------------------------------------
Uncut(s) == [c \in Clients |-> client[c].handle[s] \notin {"closing", "closed"}]

(* What of a client's stream is for its target: all but a CONNECT. *)
ForTarget(l) ==
    LET first == IF l.connect_mode = "PROXY_HTTPS" THEN 2 ELSE 1
    IN  SubSeq(l.sent["proxyClient"], first, Len(l.sent["proxyClient"]))

(* What a client is to get: its tunnel confirmed first, if it wants one.   *)
ForClient(l) ==
    (IF l.connect_mode = "PROXY_HTTPS" /\ l.host # "none" THEN <<Established>> ELSE <<>>)
        \o l.sent["targetClient"]

Up == INSTANCE Pipe WITH
          Pipes    <- Clients,
          Data     <- Chunk,
          sent     <- [c \in Clients |-> ForTarget(link[c])],
          received <- [c \in Clients |-> link[c].got["targetClient"]],
          open     <- Uncut("targetClient")

Down == INSTANCE Pipe WITH
          Pipes    <- Clients,
          Data     <- Chunk,
          sent     <- [c \in Clients |-> ForClient(link[c])],
          received <- [c \in Clients |-> link[c].got["proxyClient"]],
          open     <- Uncut("proxyClient")

(* The target gets what the client sent, in order and without a hole,      *)
(* until it is cut off: the whole of a plain request, and what follows the *)
(* CONNECT of a tunnel (sendTargetServer and on_connect_porxy write to the *)
(* same socket from two callbacks).                                        *)
UpInOrder == Up!Spec

(* The client gets what the target sent, after "Established" if it asked   *)
(* for a tunnel: a close may cut the end, never the middle.                *)
DownInOrder == Down!Spec

-----------------------------------------------------------------------------
(* What the code does not keep to.  No run checks these; README.md names   *)
(* the instance that refutes each.                                         *)

(* What a target gets is meant for it (PorxyClient.c, sendTargetServer:    *)
(* the client's request is passed on to the target server).                *)
ReachesItsHost ==
    \A c \in Clients :
        \A i \in DOMAIN link[c].got["targetClient"] :
            link[c].got["targetClient"][i][2] = link[c].host

(* The branch for the first connection runs for the first read: what the   *)
(* client sends later does not change the Client (Main.c, read_data; state *)
(* in Global.h).                                                           *)
OnlyFirstReadParses ==
    [][\A c \in Clients :
          link'[c].sent["proxyClient"] # link[c].sent["proxyClient"] /\ client[c].host
              => client'[c] = client[c]]_relayVars

(* What the proxy holds for one client that takes nothing stays below the  *)
(* 1.5 MB README.md names, at 64 KB for a read (alloc_buffer).             *)
HeldBelow1536K == \A c \in Clients : 64 * link[c].buffers < 1536
=============================================================================
