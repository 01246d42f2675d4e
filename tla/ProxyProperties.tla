-------------------------- MODULE ProxyProperties --------------------------
(***************************************************************************)
(* What must be true of the connections of module Proxy.                   *)
(***************************************************************************)
EXTENDS Proxy, FiniteSets

(* Every field keeps its type; the counters never go below zero. *)
TypeOK ==
    /\ client \in [Clients -> ClientRec]
    /\ client_count \in Int
    /\ \A c \in Clients : \A s \in DnsServers : client[c].dns[s] >= 0

(* Who may still reach the struct of a connection: a handle until its      *)
(* close callback has run (the target only if its connect was started),    *)
(* and every DNS request until on_dns has run.                             *)
One(p) == IF p THEN 1 ELSE 0

Uses(cl) ==
    One(cl.handle["proxyClient"] \in {"open", "closing"})
        + One("targetClient" \in cl.data)
        + One(cl.handle["timeout_timer"] \in {"open", "closing"})
        + InFlight(cl)

(* The socket is open and serves the connection. *)
Serving(cl, h) == h \in cl.data /\ cl.handle[h] = "open"

-----------------------------------------------------------------------------
(* No handler frees a Client a callback will still use, uses one after the *)
(* free, or closes a handle twice, whatever calls fail and whatever the    *)
(* client sends, up to the first fault of another kind (the checks before  *)
(* every uv_close in Main.c and PorxyClient.c, and the reference each      *)
(* pending callback owns).                                                 *)
NoUseAfterFree ==
    \A c \in Clients : client[c].fault \notin {"use_after_free", "double_close"}

(* No handler steps outside libuv's contract at all: besides the above, no *)
(* handle is initialised twice, freed while initialised, or closed with a  *)
(* data pointer that is NULL.                                              *)
MemorySafe == \A c \in Clients : client[c].fault = "none"

(* ref_count is the number of handles and requests that can still reach    *)
(* the struct, no more (a leak) and no less (an early free), between any   *)
(* two callbacks: every ref_client of Main.c has its unref_client.         *)
RefCountExact ==
    \A c \in Clients :
        client[c].mem = "live" /\ client[c].fault = "none"
            => client[c].ref_count = Uses(client[c])

(* The count logged as "remaining connections" (Global.c, unref_client) is *)
(* the number of connections something can still happen to.                *)
CountsServed ==
    client_count = Cardinality({c \in Clients : Uses(client[c]) > 0})

(* When one side of a connection is closed the other is asked to close in  *)
(* the same callback: no side is left up on its own.                       *)
SidesCloseTogether ==
    \A c \in Clients :
        /\ client[c].handle["proxyClient"] \in {"closing", "closed"}
                => ~Serving(client[c], "targetClient")
        /\ client[c].handle["targetClient"] \in {"closing", "closed"}
                => ~Serving(client[c], "proxyClient")

(* close_cb closes the timer with the last socket, not before, and not     *)
(* after: a live connection has its timer open exactly while a socket      *)
(* still refers to the struct.                                             *)
TimerCoversSockets ==
    \A c \in Clients :
        TimeOut # 0 /\ client[c].mem = "live" /\ client[c].fault = "none"
            => (client[c].handle["timeout_timer"] = "open"
                    <=> Sockets \cap client[c].data # {})

(* The timer fires once.  Whatever is up has it still to come: no callback *)
(* brings a socket up after on_timeout, when nothing would reap it.        *)
UpMeansArmed ==
    \A c \in Clients :
        TimeOut # 0 /\ client[c].fault = "none"
            /\ (\E h \in Sockets : Serving(client[c], h))
            => client[c].armed

(* A connect to a target is only started for a client that is still there: *)
(* on_dns looks before it acts on an answer that comes late.               *)
NoLateConnect ==
    [][\A c \in Clients :
          client'[c].connecting /\ ~client[c].connecting
              => Serving(client[c], "proxyClient") /\ Serving(client'[c], "proxyClient")]_vars

-----------------------------------------------------------------------------
(* With a timeout every connection ends, and its memory with it, whatever  *)
(* the two peers do or fail to do.                                         *)
EventuallyFreed ==
    \A c \in Clients : client[c].mem = "live" ~> client[c].mem = "freed"

(* Without a timeout a connection may stay for ever, but once a side is    *)
(* closed the rest of it goes too.                                         *)
ClosedIsFreed ==
    \A c \in Clients :
        (\E h \in Sockets : client[c].handle[h] \in {"closing", "closed"}) ~> client[c].mem = "freed"

-----------------------------------------------------------------------------
(* The count does what a reference count promises.                         *)
Abstract == INSTANCE RefCounted WITH
                Objects <- Clients,
                life    <- [c \in Clients |-> client[c].mem],
                users   <- [c \in Clients |-> Uses(client[c])]

(* The connections, seen as objects with users, are freed by the callback  *)
(* that takes their last user away and by no other.                        *)
FreedByLastUser == Abstract!Spec

-----------------------------------------------------------------------------
(* What the code does not keep to.  No run checks these; README.md names   *)
(* the instance that refutes each.                                         *)

(* A connection nothing can happen to any more does not stay allocated:    *)
(* the reference taken for on_dns is given back by on_dns.                 *)
NoLeak == \A c \in Clients : client[c].mem = "live" => Uses(client[c]) > 0

(* state = 1 stands for "connected, exchanging data" (Global.h, Client).   *)
StateOneMeansConnected ==
    \A c \in Clients : client[c].state = 1 => ~client[c].connecting
=============================================================================
