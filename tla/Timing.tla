------------------------------- MODULE Timing -------------------------------
(***************************************************************************)
(* Proxy with a clock: when the timers of a connection and of its DNS      *)
(* request run out, and what a blocked loop does to them.                  *)
(*                                                                         *)
(* libuv starts a timer from loop_time, the time it read when the loop     *)
(* last woke up, not from the time it is.  The two differ only while the   *)
(* loop is held up, and the one call that holds it up is uv_getaddrinfo    *)
(* without a callback, in send_default_dns.  Callbacks of the same wake-up *)
(* still see the old loop_time.                                            *)
(***************************************************************************)
EXTENDS ProxyProperties

CONSTANTS
    DnsTimeout,  \* dns_timeout of Global.c
    MaxStall,    \* bound: how long the system resolver takes
    MaxTime      \* bound: when the clock stops

ASSUME TimingAssumption == DnsTimeout \in Nat \ {0} /\ MaxStall \in Nat /\ MaxTime \in Nat

VARIABLES
    now,        \* the time it is
    loop_time,  \* uv_now
    woken,      \* the loop has slept and is at what woke it up
    clock       \* the times of each connection:
                \*   accepted  when the connection was accepted
                \*   due       when timeout_timer runs out, by loop_time
                \*   read      when either side was last read
                \*   asked     when its name was first asked for
                \*   dns_due   when its DNS request runs out, by loop_time

timingVars == <<client, client_count, now, loop_time, woken, clock>>

TimingInit ==
    /\ Init
    /\ now = 0
    /\ loop_time = 0
    /\ woken = FALSE
    /\ clock = [c \in Clients |->
                  [accepted |-> 0, due |-> 0, read |-> 0, asked |-> 0, dns_due |-> 0]]

-----------------------------------------------------------------------------
TimerDue(c) == client[c].armed /\ clock[c].due =< loop_time

DnsDue(c) == InFlight(client[c]) > 0 /\ clock[c].dns_due =< loop_time

NothingDue == \A c \in Clients : ~TimerDue(c) /\ ~DnsDue(c)

(* uv_run: the descriptors are looked at first when the loop has slept,    *)
(* and otherwise after the timers that are due.                            *)
Polled == (woken \/ NothingDue) /\ UNCHANGED woken

(* The timers and the closing phase come after the descriptors.            *)
PollOver == woken' = FALSE

NothingClosing == \A c \in Clients, h \in Handles : client[c].handle[h] # "closing"

(* uv_timer_again restarts a timer with its repeat value; 0 means that it  *)
(* has none, and leaves the timer as it is.                                *)
uv_timer_again(c) == clock[c].due

(* Every read of either side. *)
Read(c) == [clock[c] EXCEPT !.read = now, !.due = uv_timer_again(c)]

Clock(c, times) == clock' = [clock EXCEPT ![c] = times]

(* Mutation of DnsStarted: the second request gets the time of the whole   *)
(* connection.                                                             *)
DnsStarted_long(times, asked) ==
    [times EXCEPT !.asked = asked,
                  !.dns_due = loop_time + (IF asked = now THEN DnsTimeout ELSE TimeOut)]

(* send_dns_query starts the timer of its request. *)
DnsStarted(times, asked) ==
    [times EXCEPT !.asked = asked, !.dns_due = loop_time + DnsTimeout]

-----------------------------------------------------------------------------
(* The loop sleeps, with nothing to do, until something comes or a timer   *)
(* is due.                                                                 *)
Tick ==
    /\ now = loop_time /\ now < MaxTime
    /\ NothingDue /\ NothingClosing
    /\ now' = now + 1 /\ loop_time' = now + 1
    /\ woken' = TRUE
    /\ UNCHANGED <<vars, clock>>

(* After a stall the loop comes round and reads the clock. *)
Turn ==
    /\ loop_time < now
    /\ NothingClosing
    /\ loop_time' = now
    /\ PollOver
    /\ UNCHANGED <<vars, now, clock>>

Untimed == UNCHANGED <<now, loop_time>>

(* Mutation of Accept: the timer counts from the start of the loop. *)
Accept_absolute(c) ==
    /\ Polled
    /\ on_new_connection(c)
    /\ Clock(c, [clock[c] EXCEPT !.accepted = now, !.read = now, !.due = TimeOut])
    /\ Untimed

Accept(c) ==
    /\ Polled
    /\ on_new_connection(c)
    /\ Clock(c, [clock[c] EXCEPT !.accepted = now, !.read = now, !.due = loop_time + TimeOut])
    /\ Untimed

(* A request for an address, or a name one of our own servers is asked for. *)
Request(c) ==
    /\ Polled
    /\ \/ read_data_address(c) /\ Clock(c, Read(c))
       \/ /\ Dns # {}
          /\ read_data_name(c)
          /\ Clock(c, IF InFlight(client'[c]) > 0 THEN DnsStarted(Read(c), now) ELSE Read(c))
    /\ Untimed

(* The system resolver holds the loop up for as long as it takes. *)
RequestBlocking(c) ==
    /\ Polled
    /\ Dns = {}
    /\ read_data_name(c)
    /\ Clock(c, Read(c))
    /\ \E stall \in 0 .. MaxStall : now + stall =< MaxTime /\ now' = now + stall
    /\ UNCHANGED loop_time

(* Data from either side of a connection that is up (module Relay). *)
Data(c) ==
    /\ Polled
    /\ Running
    /\ Serving(client[c], "proxyClient") /\ client[c].state = 1
    /\ Clock(c, Read(c))
    /\ UNCHANGED vars /\ Untimed

(* A request of this connection ends with status: on_dns asks the other    *)
(* server, or is done.                                                     *)
Reply(c, status) ==
    /\ \E s \in DnsServers, queryOk \in Outcomes("query") : DnsReply(c, s, status, queryOk)
    /\ Clock(c, IF InFlight(client'[c]) > 0 THEN DnsStarted(clock[c], clock[c].asked) ELSE clock[c])
    /\ Untimed

Answer(c) == Polled /\ \E status \in {1, -2} : Reply(c, status)

on_dns_timeout(c) == PollOver /\ DnsDue(c) /\ Reply(c, -1)

(* The other callbacks of the loop, which start no timer. *)
Other(c) ==
    /\ \/ Polled /\ (read_data_end(c) \/ read_data_rejected(c))
       \/ Polled /\ (on_connect_porxy(c) \/ read_data_porxy_end(c))
       \/ /\ PollOver
          /\ client[c].handle["targetClient"] = "closing" /\ on_connect_porxy(c)
       \/ PollOver /\ TimerDue(c) /\ on_timeout(c)
       \/ PollOver /\ \E h \in Handles : Closed(c, h)
    /\ UNCHANGED clock /\ Untimed

TimingNext ==
    \/ Tick
    \/ Turn
    \/ \E c \in Clients :
          \/ Accept(c)
          \/ Request(c)
          \/ RequestBlocking(c)
          \/ Data(c)
          \/ Answer(c)
          \/ on_dns_timeout(c)
          \/ Other(c)

TimingSpec == TimingInit /\ [][TimingNext]_timingVars

-----------------------------------------------------------------------------
(* What the loop can be held up by in all: each connection resolves once.  *)
TotalStall == Cardinality(Clients) * MaxStall

(* A connection whose peers have both fallen silent is gone, and its       *)
(* memory with it, TimeOut after it was last read: later only by a DNS     *)
(* request that was just sent and by the time the loop was held up.        *)
SilentIsFreed ==
    \A c \in Clients :
        client[c].mem = "live" =>
            now =< clock[c].read + TimeOut + TotalStall + (IF Dns = {} THEN 0 ELSE DnsTimeout)

(* A client waits for its name no longer than both servers may take        *)
(* (dns_timeout of Global.c; on_dns hands the timeout on to the retry).    *)
DnsWaitBounded ==
    \A c \in Clients :
        InFlight(client[c]) > 0 => now =< clock[c].asked + Cardinality(Dns) * DnsTimeout

(* on_timeout closes this connection. *)
Expires(c) ==
    client[c].armed /\ ~client'[c].armed /\ Serving(client[c], "proxyClient")

(* A connection has the time the timeout names (README.md, --timeout): it  *)
(* is cut earlier only by as much as the others held the loop up before it *)
(* was accepted.                                                           *)
NotCutShort ==
    [][\A c \in Clients :
          Expires(c) => now + TotalStall - MaxStall >= clock[c].accepted + TimeOut]_timingVars

-----------------------------------------------------------------------------
(* What the code does not keep to; no run checks it (README.md).           *)

(* Every read gives the connection its time again (uv_timer_again in       *)
(* read_data and read_data_porxy, and the note in on_timeout).             *)
OnlyIdleExpires ==
    [][\A c \in Clients : Expires(c) => now >= clock[c].read + TimeOut]_timingVars
=============================================================================
