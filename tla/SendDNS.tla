------------------------------- MODULE SendDNS -------------------------------
(***************************************************************************)
(* The DNS client of SendDNS.c: one dns_request_t for each call of         *)
(* send_dns_query, with a UDP socket and a timer of its own.  The answer   *)
(* and the timer race for the callback, and the struct may go only when    *)
(* libuv has closed both handles.                                          *)
(*                                                                         *)
(* Every action is one callback of the loop, with the caller's callback    *)
(* (on_dns of Main.c) inside it.  A datagram on_udp_read ignores (empty,   *)
(* no longer than a header, or a question) changes nothing here.           *)
(***************************************************************************)
EXTENDS Integers

CONSTANT Requests   \* the calls of send_dns_query, one struct each

VARIABLE request    \* of each call: its struct, and what the loop holds for it

DnsHandles == {"udp_handle", "timeout_timer"}

(* What send_dns_query may return; 0 stands for "not called yet". *)
Returns == {1, -1, -2, -3, -4}

(* The record the answer holds first that is not a CNAME, if it has one    *)
(* on_udp_read can read an address from.                                   *)
Addresses == {"none", "A", "AAAA"}

(***************************************************************************)
(*   mem        the storage of the struct                                  *)
(*   handle     a handle's state field is -1 when it is "closed"           *)
(*   armed      the timer is running                                       *)
(*   sending    on_udp_send is still to come                               *)
(*   status     dns_response.status       address   dns_response.ip_address*)
(*   returned   what the call returned    calls     times cb was called    *)
(*   fault      the first step outside libuv's or malloc's contract        *)
(***************************************************************************)
RequestRec ==
    [ mem      : {"unused", "live", "freed"},
      handle   : [DnsHandles -> {"none", "open", "closing", "closed"}],
      armed    : BOOLEAN,
      sending  : BOOLEAN,
      status   : {1, -1, -2},
      address  : Addresses,
      returned : Returns \cup {0},
      calls    : Nat,
      fault    : {"none", "use_after_free", "double_close"} ]

Both(status) == [h \in DnsHandles |-> status]

Unused ==
    [ mem      |-> "unused",
      handle   |-> Both("none"),
      armed    |-> FALSE,
      sending  |-> FALSE,
      status   |-> 1,
      address  |-> "none",
      returned |-> 0,
      calls    |-> 0,
      fault    |-> "none" ]

Init == request = [r \in Requests |-> Unused]

-----------------------------------------------------------------------------
(* uv_close also stops a timer. *)
uv_close(req, h) ==
    IF req.handle[h] = "open"
    THEN [req EXCEPT !.handle[h] = "closing",
                     !.armed = @ /\ h # "timeout_timer"]
    ELSE [req EXCEPT !.fault = "double_close"]

CloseBoth(req) == uv_close(uv_close(req, "udp_handle"), "timeout_timer")

-----------------------------------------------------------------------------
(* send_dns_query *)

Allocated == [Unused EXCEPT !.mem = "live", !.handle = Both("open")]

(* Mutations of send_dns_query: the server's address is looked at after    *)
(* the struct is allocated; the timer is not started; the timer is stopped *)
(* but not closed when the datagram cannot be sent.                        *)
send_dns_query_late_check(result) ==
    CASE result = 1  -> [Allocated EXCEPT !.returned = 1, !.armed = TRUE, !.sending = TRUE]
      [] result = -1 -> [Unused EXCEPT !.returned = -1, !.mem = "live"]
      [] OTHER       -> CloseBoth([Allocated EXCEPT !.returned = result])

send_dns_query_untimed(result) ==
    CASE result = 1  -> [Allocated EXCEPT !.returned = 1, !.sending = TRUE]
      [] result = -1 -> [Unused EXCEPT !.returned = -1]
      [] OTHER       -> CloseBoth([Allocated EXCEPT !.returned = result])

send_dns_query_open_timer(result) ==
    CASE result = 1  -> [Allocated EXCEPT !.returned = 1, !.armed = TRUE, !.sending = TRUE]
      [] result = -1 -> [Unused EXCEPT !.returned = -1]
      [] result = -4 -> uv_close([Allocated EXCEPT !.returned = -4], "udp_handle")
      [] OTHER       -> CloseBoth([Allocated EXCEPT !.returned = result])

(* The server's address is refused before anything is allocated (-1);      *)
(* binding (-2), receiving (-3) and sending (-4) fail with the struct      *)
(* left to the close callbacks; by -4 the timer was started and stopped.   *)
send_dns_query(result) ==
    CASE result = 1  -> [Allocated EXCEPT !.returned = 1, !.armed = TRUE, !.sending = TRUE]
      [] result = -1 -> [Unused EXCEPT !.returned = -1]
      [] OTHER       -> CloseBoth([Allocated EXCEPT !.returned = result])

(* Nothing is said about the program once a fault has happened. *)
Running == \A r \in Requests : request[r].fault = "none"

Call(r) ==
    /\ Running
    /\ request[r].returned = 0
    /\ \E result \in Returns : request' = [request EXCEPT ![r] = send_dns_query(result)]

-----------------------------------------------------------------------------
(* The callback has run with req as it is now, and the handler goes on to  *)
(* turn it into done.  on_dns asks the other server, inside the callback,  *)
(* when the answer is not a success.                                       *)
CallBack(r, done) ==
    LET after == [request EXCEPT ![r] = [done EXCEPT !.calls = @ + 1]]
    IN  \/ request' = after
        \/ /\ done.status # 1
           /\ \E n \in Requests, result \in Returns :
                 /\ request[n].returned = 0
                 /\ request' = [after EXCEPT ![n] = send_dns_query(result)]

(* Mutation of Answered: the socket is closed, the timer is left running. *)
Answered_timed(req) == uv_close(req, "udp_handle")

(* uv_timer_stop, then the callback, then both handles are closed. *)
Answered(req) == CloseBoth([req EXCEPT !.armed = FALSE])

(* on_udp_read, for an answer: rcode 0 and at least one record leave       *)
(* status at 1, whatever the records hold.                                 *)
on_udp_read(r) ==
    /\ Running
    /\ request[r].handle["udp_handle"] = "open"
    /\ \/ \E address \in Addresses :
             CallBack(r, Answered([request[r] EXCEPT !.address = address]))
       \/ CallBack(r, Answered([request[r] EXCEPT !.status = -2]))

(* Mutation of on_dns_timeout: the socket goes on receiving. *)
on_dns_timeout_receiving(r) ==
    /\ Running
    /\ request[r].armed
    /\ CallBack(r, uv_close([request[r] EXCEPT !.armed = FALSE, !.status = -1], "timeout_timer"))

on_dns_timeout(r) ==
    /\ Running
    /\ request[r].armed
    /\ CallBack(r, CloseBoth([request[r] EXCEPT !.armed = FALSE, !.status = -1]))

-----------------------------------------------------------------------------
(* The datagram is sent, or was cancelled by the close of its socket: the  *)
(* uv_udp_send_t goes, the struct is not touched.                          *)
on_udp_send(r) ==
    /\ Running
    /\ request[r].sending
    /\ request' = [request EXCEPT ![r].sending = FALSE]

(* Mutation of BothClosed: one handle is enough to free the struct. *)
BothClosed_either(req) == \E h \in DnsHandles : req.handle[h] = "closed"

BothClosed(req) == \A h \in DnsHandles : req.handle[h] = "closed"

(* on_dns_close, which libuv calls for a socket after it has cancelled     *)
(* what the socket still had to send.                                      *)
on_dns_close(r, h) ==
    LET closed == [request[r] EXCEPT !.handle[h] = "closed"]
    IN  /\ Running
        /\ request[r].handle[h] = "closing"
        /\ h = "udp_handle" => ~request[r].sending
        /\ request' = [request EXCEPT ![r] =
                CASE closed.mem # "live" -> [closed EXCEPT !.fault = "use_after_free"]
                  [] closed.mem = "live" /\ BothClosed(closed) -> [closed EXCEPT !.mem = "freed"]
                  [] OTHER -> closed]

Next ==
    \E r \in Requests :
        \/ Call(r)
        \/ on_udp_read(r)
        \/ on_dns_timeout(r)
        \/ on_udp_send(r)
        \/ \E h \in DnsHandles : on_dns_close(r, h)

Spec == Init /\ [][Next]_request

(* The loop fires a timer that is due, reports a datagram as sent or       *)
(* cancelled, and runs its closing phase in every iteration.  That the     *)
(* server answers is not assumed.                                          *)
Fairness ==
    \A r \in Requests :
        /\ WF_request(on_dns_timeout(r))
        /\ WF_request(on_udp_send(r))
        /\ \A h \in DnsHandles : WF_request(on_dns_close(r, h))

FairSpec == Spec /\ Fairness

-----------------------------------------------------------------------------
(* Every field keeps its type, and a struct is allocated exactly when its  *)
(* handles are initialised: no path of send_dns_query returns with one     *)
(* that no close callback will free.                                       *)
TypeOK ==
    /\ request \in [Requests -> RequestRec]
    /\ \A r \in Requests, h \in DnsHandles :
          request[r].mem = "unused" <=> request[r].handle[h] = "none"

(* No handle is closed twice, and no callback finds the struct freed,      *)
(* whichever of answer and timer comes first (on_udp_read, on_dns_timeout  *)
(* and the failure paths of send_dns_query all close both handles).        *)
MemorySafe ==
    \A r \in Requests :
        /\ request[r].fault = "none"
        /\ request[r].mem = "freed" =>
              /\ ~request[r].armed
              /\ ~request[r].sending
              /\ \A h \in DnsHandles : request[r].handle[h] = "closed"

(* A call that returned 1 has its callback called once before the struct   *)
(* goes, any other call never has: the reference read_data and on_dns take *)
(* for the callback (Main.c) is given back once.                           *)
CalledOnce ==
    \A r \in Requests :
        /\ request[r].calls =< 1
        /\ request[r].returned # 1 => request[r].calls = 0
        /\ request[r].returned = 1 /\ request[r].mem = "freed" => request[r].calls = 1

(* A query that was accepted is answered, if only by its timer. *)
EventuallyAnswered ==
    \A r \in Requests : request[r].returned = 1 ~> request[r].calls > 0

(* A struct that was allocated is freed, whether or not the call failed. *)
EventuallyFreed ==
    \A r \in Requests : request[r].mem = "live" ~> request[r].mem = "freed"

-----------------------------------------------------------------------------
(* What the caller sees of the requests. *)
Phase(req) ==
    CASE req.returned = 0 -> "idle"
      [] req.returned = 1 -> "asked"
      [] OTHER            -> "refused"

Query == INSTANCE DnsQuery WITH
            Queries <- Requests,
            phase   <- [r \in Requests |-> Phase(request[r])],
            answers <- [r \in Requests |-> request[r].calls]

(* Socket, timer and close callbacks together keep the promise of          *)
(* DnsQuery: each accepted query is answered at most once, a refused one   *)
(* never, and a callback makes at most one further query.                  *)
KeepsPromise == Query!Spec

-----------------------------------------------------------------------------
(* What the code does not keep to; no run checks it (README.md).           *)

(* The status of a success says that an address was found (SendDNS.h,      *)
(* dns_response_s: 1 success, -2 the address of the host was not found).   *)
SuccessHasAddress ==
    \A r \in Requests :
        request[r].calls > 0 /\ request[r].status = 1 => request[r].address # "none"
=============================================================================
