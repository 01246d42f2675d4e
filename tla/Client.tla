------------------------------- MODULE Client -------------------------------
(***************************************************************************)
(* The Client struct of src/src/Global.h, the functions of Global.c that   *)
(* work on it, and the part of libuv's handle contract they rely on.       *)
(*                                                                         *)
(* A Client is a record; every C function that takes a Client* is an       *)
(* operator from the record before the call to the record after it, so     *)
(* that a handler reads as the composition of the calls it makes, in the   *)
(* order it makes them.  The order matters: an operator applied to a       *)
(* Client that is already freed records a fault.                           *)
(***************************************************************************)
EXTENDS Integers

Sockets == {"proxyClient", "targetClient"}
Handles == Sockets \cup {"timeout_timer"}

(* The two addresses SERVER_CONFIG.dns can hold. *)
DnsServers == {"dns_1", "dns_2"}

(* What libuv knows of a handle: never initialised, initialised, uv_close  *)
(* called but its callback still to run, and closed.                       *)
HandleStatus == {"none", "open", "closing", "closed"}

(* The ways a handler can step outside the contract of libuv or of the     *)
(* allocator.  Nothing is modelled after a fault: the behaviour of the     *)
(* program is undefined from there on.                                     *)
(*   use_after_free  the struct is used, or freed, although a callback for *)
(*                   it is still to come, or after it was freed            *)
(*   double_close    uv_close on a handle that is not open                 *)
(*   null_data       close_cb runs on a handle whose data is NULL          *)
(*   reinit          uv_tcp_init on a handle that was never closed         *)
(*   stale_handle    free() of a struct that holds an initialised handle   *)
(*                   the loop still lists, with no callback to come        *)
FaultKinds == {"none", "use_after_free", "double_close", "null_data", "reinit", "stale_handle"}

(***************************************************************************)
(* The fields of the struct, and what the loop holds on its behalf:        *)
(*   data        the handles whose .data points to the struct              *)
(*   host        client->host was set (a request was accepted)             *)
(*   connecting  target_connecter is with libuv, on_connect_porxy to come  *)
(*   armed       the timeout timer is running                              *)
(*   dns         requests in flight at each server, on_dns to come         *)
(***************************************************************************)
ClientRec ==
    [ mem        : {"unused", "live", "freed"},
      state      : {0, 1},
      host       : BOOLEAN,
      ref_count  : Int,
      handle     : [Handles -> HandleStatus],
      data       : SUBSET Handles,
      connecting : BOOLEAN,
      armed      : BOOLEAN,
      dns        : [DnsServers -> Int],
      fault      : FaultKinds ]

(* Storage Create_client has not handed out yet. *)
Unused ==
    [ mem        |-> "unused",
      state      |-> 0,
      host       |-> FALSE,
      ref_count  |-> 0,
      handle     |-> [h \in Handles |-> "none"],
      data       |-> {},
      connecting |-> FALSE,
      armed      |-> FALSE,
      dns        |-> [s \in DnsServers |-> 0],
      fault      |-> "none" ]

(* malloc and memset; client_count is the caller's. *)
Create_client == [Unused EXCEPT !.mem = "live"]

-----------------------------------------------------------------------------
(* The first fault of a behaviour is the one that counts. *)
Fail(cl, kind) == IF cl.fault = "none" THEN [cl EXCEPT !.fault = kind] ELSE cl

InFlight(cl) == cl.dns["dns_1"] + cl.dns["dns_2"]

(* A callback that dereferences the struct is still to come. *)
Awaited(cl) ==
    \/ \E h \in Handles : cl.handle[h] = "closing"
    \/ \E h \in cl.data : cl.handle[h] = "open"
    \/ cl.connecting
    \/ InFlight(cl) > 0

(* The loop lists a handle that lies in the struct. *)
Listed(cl) == \E h \in Handles : cl.handle[h] \in {"open", "closing"}

-----------------------------------------------------------------------------
(* libuv *)

uv_is_closing(cl, h) == cl.handle[h] \in {"closing", "closed"}

uv_init(cl, h) ==
    IF cl.handle[h] \in {"none", "closed"}
    THEN [cl EXCEPT !.handle[h] = "open"]
    ELSE Fail(cl, "reinit")

uv_close(cl, h) ==
    CASE cl.mem # "live"         -> Fail(cl, "use_after_free")
      [] cl.mem = "live" /\ cl.handle[h] # "open" -> Fail(cl, "double_close")
      [] OTHER                   -> [cl EXCEPT !.handle[h] = "closing"]

(* Mutation of IsUp: uv_is_closing is not asked. *)
IsUp_stale(cl, h) == h \in cl.data

(* The guard the handlers put before a close they may not be the first to  *)
(* ask for: the data is set and the handle is not closing.                 *)
IsUp(cl, h) == h \in cl.data /\ ~uv_is_closing(cl, h)

(* Mutation of CloseIfUp: a handle that is closing is closed again. *)
CloseIfUp_blind(cl, h) == IF h \in cl.data THEN uv_close(cl, h) ELSE cl

CloseIfUp(cl, h) == IF IsUp(cl, h) THEN uv_close(cl, h) ELSE cl

-----------------------------------------------------------------------------
(* Global.c *)

ref_client(cl) == [cl EXCEPT !.ref_count = @ + 1]

(* Mutation of unref_client: the last reference but one frees the struct. *)
unref_client_early(cl) ==
    IF cl.ref_count > 2 THEN [cl EXCEPT !.ref_count = @ - 1]
    ELSE [cl EXCEPT !.ref_count = @ - 1, !.mem = "freed"]

(* Freeing while a callback for the struct is outstanding is what makes    *)
(* that callback a use after free; freeing while the loop lists a handle   *)
(* of it leaves the loop with a handle that is gone.                       *)
FreeFault(cl) ==
    CASE Awaited(cl)                -> "use_after_free"
      [] ~Awaited(cl) /\ Listed(cl) -> "stale_handle"
      [] OTHER                      -> "none"

(* free(client) once the count is zero. *)
unref_client(cl) ==
    LET dropped == [cl EXCEPT !.ref_count = @ - 1]
    IN  CASE cl.mem # "live" -> Fail(cl, "use_after_free")
          [] cl.mem = "live" /\ dropped.ref_count # 0 -> dropped
          [] OTHER -> Fail([dropped EXCEPT !.mem = "freed"], FreeFault(cl))

(* Mutations of SocketsGone: one socket is enough; the timer is left alone. *)
SocketsGone_either(cl) == ~(Sockets \subseteq cl.data) /\ "timeout_timer" \in cl.data
SocketsGone_never(cl) == Sockets \cap cl.data = Sockets /\ "timeout_timer" \in cl.data

(* Both sockets are gone and the timer has not been closed yet. *)
SocketsGone(cl) == Sockets \cap cl.data = {} /\ "timeout_timer" \in cl.data

(* Mutation of close_cb: the timer's reference is not given back. *)
close_cb_keeps(cl, h) ==
    LET closed == [cl EXCEPT !.handle[h] = "closed", !.data = @ \ {h}]
    IN  CASE h = "timeout_timer"      -> closed
          [] h # "timeout_timer" /\ SocketsGone(closed) ->
                unref_client(uv_close([closed EXCEPT !.armed = FALSE], "timeout_timer"))
          [] OTHER                    -> unref_client(closed)

(* The callback of every uv_close on a handle of the struct. *)
close_cb(cl, h) ==
    LET closed   == [cl EXCEPT !.handle[h] = "closed",
                               !.data = @ \ {h}]
        noTimer  == IF SocketsGone(closed)
                    THEN uv_close([closed EXCEPT !.armed = FALSE], "timeout_timer")
                    ELSE closed
    IN  IF h \in cl.data THEN unref_client(noTimer)
                         ELSE Fail(cl, "null_data")
=============================================================================
