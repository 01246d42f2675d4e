--------------------------- MODULE SendDNSProofs ---------------------------
(***************************************************************************)
(* Theorems about SendDNS, for every set of requests.                      *)
(***************************************************************************)
EXTENDS SendDNS, TLAPS

(* What is true of one request between two callbacks.  The two handles     *)
(* open together and start to close together, the timer runs exactly while *)
(* they are open, and an accepted query has been answered exactly when     *)
(* they are no longer open.                                                *)
Sound(req) ==
    /\ req.fault = "none"
    /\ \A h \in DnsHandles : req.mem = "unused" <=> req.handle[h] = "none"
    /\ req.mem = "freed" <=> BothClosed(req)
    /\ req.returned = 0 => req.mem = "unused"
    /\ req.returned = 1 => req.mem # "unused"
    /\ req.handle["udp_handle"] = "open" <=> req.handle["timeout_timer"] = "open"
    /\ req.armed = TRUE <=> req.handle["udp_handle"] = "open"
    /\ req.sending = TRUE => req.handle["udp_handle"] \in {"open", "closing"}
    /\ req.handle["udp_handle"] = "open" => req.returned = 1
    /\ req.calls = IF req.returned = 1 /\ req.handle["udp_handle"] # "open" THEN 1 ELSE 0

IInv ==
    /\ request \in [Requests -> RequestRec]
    /\ \A r \in Requests : Sound(request[r])

-----------------------------------------------------------------------------
(* Closing both handles of a request that has them open. *)
LEMMA CloseBothOpen ==
    ASSUME NEW req \in RequestRec,
           req.handle["udp_handle"] = "open",
           req.handle["timeout_timer"] = "open"
    PROVE  CloseBoth(req) = [req EXCEPT !.handle = Both("closing"),
                                        !.armed  = FALSE]
<1> DEFINE one == [req EXCEPT !.handle["udp_handle"] = "closing"]
<1>1. uv_close(req, "udp_handle") = one
  BY DEF uv_close, RequestRec, DnsHandles
<1>2. one \in RequestRec /\ one.handle["timeout_timer"] = "open"
  BY DEF RequestRec, DnsHandles
<1>3. uv_close(one, "timeout_timer") = [one EXCEPT !.handle["timeout_timer"] = "closing",
                                                   !.armed = FALSE]
  BY <1>2 DEF uv_close, RequestRec, DnsHandles
<1>4. [one EXCEPT !.handle["timeout_timer"] = "closing", !.armed = FALSE]
        = [req EXCEPT !.handle = Both("closing"), !.armed = FALSE]
  BY DEF RequestRec, DnsHandles, Both
<1> QED
  BY <1>1, <1>3, <1>4 DEF CloseBoth

(* A request that has just been allocated, before the call returns. *)
LEMMA UnusedFields ==
    /\ Unused \in RequestRec
    /\ Unused.mem = "unused" /\ Unused.handle = Both("none") /\ Unused.armed = FALSE
    /\ Unused.sending = FALSE /\ Unused.calls = 0 /\ Unused.fault = "none"
BY DEF Unused, RequestRec, Returns, Addresses, DnsHandles, Both

LEMMA AllocatedFields ==
    /\ Allocated \in RequestRec
    /\ Allocated.mem = "live" /\ Allocated.handle = Both("open") /\ Allocated.armed = FALSE
    /\ Allocated.sending = FALSE /\ Allocated.calls = 0 /\ Allocated.fault = "none"
<1> DEFINE old == Unused
<1>1. Both("open") \in [DnsHandles -> {"none", "open", "closing", "closed"}]
  BY DEF Both
<1>2. /\ old \in RequestRec
      /\ old.armed = FALSE /\ old.sending = FALSE /\ old.calls = 0 /\ old.fault = "none"
  BY UnusedFields
<1>3. Allocated = [old EXCEPT !.mem = "live", !.handle = Both("open")]
  BY DEF Allocated
<1> HIDE DEF old
<1> QED
  BY <1>1, <1>2, <1>3 DEF RequestRec

(* A fresh call, whatever it returns. *)
LEMMA SendSound ==
    ASSUME NEW result \in Returns
    PROVE  /\ send_dns_query(result) \in RequestRec
           /\ Sound(send_dns_query(result))
           /\ send_dns_query(result).returned = result
           /\ send_dns_query(result).calls = 0
<1> DEFINE new == Allocated
           old == Unused
<1>1. /\ new \in RequestRec
      /\ new.mem = "live" /\ new.handle = Both("open") /\ new.armed = FALSE
      /\ new.sending = FALSE /\ new.calls = 0 /\ new.fault = "none"
  BY AllocatedFields
<1>2. /\ old \in RequestRec
      /\ old.mem = "unused" /\ old.handle = Both("none") /\ old.armed = FALSE
      /\ old.sending = FALSE /\ old.calls = 0 /\ old.fault = "none"
  BY UnusedFields
<1> DEFINE accepted == [new EXCEPT !.returned = 1, !.armed = TRUE, !.sending = TRUE]
           refused  == [old EXCEPT !.returned = -1]
           failed   == CloseBoth([new EXCEPT !.returned = result])
<1>3. send_dns_query(result) = CASE result = 1  -> accepted
                                 [] result = -1 -> refused
                                 [] OTHER       -> failed
  BY Zenon DEF send_dns_query
<1> HIDE DEF accepted, refused, failed
<1>7. /\ result = 1 => send_dns_query(result) = accepted
      /\ result = -1 => send_dns_query(result) = refused
      /\ result \notin {1, -1} => send_dns_query(result) = failed
  BY <1>3
<1> HIDE DEF new, old
<1>4. CASE result = 1
  <2>1. accepted \in RequestRec
    BY <1>1 DEF accepted, RequestRec, Returns
  <2>2. /\ accepted.mem = "live" /\ accepted.handle = Both("open") /\ accepted.armed = TRUE
        /\ accepted.calls = 0 /\ accepted.fault = "none" /\ accepted.returned = 1
    BY <1>1 DEF accepted, RequestRec
  <2>3. Sound(accepted)
    BY <2>1, <2>2 DEF Sound, BothClosed, DnsHandles, Both
  <2> QED
    BY <1>4, <1>7, <2>1, <2>2, <2>3
<1>5. CASE result = -1
  <2>1. refused \in RequestRec /\ Sound(refused)
    BY <1>2 DEF refused, RequestRec, Returns, Sound, BothClosed, DnsHandles, Both
  <2>2. refused.returned = -1 /\ refused.calls = 0
    BY <1>2 DEF refused, RequestRec
  <2> QED
    BY <1>5, <1>7, <2>1, <2>2
<1>6. CASE result \notin {1, -1}
  <2> DEFINE req  == [new EXCEPT !.returned = result]
             done == [req EXCEPT !.handle = Both("closing"), !.armed = FALSE]
  <2>1. /\ req \in RequestRec
        /\ req.mem = "live" /\ req.handle = Both("open") /\ req.sending = FALSE
        /\ req.calls = 0 /\ req.fault = "none" /\ req.returned = result
    BY <1>1, <1>6 DEF RequestRec, Returns
  <2>2. send_dns_query(result) = CloseBoth(req)
    BY <1>6, <1>7 DEF failed
  <2> HIDE DEF req
  <2>3. req.handle["udp_handle"] = "open" /\ req.handle["timeout_timer"] = "open"
    BY <2>1 DEF Both, DnsHandles
  <2>4. CloseBoth(req) = done
    BY <2>1, <2>3, CloseBothOpen
  <2>5. Both("closing") \in [DnsHandles -> {"none", "open", "closing", "closed"}]
    BY DEF Both
  <2>6. done \in RequestRec
    BY <2>1, <2>5 DEF RequestRec
  <2>7. /\ done.mem = "live" /\ done.handle = Both("closing") /\ done.armed = FALSE
        /\ done.sending = FALSE /\ done.calls = 0 /\ done.fault = "none"
        /\ done.returned = result
    BY <2>1 DEF RequestRec
  <2> HIDE DEF done
  <2>8. Sound(done)
    BY <1>6, <2>6, <2>7 DEF Sound, BothClosed, DnsHandles, Both, Returns
  <2> QED
    BY <2>2, <2>4, <2>6, <2>7, <2>8
<1> QED
  BY <1>4, <1>5, <1>6

(* A request that is answered, or times out: status and address may have   *)
(* changed, the timer is stopped, the callback is called, and both handles *)
(* are closed.                                                             *)
LEMMA AnsweredSound ==
    ASSUME NEW req \in RequestRec, Sound(req), req.handle["udp_handle"] = "open",
           NEW status \in {1, -1, -2}, NEW address \in Addresses
    PROVE  LET stopped == [req EXCEPT !.armed = FALSE, !.status = status, !.address = address]
               done    == [CloseBoth(stopped) EXCEPT !.calls = @ + 1]
           IN  done \in RequestRec /\ Sound(done)
<1> DEFINE stopped == [req EXCEPT !.armed = FALSE, !.status = status, !.address = address]
           done    == [CloseBoth(stopped) EXCEPT !.calls = @ + 1]
<1>1. stopped \in RequestRec /\ stopped.handle = req.handle /\ stopped.calls = req.calls
      /\ stopped.returned = req.returned /\ stopped.fault = req.fault
      /\ stopped.mem = req.mem /\ stopped.sending = req.sending
  BY DEF RequestRec
<1>2. req.returned = 1 /\ req.calls = 0 /\ req.fault = "none" /\ req.mem = "live"
      /\ req.handle["timeout_timer"] = "open"
  BY DEF Sound, RequestRec, BothClosed, DnsHandles
<1> HIDE DEF stopped
<1>3. CloseBoth(stopped) = [stopped EXCEPT !.handle = Both("closing"),
                                           !.armed  = FALSE]
  BY <1>1, <1>2, CloseBothOpen
<1>4. done = [stopped EXCEPT !.handle = Both("closing"),
                             !.armed  = FALSE,
                             !.calls  = 1]
  <2>1. CloseBoth(stopped).calls = 0
    BY <1>1, <1>2, <1>3 DEF RequestRec
  <2>2. done = [CloseBoth(stopped) EXCEPT !.calls = 0 + 1]
    BY <2>1
  <2> QED
    BY <1>3, <2>2
<1> HIDE DEF done
<1>5. done \in RequestRec
  BY <1>1, <1>4 DEF RequestRec, DnsHandles, Both
<1>6. Sound(done)
  BY <1>1, <1>2, <1>4 DEF RequestRec, DnsHandles, Sound, BothClosed, Both
<1> QED
  BY <1>5, <1>6 DEF done, stopped

(* Closing the handles leaves what the caller sees as it is.               *)
LEMMA AnsweredSeen ==
    ASSUME NEW req \in RequestRec, Sound(req), req.handle["udp_handle"] = "open",
           NEW status \in {1, -1, -2}, NEW address \in Addresses
    PROVE  LET done == CloseBoth([req EXCEPT !.armed = FALSE, !.status = status,
                                             !.address = address])
           IN  done.calls = req.calls /\ done.returned = req.returned
<1> DEFINE stopped == [req EXCEPT !.armed = FALSE, !.status = status, !.address = address]
<1>1. stopped \in RequestRec /\ stopped.handle = req.handle /\ stopped.calls = req.calls
      /\ stopped.returned = req.returned
  BY DEF RequestRec
<1>2. req.handle["timeout_timer"] = "open"
  BY DEF Sound
<1> HIDE DEF stopped
<1>3. CloseBoth(stopped) = [stopped EXCEPT !.handle = Both("closing"), !.armed = FALSE]
  BY <1>1, <1>2, CloseBothOpen
<1>4. CloseBoth(stopped).calls = req.calls /\ CloseBoth(stopped).returned = req.returned
  BY <1>1, <1>3 DEF RequestRec
<1> QED
  BY <1>4 DEF stopped

-----------------------------------------------------------------------------
(* The new value of request keeps the invariant if the two requests a      *)
(* callback may touch do.                                                  *)
LEMMA CallBackSound ==
    ASSUME IInv, NEW r \in Requests, NEW done,
           [done EXCEPT !.calls = @ + 1] \in RequestRec,
           Sound([done EXCEPT !.calls = @ + 1]),
           CallBack(r, done)
    PROVE  IInv'
<1> DEFINE after == [request EXCEPT ![r] = [done EXCEPT !.calls = @ + 1]]
<1>1. after \in [Requests -> RequestRec] /\ \A q \in Requests : Sound(after[q])
  BY DEF IInv
<1>2. CASE request' = after
  BY <1>1, <1>2 DEF IInv
<1>3. CASE \E n \in Requests, result \in Returns :
              /\ request[n].returned = 0
              /\ request' = [after EXCEPT ![n] = send_dns_query(result)]
  BY <1>1, <1>3, SendSound DEF IInv
<1> QED
  BY <1>2, <1>3 DEF CallBack

(* The parts of the inductive step. *)
LEMMA CallStep ==
    ASSUME IInv, NEW r \in Requests, Call(r)
    PROVE  IInv'
BY SendSound DEF IInv, Call

LEMMA ReadStep ==
    ASSUME IInv, NEW r \in Requests, on_udp_read(r)
    PROVE  IInv'
<1> DEFINE req == request[r]
<1>1. req \in RequestRec /\ Sound(req) /\ req.handle["udp_handle"] = "open"
  BY DEF IInv, on_udp_read
<1> HIDE DEF req
<1>2. CASE \E address \in Addresses : CallBack(r, Answered([req EXCEPT !.address = address]))
  <2> PICK address \in Addresses : CallBack(r, Answered([req EXCEPT !.address = address]))
    BY <1>2
  <2>1. [[req EXCEPT !.address = address] EXCEPT !.armed = FALSE]
          = [req EXCEPT !.armed = FALSE, !.status = req.status, !.address = address]
    BY <1>1 DEF RequestRec
  <2>2. req.status \in {1, -1, -2}
    BY <1>1 DEF RequestRec
  <2> QED
    BY <1>1, <2>1, <2>2, AnsweredSound, CallBackSound DEF Answered
<1>3. CASE CallBack(r, Answered([req EXCEPT !.status = -2]))
  <2>1. [[req EXCEPT !.status = -2] EXCEPT !.armed = FALSE]
          = [req EXCEPT !.armed = FALSE, !.status = -2, !.address = req.address]
    BY <1>1 DEF RequestRec
  <2>2. req.address \in Addresses
    BY <1>1 DEF RequestRec
  <2> QED
    BY <1>1, <1>3, <2>1, <2>2, AnsweredSound, CallBackSound DEF Answered
<1> QED
  BY <1>2, <1>3 DEF on_udp_read, req

LEMMA TimeoutStep ==
    ASSUME IInv, NEW r \in Requests, on_dns_timeout(r)
    PROVE  IInv'
<1> DEFINE req == request[r]
<1>1. req \in RequestRec /\ Sound(req) /\ req.armed = TRUE
  BY DEF IInv, on_dns_timeout, RequestRec
<1>2. CallBack(r, CloseBoth([req EXCEPT !.armed = FALSE, !.status = -1]))
  BY DEF on_dns_timeout
<1> HIDE DEF req
<1>3. [req EXCEPT !.armed = FALSE, !.status = -1]
        = [req EXCEPT !.armed = FALSE, !.status = -1, !.address = req.address]
  BY <1>1 DEF RequestRec
<1>4. req.address \in Addresses /\ req.handle["udp_handle"] = "open"
  BY <1>1 DEF RequestRec, Sound
<1> QED
  BY <1>1, <1>2, <1>3, <1>4, AnsweredSound, CallBackSound

LEMMA SendStep ==
    ASSUME IInv, NEW r \in Requests, on_udp_send(r)
    PROVE  IInv'
<1> DEFINE req  == request[r]
           sent == [req EXCEPT !.sending = FALSE]
<1>1. req \in RequestRec /\ Sound(req)
  BY DEF IInv
<1>2. sent \in RequestRec /\ Sound(sent)
  BY <1>1 DEF RequestRec, Sound, BothClosed
<1>3. request' = [request EXCEPT ![r] = sent]
  BY DEF on_udp_send
<1> HIDE DEF sent, req
<1> QED
  BY <1>2, <1>3 DEF IInv

LEMMA CloseStep ==
    ASSUME IInv, NEW r \in Requests, NEW h \in DnsHandles, on_dns_close(r, h)
    PROVE  IInv'
<1> DEFINE req    == request[r]
           closed == [req EXCEPT !.handle[h] = "closed"]
           freed  == [closed EXCEPT !.mem = "freed"]
<1>1. req \in RequestRec /\ Sound(req) /\ req.handle[h] = "closing"
      /\ (h = "udp_handle" => req.sending = FALSE)
  BY DEF IInv, on_dns_close, RequestRec
<1>2. closed.mem = "live"
  BY <1>1 DEF Sound, RequestRec, BothClosed
<1>3. closed \in RequestRec
  BY <1>1 DEF RequestRec
<1>4. CASE BothClosed(closed)
  <2>1. freed \in RequestRec /\ Sound(freed)
    BY <1>1, <1>4 DEF RequestRec, Sound, BothClosed, DnsHandles
  <2>2. request' = [request EXCEPT ![r] = freed]
    BY <1>2, <1>4 DEF on_dns_close
  <2> QED
    BY <2>1, <2>2 DEF IInv
<1>5. CASE ~BothClosed(closed)
  <2>1. Sound(closed)
    BY <1>1, <1>2, <1>5 DEF RequestRec, Sound, BothClosed, DnsHandles
  <2>2. request' = [request EXCEPT ![r] = closed]
    BY <1>2, <1>5 DEF on_dns_close
  <2> QED
    BY <1>3, <2>1, <2>2 DEF IInv
<1> QED
  BY <1>4, <1>5

-----------------------------------------------------------------------------
(* The invariant holds of every behaviour of SendDNS.c, for any number of  *)
(* requests, in every order of answers, timeouts and close callbacks.      *)
THEOREM Invariance == Spec => []IInv
<1>1. Init => IInv
  BY DEF Init, IInv, Unused, RequestRec, Returns, Addresses, Sound, BothClosed, DnsHandles, Both
<1>2. IInv /\ [Next]_request => IInv'
  <2> SUFFICES ASSUME IInv, [Next]_request PROVE IInv'
    OBVIOUS
  <2>1. CASE UNCHANGED request
    BY <2>1 DEF IInv, Sound, BothClosed
  <2>2. ASSUME NEW r \in Requests, Call(r) PROVE IInv'
    BY <2>2, CallStep
  <2>3. ASSUME NEW r \in Requests, on_udp_read(r) PROVE IInv'
    BY <2>3, ReadStep
  <2>4. ASSUME NEW r \in Requests, on_dns_timeout(r) PROVE IInv'
    BY <2>4, TimeoutStep
  <2>5. ASSUME NEW r \in Requests, on_udp_send(r) PROVE IInv'
    BY <2>5, SendStep
  <2>6. ASSUME NEW r \in Requests, NEW h \in DnsHandles, on_dns_close(r, h) PROVE IInv'
    BY <2>6, CloseStep
  <2> QED
    BY <2>1, <2>2, <2>3, <2>4, <2>5, <2>6 DEF Next
<1> QED
  BY <1>1, <1>2, PTL DEF Spec

(* Every request keeps its type, and none is allocated without handles     *)
(* whose close callbacks will free it.                                     *)
THEOREM TypeCorrect == Spec => []TypeOK
<1>1. IInv => TypeOK
  BY DEF IInv, TypeOK, Sound
<1> QED
  BY <1>1, Invariance, PTL

(* No handle is closed twice and nothing is left to come for a struct that *)
(* is freed.                                                               *)
THEOREM AlwaysMemorySafe == Spec => []MemorySafe
<1>1. IInv => MemorySafe
  BY DEF IInv, MemorySafe, Sound, BothClosed, RequestRec, DnsHandles
<1> QED
  BY <1>1, Invariance, PTL

(* The callback of an accepted query runs exactly once before its struct   *)
(* is freed, that of a refused one never.                                  *)
THEOREM AlwaysCalledOnce == Spec => []CalledOnce
<1>1. IInv => CalledOnce
  <2> SUFFICES ASSUME IInv, NEW r \in Requests
               PROVE  /\ request[r].calls =< 1
                      /\ request[r].returned # 1 => request[r].calls = 0
                      /\ request[r].returned = 1 /\ request[r].mem = "freed"
                            => request[r].calls = 1
    BY DEF CalledOnce
  <2>1. Sound(request[r])
    BY DEF IInv
  <2>2. request[r].mem = "freed" => request[r].handle["udp_handle"] = "closed"
    BY <2>1 DEF Sound, BothClosed, DnsHandles
  <2> QED
    BY <2>1, <2>2 DEF Sound
<1> QED
  BY <1>1, Invariance, PTL

-----------------------------------------------------------------------------
(* What the caller sees: the state of DnsQuery under the mapping.          *)
Phases == [r \in Requests |-> Phase(request[r])]
Calls == [r \in Requests |-> request[r].calls]

(* A step that makes one call is a step of DnsQuery. *)
LEMMA CallSeen ==
    ASSUME IInv, NEW r \in Requests, Call(r)
    PROVE  Query!Ask(r)
<1> PICK result \in Returns : request' = [request EXCEPT ![r] = send_dns_query(result)]
  BY DEF Call
<1> DEFINE p == Phase(send_dns_query(result))
<1>1. Phase(request[r]) = "idle" /\ request[r].calls = 0
  BY DEF Call, Phase, IInv, Sound
<1>2. p \in {"asked", "refused"} /\ send_dns_query(result).calls = 0
  BY SendSound DEF Phase, Returns
<1>3. Phases' = [Phases EXCEPT ![r] = p]
  BY DEF IInv, Phases
<1>4. Calls' = Calls
  BY <1>1, <1>2 DEF IInv, Calls
<1> QED
  BY <1>1, <1>2, <1>3, <1>4 DEF Query!Ask, Phases, Calls

(* So is a step that calls back: the request was asked and unanswered, and *)
(* what on_dns asks inside the callback is a call of its own.              *)
LEMMA CallBackSeen ==
    ASSUME IInv, NEW r \in Requests, NEW done,
           request[r].handle["udp_handle"] = "open",
           done.calls = request[r].calls, done.returned = request[r].returned,
           [done EXCEPT !.calls = @ + 1] \in RequestRec,
           CallBack(r, done)
    PROVE  Query!Answer(r)
<1> DEFINE called == [done EXCEPT !.calls = @ + 1]
           after  == [request EXCEPT ![r] = called]
<1>1. request[r].returned = 1 /\ request[r].calls = 0
  BY DEF IInv, Sound
<1>2. called.calls = 1 /\ called.returned = 1
  BY <1>1
<1>3. after \in [Requests -> RequestRec]
  BY DEF IInv
<1>4. Phase(request[r]) = "asked" /\ Phase(called) = "asked"
  BY <1>1, <1>2 DEF Phase
<1> HIDE DEF called
<1>5. CASE request' = after
  <2>1. Phases' = Phases
    BY <1>4, <1>5 DEF IInv, Phases
  <2>2. Calls' = [Calls EXCEPT ![r] = 1]
    BY <1>2, <1>5 DEF IInv, Calls
  <2> QED
    BY <1>1, <1>4, <2>1, <2>2 DEF Query!Answer, Phases, Calls
<1>6. CASE \E n \in Requests, result \in Returns :
              /\ request[n].returned = 0
              /\ request' = [after EXCEPT ![n] = send_dns_query(result)]
  <2> PICK n \in Requests, result \in Returns :
              /\ request[n].returned = 0
              /\ request' = [after EXCEPT ![n] = send_dns_query(result)]
    BY <1>6
  <2> DEFINE p == Phase(send_dns_query(result))
  <2>1. n # r /\ Phase(request[n]) = "idle" /\ request[n].calls = 0
    BY <1>1 DEF Phase, IInv, Sound
  <2>2. p \in {"asked", "refused"} /\ send_dns_query(result).calls = 0
    BY SendSound DEF Phase, Returns
  <2>3. Phases' = [Phases EXCEPT ![n] = p]
    BY <1>3, <1>4, <2>1 DEF IInv, Phases
  <2>4. Calls' = [Calls EXCEPT ![r] = 1]
    BY <1>2, <1>3, <2>1, <2>2 DEF IInv, Calls
  <2> QED
    BY <1>1, <1>4, <2>1, <2>2, <2>3, <2>4 DEF Query!Answer, Phases, Calls
<1> QED
  BY <1>5, <1>6 DEF CallBack, called

LEMMA ReadSeen ==
    ASSUME IInv, NEW r \in Requests, on_udp_read(r)
    PROVE  Query!Answer(r)
<1> DEFINE req == request[r]
<1>1. req \in RequestRec /\ Sound(req) /\ req.handle["udp_handle"] = "open"
  BY DEF IInv, on_udp_read
<1> HIDE DEF req
<1>2. CASE \E address \in Addresses : CallBack(r, Answered([req EXCEPT !.address = address]))
  <2> PICK address \in Addresses : CallBack(r, Answered([req EXCEPT !.address = address]))
    BY <1>2
  <2>1. [[req EXCEPT !.address = address] EXCEPT !.armed = FALSE]
          = [req EXCEPT !.armed = FALSE, !.status = req.status, !.address = address]
    BY <1>1 DEF RequestRec
  <2>2. req.status \in {1, -1, -2}
    BY <1>1 DEF RequestRec
  <2> DEFINE done == Answered([req EXCEPT !.address = address])
  <2> DEFINE closed == CloseBoth(
                 [req EXCEPT !.armed = FALSE, !.status = req.status, !.address = address])
  <2>3. /\ [closed EXCEPT !.calls = @ + 1] \in RequestRec
        /\ closed.calls = req.calls /\ closed.returned = req.returned
    <3>1. [closed EXCEPT !.calls = @ + 1] \in RequestRec
      BY <1>1, <2>2, AnsweredSound
    <3>2. closed.calls = req.calls /\ closed.returned = req.returned
      BY <1>1, <2>2, AnsweredSeen
    <3> QED
      BY <3>1, <3>2
  <2>4. done = closed
    BY <2>1 DEF Answered
  <2> HIDE DEF done, closed
  <2>5. CallBack(r, done)
    BY DEF done
  <2> QED
    BY <1>1, <2>3, <2>4, <2>5, CallBackSeen DEF req
<1>3. CASE CallBack(r, Answered([req EXCEPT !.status = -2]))
  <2>1. [[req EXCEPT !.status = -2] EXCEPT !.armed = FALSE]
          = [req EXCEPT !.armed = FALSE, !.status = -2, !.address = req.address]
    BY <1>1 DEF RequestRec
  <2>2. req.address \in Addresses
    BY <1>1 DEF RequestRec
  <2> DEFINE done == Answered([req EXCEPT !.status = -2])
  <2> DEFINE closed == CloseBoth(
                 [req EXCEPT !.armed = FALSE, !.status = -2, !.address = req.address])
  <2>3. /\ [closed EXCEPT !.calls = @ + 1] \in RequestRec
        /\ closed.calls = req.calls /\ closed.returned = req.returned
    <3>1. [closed EXCEPT !.calls = @ + 1] \in RequestRec
      BY <1>1, <2>2, AnsweredSound
    <3>2. closed.calls = req.calls /\ closed.returned = req.returned
      BY <1>1, <2>2, AnsweredSeen
    <3> QED
      BY <3>1, <3>2
  <2>4. done = closed
    BY <2>1 DEF Answered
  <2> HIDE DEF done, closed
  <2>5. CallBack(r, done)
    BY <1>3 DEF done
  <2> QED
    BY <1>1, <2>3, <2>4, <2>5, CallBackSeen DEF req
<1> QED
  BY <1>2, <1>3 DEF on_udp_read, req

LEMMA TimeoutSeen ==
    ASSUME IInv, NEW r \in Requests, on_dns_timeout(r)
    PROVE  Query!Answer(r)
<1> DEFINE req  == request[r]
           done == CloseBoth([req EXCEPT !.armed = FALSE, !.status = -1])
<1>1. req \in RequestRec /\ Sound(req) /\ req.armed = TRUE
  BY DEF IInv, on_dns_timeout, RequestRec
<1>2. CallBack(r, done)
  BY DEF on_dns_timeout
<1> HIDE DEF req
<1>3. [req EXCEPT !.armed = FALSE, !.status = -1]
        = [req EXCEPT !.armed = FALSE, !.status = -1, !.address = req.address]
  BY <1>1 DEF RequestRec
<1>4. req.address \in Addresses /\ req.handle["udp_handle"] = "open"
  BY <1>1 DEF RequestRec, Sound
<1> DEFINE closed == CloseBoth(
               [req EXCEPT !.armed = FALSE, !.status = -1, !.address = req.address])
<1>5. [closed EXCEPT !.calls = @ + 1] \in RequestRec
  BY <1>1, <1>4, AnsweredSound
<1>6. closed.calls = req.calls /\ closed.returned = req.returned
  BY <1>1, <1>4, AnsweredSeen
<1>7. done = closed
  BY <1>3
<1> HIDE DEF done, closed
<1> QED
  BY <1>2, <1>4, <1>5, <1>6, <1>7, CallBackSeen DEF req

(* What the loop does for a request besides is not seen.                   *)
LEMMA LoopUnseen ==
    ASSUME IInv, NEW r \in Requests,
           on_udp_send(r) \/ \E h \in DnsHandles : on_dns_close(r, h)
    PROVE  UNCHANGED <<Phases, Calls>>
<1> DEFINE req == request[r]
<1>1. req \in RequestRec
  BY DEF IInv
<1>2. CASE on_udp_send(r)
  <2> DEFINE sent == [req EXCEPT !.sending = FALSE]
  <2>1. request' = [request EXCEPT ![r] = sent]
    BY <1>2 DEF on_udp_send
  <2>2. sent.calls = req.calls /\ sent.returned = req.returned
    BY <1>1 DEF RequestRec
  <2> HIDE DEF sent
  <2> QED
    BY <2>1, <2>2 DEF IInv, Phases, Calls, Phase
<1>3. ASSUME NEW h \in DnsHandles, on_dns_close(r, h)
      PROVE  UNCHANGED <<Phases, Calls>>
  <2> DEFINE closed == [req EXCEPT !.handle[h] = "closed"]
             failed == [closed EXCEPT !.fault = "use_after_free"]
             freed  == [closed EXCEPT !.mem = "freed"]
  <2>1. closed \in RequestRec /\ closed.calls = req.calls /\ closed.returned = req.returned
    BY <1>1 DEF RequestRec
  <2>2. request' = [request EXCEPT ![r] =
              CASE closed.mem # "live" -> failed
                [] closed.mem = "live" /\ BothClosed(closed) -> freed
                [] OTHER -> closed]
    BY <1>3 DEF on_dns_close
  <2> HIDE DEF closed
  <2>3. \E new \in {failed, freed, closed} : request' = [request EXCEPT ![r] = new]
    BY <2>2
  <2>4. /\ failed.calls = req.calls /\ failed.returned = req.returned
        /\ freed.calls = req.calls /\ freed.returned = req.returned
    BY <2>1 DEF RequestRec
  <2> HIDE DEF failed, freed
  <2>5. PICK new \in {failed, freed, closed} : request' = [request EXCEPT ![r] = new]
    BY <2>3
  <2>6. new.calls = req.calls /\ new.returned = req.returned
    BY <2>1, <2>4
  <2> QED
    BY <2>5, <2>6 DEF IInv, Phases, Calls, Phase
<1> QED
  BY <1>2, <1>3

(* SendDNS implements DnsQuery: whatever the order of datagrams, timers    *)
(* and close callbacks, an accepted query is answered once at most and a   *)
(* refused one never.                                                      *)
THEOREM PromiseKept == Spec => KeepsPromise
<1>1. Init => Query!Init
  BY DEF Init, Query!Init, Unused, Phase
<1>2. IInv /\ [Next]_request => [Query!Next]_(Query!vars)
  <2> SUFFICES ASSUME IInv, [Next]_request
               PROVE  Query!Next \/ UNCHANGED <<Phases, Calls>>
    BY DEF Query!vars, Phases, Calls
  <2>1. CASE UNCHANGED request
    BY <2>1 DEF Phases, Calls, Phase
  <2>2. ASSUME NEW r \in Requests, Call(r) PROVE Query!Next
    BY <2>2, CallSeen DEF Query!Next
  <2>3. ASSUME NEW r \in Requests, on_udp_read(r) PROVE Query!Next
    BY <2>3, ReadSeen DEF Query!Next
  <2>4. ASSUME NEW r \in Requests, on_dns_timeout(r) PROVE Query!Next
    BY <2>4, TimeoutSeen DEF Query!Next
  <2>5. ASSUME NEW r \in Requests,
               on_udp_send(r) \/ \E h \in DnsHandles : on_dns_close(r, h)
        PROVE  UNCHANGED <<Phases, Calls>>
    BY <2>5, LoopUnseen
  <2> QED
    BY <2>1, <2>2, <2>3, <2>4, <2>5 DEF Next
<1> QED
  BY <1>1, <1>2, Invariance, PTL DEF Spec, KeepsPromise, Query!Spec
-----------------------------------------------------------------------------
(* What a caller sees of a step.  A request is made: it returns, and is    *)
(* not called back yet.                                                    *)
Makes(n) ==
    /\ request[n].returned = 0
    /\ request'[n].returned \in Returns
    /\ request'[n].calls = 0
    /\ request'[n].status = 1

(* The callback of r is called with this status, and inside it at most one *)
(* request is made.                                                        *)
Reports(r, status) ==
    /\ request[r].returned = 1 /\ request[r].calls = 0
    /\ request'[r].returned = 1 /\ request'[r].calls = 1
    /\ request'[r].status = status
    /\ \E n \in Requests : \A q \in Requests \ {r} :
          \/ request'[q] = request[q]
          \/ q = n /\ Makes(q)

LEMMA SendStatus ==
    ASSUME NEW result \in Returns
    PROVE  send_dns_query(result).status = 1
<1>1. Allocated.status = 1 /\ Unused.status = 1
  <2>1. Unused.status = 1
    BY DEF Unused
  <2> QED
    BY <2>1, UnusedFields DEF Allocated, RequestRec
<1>2. ASSUME NEW req \in RequestRec, req.handle = Both("open"), req.status = 1
      PROVE  CloseBoth(req).status = 1
  BY <1>2, CloseBothOpen DEF Both, DnsHandles, RequestRec
<1> DEFINE failed == [Allocated EXCEPT !.returned = result]
<1>3. failed \in RequestRec /\ failed.handle = Both("open") /\ failed.status = 1
  BY <1>1, AllocatedFields DEF RequestRec
<1>4. CloseBoth(failed).status = 1
  BY <1>2, <1>3
<1>5. [Unused EXCEPT !.returned = -1].status = 1
  BY <1>1, UnusedFields DEF RequestRec
<1>6. [Allocated EXCEPT !.returned = 1, !.armed = TRUE, !.sending = TRUE].status = 1
  BY <1>1, AllocatedFields DEF RequestRec
<1> QED
  BY <1>4, <1>5, <1>6 DEF send_dns_query

LEMMA AnsweredStatus ==
    ASSUME NEW req \in RequestRec, Sound(req), req.handle["udp_handle"] = "open",
           NEW status \in {1, -1, -2}, NEW address \in Addresses
    PROVE  LET done   == CloseBoth([req EXCEPT !.armed = FALSE, !.status = status,
                                               !.address = address])
               called == [done EXCEPT !.calls = @ + 1]
           IN  /\ called \in RequestRec /\ called.calls = 1 /\ called.status = status
               /\ called.returned = 1
<1> DEFINE stopped == [req EXCEPT !.armed = FALSE, !.status = status, !.address = address]
           done    == CloseBoth(stopped)
           called  == [done EXCEPT !.calls = @ + 1]
<1>1. called \in RequestRec
  BY AnsweredSound
<1>2. stopped \in RequestRec /\ stopped.handle = req.handle /\ stopped.status = status
      /\ stopped.calls = 0 /\ stopped.returned = 1
  BY DEF RequestRec, Sound
<1>3. req.handle["timeout_timer"] = "open"
  BY DEF Sound
<1> HIDE DEF stopped
<1>4. done = [stopped EXCEPT !.handle = Both("closing"), !.armed = FALSE]
  BY <1>2, <1>3, CloseBothOpen
<1> HIDE DEF done
<1>5. done \in RequestRec /\ done.status = status /\ done.calls = 0 /\ done.returned = 1
  BY <1>2, <1>4 DEF RequestRec, Both, DnsHandles
<1>6. called.calls = 1 /\ called.status = status /\ called.returned = 1
  BY <1>5 DEF RequestRec
<1> QED
  BY <1>1, <1>6 DEF done, stopped

LEMMA CallBackReports ==
    ASSUME IInv, NEW r \in Requests, NEW done, NEW status,
           request[r].handle["udp_handle"] = "open",
           [done EXCEPT !.calls = @ + 1].calls = 1,
           [done EXCEPT !.calls = @ + 1].status = status,
           [done EXCEPT !.calls = @ + 1].returned = 1,
           CallBack(r, done)
    PROVE  Reports(r, status)
<1> DEFINE called == [done EXCEPT !.calls = @ + 1]
           after  == [request EXCEPT ![r] = called]
<1>1. called.calls = 1 /\ called.status = status /\ called.returned = 1
  OBVIOUS
<1>2. request[r].returned = 1 /\ request[r].calls = 0 /\ request \in [Requests -> RequestRec]
  BY DEF IInv, Sound
<1>3. CASE request' = after
  <2> HIDE DEF called
  <2>1. request'[r] = called /\ \A q \in Requests \ {r} : request'[q] = request[q]
    BY <1>2, <1>3
  <2> QED
    BY <1>1, <1>2, <2>1 DEF Reports
<1>4. ASSUME NEW n \in Requests, NEW result \in Returns, request[n].returned = 0,
             request' = [after EXCEPT ![n] = send_dns_query(result)]
      PROVE  Reports(r, status)
  <2> HIDE DEF called
  <2>1. n # r
    BY <1>2, <1>4
  <2>2. /\ request'[r] = called
        /\ request'[n] = send_dns_query(result)
        /\ \A q \in Requests \ {r, n} : request'[q] = request[q]
    BY <1>2, <1>4, <2>1
  <2>3. Makes(n)
    BY <1>4, <2>2, SendSound, SendStatus DEF Makes
  <2> QED
    BY <1>1, <1>2, <2>2, <2>3 DEF Reports
<1> QED
  BY <1>3, <1>4 DEF CallBack

LEMMA AnswerReports ==
    ASSUME IInv, NEW r \in Requests, request[r].handle["udp_handle"] = "open",
           NEW status \in {1, -1, -2}, NEW address \in Addresses,
           CallBack(r, CloseBoth([request[r] EXCEPT !.armed = FALSE, !.status = status,
                                                    !.address = address]))
    PROVE  Reports(r, status)
<1> DEFINE req  == request[r]
           done == CloseBoth([req EXCEPT !.armed = FALSE, !.status = status,
                                         !.address = address])
           called == [done EXCEPT !.calls = @ + 1]
<1>1. req \in RequestRec /\ Sound(req) /\ req.handle["udp_handle"] = "open"
  BY DEF IInv
<1>2. CallBack(r, done)
  OBVIOUS
<1>3. /\ called \in RequestRec /\ called.calls = 1 /\ called.status = status
      /\ called.returned = 1
  <2> HIDE DEF req
  <2> QED
    BY <1>1, AnsweredStatus, ZenonT(60)
<1> HIDE DEF done
<1> QED
  BY <1>1, <1>2, <1>3, CallBackReports

(* An answer is no timeout, if there was none before. *)
LEMMA ReadReports ==
    ASSUME IInv, NEW r \in Requests, on_udp_read(r)
    PROVE  \E status \in {request[r].status, -2} : Reports(r, status)
<1> DEFINE req == request[r]
<1>1. req \in RequestRec /\ Sound(req) /\ req.handle["udp_handle"] = "open"
  BY DEF IInv, on_udp_read
<1>2. req.status \in {1, -1, -2} /\ req.address \in Addresses
  BY <1>1 DEF RequestRec, Sound
<1> HIDE DEF req
<1>3. ASSUME NEW address \in Addresses, NEW status \in {1, -1, -2},
             CallBack(r, CloseBoth([req EXCEPT !.armed = FALSE, !.status = status,
                                               !.address = address]))
      PROVE  Reports(r, status)
  BY <1>1, <1>3, AnswerReports DEF req
<1>4. CASE \E address \in Addresses : CallBack(r, Answered([req EXCEPT !.address = address]))
  <2> PICK address \in Addresses : CallBack(r, Answered([req EXCEPT !.address = address]))
    BY <1>4
  <2>1. [[req EXCEPT !.address = address] EXCEPT !.armed = FALSE]
          = [req EXCEPT !.armed = FALSE, !.status = req.status, !.address = address]
    BY <1>1 DEF RequestRec
  <2>2. CallBack(r, CloseBoth([req EXCEPT !.armed = FALSE, !.status = req.status,
                                          !.address = address]))
    BY <2>1 DEF Answered
  <2>3. Reports(r, req.status)
    BY <1>2, <1>3, <2>2
  <2> QED
    BY <2>3 DEF req
<1>5. CASE CallBack(r, Answered([req EXCEPT !.status = -2]))
  <2>1. [[req EXCEPT !.status = -2] EXCEPT !.armed = FALSE]
          = [req EXCEPT !.armed = FALSE, !.status = -2, !.address = req.address]
    BY <1>1 DEF RequestRec
  <2> QED
    BY <1>2, <1>3, <1>5, <2>1 DEF Answered
<1> QED
  BY <1>4, <1>5 DEF on_udp_read, req

LEMMA TimeoutReports ==
    ASSUME IInv, NEW r \in Requests, on_dns_timeout(r)
    PROVE  Reports(r, -1)
<1> DEFINE req == request[r]
<1>1. req \in RequestRec /\ Sound(req) /\ req.armed = TRUE
  BY DEF IInv, on_dns_timeout, RequestRec
<1>2. CallBack(r, CloseBoth([req EXCEPT !.armed = FALSE, !.status = -1]))
  BY DEF on_dns_timeout
<1> HIDE DEF req
<1>3. [req EXCEPT !.armed = FALSE, !.status = -1]
        = [req EXCEPT !.armed = FALSE, !.status = -1, !.address = req.address]
  BY <1>1 DEF RequestRec
<1>4. req.address \in Addresses
  BY <1>1 DEF RequestRec
<1>5. req \in RequestRec /\ Sound(req) /\ req.handle["udp_handle"] = "open"
  BY <1>1 DEF Sound
<1> QED
  BY <1>2, <1>3, <1>4, <1>5, AnswerReports DEF req

(* The callbacks of the loop report nothing and make no request. *)
LEMMA LoopReportsNot ==
    ASSUME IInv, NEW r \in Requests,
           on_udp_send(r) \/ \E h \in DnsHandles : on_dns_close(r, h)
    PROVE  \A q \in Requests : /\ request'[q].calls = request[q].calls
                               /\ request'[q].status = request[q].status
                               /\ request'[q].returned = request[q].returned
<1>1. request[r] \in RequestRec /\ request \in [Requests -> RequestRec]
  BY DEF IInv
<1>2. CASE on_udp_send(r)
  BY <1>1, <1>2 DEF on_udp_send, RequestRec
<1>3. ASSUME NEW h \in DnsHandles, on_dns_close(r, h)
      PROVE  \A q \in Requests : /\ request'[q].calls = request[q].calls
                                 /\ request'[q].status = request[q].status
                                 /\ request'[q].returned = request[q].returned
  <2> DEFINE closed == [request[r] EXCEPT !.handle[h] = "closed"]
  <2>1. PICK new \in {closed, [closed EXCEPT !.fault = "use_after_free"], [closed EXCEPT !.mem = "freed"]} :
            request' = [request EXCEPT ![r] = new]
    BY <1>3 DEF on_dns_close
  <2>2. /\ closed \in RequestRec /\ closed.calls = request[r].calls
        /\ closed.status = request[r].status /\ closed.returned = request[r].returned
    BY <1>1 DEF RequestRec
  <2> HIDE DEF closed
  <2>3. /\ new.calls = request[r].calls /\ new.status = request[r].status
        /\ new.returned = request[r].returned
    BY <2>1, <2>2 DEF RequestRec
  <2> QED
    BY <1>1, <2>1, <2>3
<1> QED
  BY <1>2, <1>3
=============================================================================
