-------------------------- MODULE DnsNetworkProofs --------------------------
(***************************************************************************)
(* What keeps the answers of concurrent requests apart, for every set of   *)
(* requests and ports and every loss, doubling, delay and reordering of    *)
(* datagrams: the port, which no two sockets have at the same time.        *)
(***************************************************************************)
EXTENDS DnsNetwork, SendDNSProofs

(* A request that is made by this step is the only one whose socket is     *)
(* bound by it.                                                            *)
BindsOnly(n) ==
    /\ Asked \subseteq {n}
    /\ \A q \in Requests : Bound(q)' => Bound(q) \/ q \in Asked

(* A request that was made stays made. *)
Lasting == \A q \in Requests : request[q].returned = 1 => request'[q].returned = 1

(* Sockets that are bound have ports of their own, and a datagram goes to  *)
(* or from the port of the request it names, whether or not its socket     *)
(* still has it.                                                           *)
OwnPort ==
    /\ port \in [Requests -> Ports \cup {Nothing}]
    /\ \A r, q \in Requests : Bound(r) /\ Bound(q) /\ port[r] = port[q] => r = q
    /\ \A d \in wire :
          \/ /\ d.name \in Requests
             /\ request[d.name].returned = 1
             /\ port[d.name] = d.port
          \/ d.name = Garbage /\ d.to = "server"

(* What NotStolen needs to know of a state. *)
NetInv ==
    /\ IInv
    /\ OwnPort
    /\ heard \in [Requests -> Requests \cup {Nothing, Garbage, Stranger}]

-----------------------------------------------------------------------------
(* The callbacks that make a request. *)
LEMMA CallBinds ==
    ASSUME IInv, NEW r \in Requests, Call(r)
    PROVE  BindsOnly(r)
<1>1. PICK result \in Returns : request' = [request EXCEPT ![r] = send_dns_query(result)]
  BY DEF Call
<1>2. \A q \in Requests \ {r} : request'[q] = request[q]
  BY <1>1 DEF IInv
<1>3. request[r].returned = 0
  BY DEF Call
<1> QED
  BY <1>2, <1>3 DEF BindsOnly, Asked, Bound

LEMMA CallBackBinds ==
    ASSUME IInv, NEW r \in Requests, NEW done, Bound(r), CallBack(r, done)
    PROVE  \E n \in Requests : BindsOnly(n)
<1> DEFINE after == [request EXCEPT ![r] = [done EXCEPT !.calls = @ + 1]]
<1>1. request[r].returned = 1 /\ request \in [Requests -> RequestRec]
  BY DEF Bound, IInv
<1>2. CASE request' = after
  <2>1. \A q \in Requests \ {r} : request'[q] = request[q]
    BY <1>1, <1>2
  <2>2. BindsOnly(r)
    BY <1>1, <2>1 DEF BindsOnly, Asked, Bound
  <2> QED
    BY <2>2
<1>3. ASSUME NEW n \in Requests, NEW result \in Returns, request[n].returned = 0,
             request' = [after EXCEPT ![n] = send_dns_query(result)]
      PROVE  BindsOnly(n)
  <2>1. \A q \in Requests \ {r, n} : request'[q] = request[q]
    BY <1>1, <1>3
  <2> QED
    BY <1>1, <1>3, <2>1 DEF BindsOnly, Asked, Bound
<1> QED
  BY <1>2, <1>3 DEF CallBack

LEMMA ReadBinds ==
    ASSUME IInv, NEW r \in Requests, on_udp_read(r)
    PROVE  \E n \in Requests : BindsOnly(n)
<1>1. Bound(r)
  BY DEF IInv, Sound, on_udp_read, Bound
<1> QED
  BY <1>1, CallBackBinds DEF on_udp_read

LEMMA TimeoutBinds ==
    ASSUME IInv, NEW r \in Requests, on_dns_timeout(r)
    PROVE  \E n \in Requests : BindsOnly(n)
<1>1. Bound(r)
  BY DEF IInv, Sound, on_dns_timeout, Bound, RequestRec
<1> QED
  BY <1>1, CallBackBinds DEF on_dns_timeout

(* A callback answers one request and makes another at most. *)
LEMMA ReportsLast ==
    ASSUME NEW r \in Requests, NEW status, Reports(r, status)
    PROVE  Lasting
BY DEF Reports, Makes, Lasting

LEMMA CallLasts ==
    ASSUME IInv, NEW r \in Requests, Call(r)
    PROVE  Lasting
<1>1. PICK result \in Returns : request' = [request EXCEPT ![r] = send_dns_query(result)]
  BY DEF Call
<1>2. request[r].returned = 0 /\ \A q \in Requests \ {r} : request'[q] = request[q]
  BY <1>1 DEF Call, IInv
<1> QED
  BY <1>2 DEF Lasting

(* The callbacks that make none bind no socket. *)
LEMMA LoopBinds ==
    ASSUME IInv, NEW r \in Requests,
           on_udp_send(r) \/ \E h \in DnsHandles : on_dns_close(r, h)
    PROVE  Lasting /\ \A q \in Requests : Bound(q)' => Bound(q)
<1>1. request[r] \in RequestRec /\ request \in [Requests -> RequestRec]
  BY DEF IInv
<1>2. CASE on_udp_send(r)
  BY <1>1, <1>2 DEF on_udp_send, Bound, RequestRec, Lasting
<1>3. ASSUME NEW h \in DnsHandles, on_dns_close(r, h)
      PROVE  Lasting /\ \A q \in Requests : Bound(q)' => Bound(q)
  <2> DEFINE closed == [request[r] EXCEPT !.handle[h] = "closed"]
  <2>1. PICK new \in {closed, [closed EXCEPT !.fault = "use_after_free"], [closed EXCEPT !.mem = "freed"]} :
            request' = [request EXCEPT ![r] = new]
    BY <1>3 DEF on_dns_close
  <2>2. closed \in RequestRec
    BY <1>1 DEF RequestRec
  <2>3. closed.handle = [request[r].handle EXCEPT ![h] = "closed"] /\ closed.returned = request[r].returned
    BY <1>1 DEF RequestRec
  <2> HIDE DEF closed
  <2>4. new.handle = closed.handle /\ new.returned = closed.returned
    BY <2>1, <2>2 DEF RequestRec
  <2>5. request'[r] = new /\ \A q \in Requests \ {r} : request'[q] = request[q]
    BY <1>1, <2>1
  <2>6. Bound(r)' => Bound(r)
    BY <1>1, <2>3, <2>4, <2>5 DEF Bound, RequestRec, DnsHandles
  <2>7. Lasting
    BY <2>3, <2>4, <2>5 DEF Lasting
  <2> QED
    BY <2>5, <2>6, <2>7 DEF Bound
<1> QED
  BY <1>2, <1>3

-----------------------------------------------------------------------------
(* A request that is bound keeps its port to itself when another is given  *)
(* one, and the datagrams under way still name whom they named.            *)
LEMMA SendOwns ==
    ASSUME OwnPort, NEW n \in Requests, BindsOnly(n), Lasting, Send
    PROVE  OwnPort'
<1>1. CASE Asked = {}
  BY <1>1 DEF Send, OwnPort, BindsOnly, Lasting
<1>2. CASE Asked # {}
  <2>1. PICK p \in FreePorts :
            /\ port' = [port EXCEPT ![n] = p]
            /\ wire' \in {wire, wire \cup {ToServer(n, p)}}
    BY <1>2 DEF Send, BindsOnly
  <2>2. p \in Ports /\ \A q \in Requests : Bound(q) => port[q] # p
    BY <2>1 DEF FreePorts
  <2>3. \A q \in Requests \ {n} : port'[q] = port[q] /\ (Bound(q)' => Bound(q))
    BY <2>1 DEF OwnPort, BindsOnly
  <2>4. port'[n] = p /\ port' \in [Requests -> Ports \cup {Nothing}]
    BY <2>1, <2>2 DEF OwnPort
  <2>5. \A r, q \in Requests : Bound(r)' /\ Bound(q)' /\ port'[r] = port'[q] => r = q
    BY <2>2, <2>3, <2>4 DEF OwnPort
  <2>6. request[n].returned # 1 /\ request'[n].returned = 1
    BY <1>2 DEF BindsOnly, Asked
  <2>7. ASSUME NEW d \in wire
        PROVE  \/ /\ d.name \in Requests
                  /\ request'[d.name].returned = 1
                  /\ port'[d.name] = d.port
               \/ d.name = Garbage /\ d.to = "server"
    <3>1. CASE d.name = Garbage /\ d.to = "server"
      BY <3>1
    <3>2. CASE /\ d.name \in Requests
               /\ request[d.name].returned = 1
               /\ port[d.name] = d.port
      <4>1. d.name # n
        BY <3>2, <2>6
      <4> QED
        BY <3>2, <4>1, <2>3 DEF Lasting
    <3> QED
      BY <3>1, <3>2 DEF OwnPort
  <2>8. \A d \in wire' : d \in wire \/ (d.port = p /\ d.name = n)
    BY <2>1 DEF ToServer
  <2> QED
    BY <2>4, <2>5, <2>6, <2>7, <2>8 DEF OwnPort
<1> QED
  BY <1>1, <1>2

(* What comes to the port of a request names one that has or had this      *)
(* port, or comes from a stranger.                                         *)
LEMMA ArrivalsNamed ==
    ASSUME NetInv, NEW r \in Requests, NEW name \in Arrivals(r)
    PROVE  /\ name \in Requests \cup {Stranger}
           /\ name \in Requests => port[name] = port[r]
<1>1. CASE name = Stranger
  BY <1>1, MarksAssumption
<1>2. ASSUME NEW d \in wire, d.to = "client", d.port = port[r], name = d.name
      PROVE  name \in Requests /\ port[name] = port[r]
  BY <1>2 DEF NetInv, OwnPort
<1> QED
  BY <1>1, <1>2 DEF Arrivals

(* One step per action of the network. *)
LEMMA NetStep == NetInv /\ [NetNext]_netVars => NetInv'
<1> SUFFICES ASSUME NetInv, [NetNext]_netVars PROVE NetInv'
  OBVIOUS
<1> USE DEF NetInv
<1>1. CASE UNCHANGED netVars
  BY <1>1 DEF netVars, OwnPort, Bound, IInv
<1>2. CASE ServerAnswers
  <2>1. PICK d \in wire : d.name # Garbage /\ wire' = wire \cup {ToClient(d.name, d.port)}
    BY <1>2 DEF ServerAnswers
  <2>2. UNCHANGED <<request, port, queued, heard>>
    BY <1>2 DEF ServerAnswers
  <2>3. \A e \in wire' : e \in wire \/ (e.port = d.port /\ e.name = d.name)
    BY <2>1 DEF ToClient
  <2>4. OwnPort'
    BY <2>1, <2>2, <2>3 DEF OwnPort, Bound
  <2> QED
    BY <2>2, <2>4 DEF IInv
<1>3. ASSUME NEW r \in Requests, NetCall(r) PROVE NetInv'
  BY <1>3, CallStep, CallBinds, CallLasts, SendOwns DEF NetCall
<1>4. ASSUME NEW r \in Requests, Flush(r) PROVE NetInv'
  <2>1. PICK name \in {r, Garbage} : wire' = wire \cup {ToServer(name, port[r])}
    BY <1>4 DEF Flush
  <2>2. Bound(r) /\ UNCHANGED <<request, port, heard>>
    BY <1>4 DEF Flush
  <2>3. \A e \in wire' : e \in wire \/ (e.port = port[r] /\ e.name = name /\ e.to = "server")
    BY <2>1 DEF ToServer
  <2>4. OwnPort'
    BY <2>1, <2>2, <2>3 DEF OwnPort, Bound
  <2> QED
    BY <2>2, <2>4 DEF IInv
<1>5. ASSUME NEW r \in Requests,
             on_udp_send(r) \/ \E h \in DnsHandles : on_dns_close(r, h),
             UNCHANGED <<port, wire, heard>>
      PROVE  NetInv'
  <2>1. IInv'
    BY <1>5, SendStep, CloseStep
  <2>2. OwnPort'
    BY <1>5, LoopBinds DEF OwnPort, Lasting
  <2> QED
    BY <1>5, <2>1, <2>2
<1>6. ASSUME NEW r \in Requests, Receive(r) PROVE NetInv'
  <2>3. PICK name \in Arrivals(r) : heard' = [heard EXCEPT ![r] = name]
    BY <1>6 DEF Receive
  <2>4. heard' \in [Requests -> Requests \cup {Nothing, Garbage, Stranger}]
    BY <2>3, ArrivalsNamed
  <2>1. PICK status \in {request[r].status, -2} : Reports(r, status)
    BY <1>6, ReadReports DEF Receive
  <2>2. Lasting
    BY <2>1, ReportsLast
  <2> QED
    BY <1>6, <2>2, <2>4, ReadStep, ReadBinds, SendOwns DEF Receive
<1>7. ASSUME NEW r \in Requests, TimesOut(r) PROVE NetInv'
  <2>1. on_dns_timeout(r) /\ Send /\ UNCHANGED heard
    BY <1>7 DEF TimesOut
  <2>2. Lasting
    BY <2>1, TimeoutReports, ReportsLast
  <2> QED
    BY <2>1, <2>2, TimeoutStep, TimeoutBinds, SendOwns
<1> QED
  BY <1>1, <1>2, <1>3, <1>4, <1>5, <1>6, <1>7 DEF NetNext, Sent, Closed

LEMMA InitNet == NetInit => NetInv
<1> SUFFICES ASSUME NetInit PROVE NetInv
  OBVIOUS
<1>1. IInv
  BY DEF NetInit, Init, IInv, Unused, RequestRec, Returns, Addresses, Sound, BothClosed,
         DnsHandles, Both
<1>2. \A r \in Requests : ~Bound(r)
  <2>1. Unused.returned # 1
    BY DEF Unused
  <2>2. \A r \in Requests : request[r] = Unused
    BY DEF NetInit, Init
  <2> QED
    BY <2>1, <2>2 DEF Bound
<1> QED
  BY <1>1, <1>2 DEF NetInit, NetInv, OwnPort

-----------------------------------------------------------------------------
(* The network adds nothing to what a request does: all that is proved of  *)
(* SendDNS holds with it.                                                  *)
THEOREM NetImplementsSendDNS == NetSpec => Spec
<1>1. NetInit => Init
  BY DEF NetInit
<1>2. [NetNext]_netVars => [Next]_request
  BY DEF NetNext, netVars, ServerAnswers, NetCall, Flush, Sent, Receive, TimesOut, Closed, Next
<1> QED
  BY <1>1, <1>2, PTL DEF NetSpec, Spec

(* No answer is taken from a request that still waits for it, although     *)
(* on_udp_read compares neither sender nor id nor question, and although   *)
(* a port that was closed is given out again while answers are on their    *)
(* way to it.                                                              *)
THEOREM NeverStolen == NetSpec => NotStolen
<1>1. NetInit => NetInv
  BY InitNet
<1>2. ASSUME NetInv, [NetNext]_netVars, NEW r \in Requests, NEW q \in Requests,
             q # r, heard[r] # q, heard'[r] = q
      PROVE  ~Bound(q)
  <2>1. PICK s \in Requests : Receive(s)
    BY <1>2 DEF NetNext, netVars, ServerAnswers, NetCall, Flush, Sent, TimesOut, Closed
  <2>2. PICK name \in Arrivals(s) : heard' = [heard EXCEPT ![s] = name]
    BY <2>1 DEF Receive
  <2>3. s = r /\ name = q
    BY <1>2, <2>2 DEF NetInv
  <2>4. Bound(r) /\ port[q] = port[r]
    BY <1>2, <2>1, <2>3, ArrivalsNamed DEF Receive
  <2> QED
    BY <1>2, <2>4 DEF NetInv, OwnPort
<1>3. NetInv /\ [NetNext]_netVars =>
        [\A r, q \in Requests : q # r /\ heard[r] # q /\ heard'[r] = q => ~Bound(q)]_netVars
  BY <1>2
<1> QED
  BY <1>1, <1>3, NetStep, PTL DEF NetSpec, NotStolen

-----------------------------------------------------------------------------
(* HeardOrTimedOut, made inductive: nothing is heard for a request before  *)
(* its callback is called, and no status but that of the timer is -1.      *)
HeardInv ==
    /\ NetInv
    /\ \A r \in Requests :
          /\ request[r].calls = 0 => heard[r] = Nothing /\ request[r].status # -1
          /\ request[r].calls = 1 => (heard[r] = Nothing <=> request[r].status = -1)

(* One step per action, for what was heard. *)
LEMMA HeardStep == HeardInv /\ [NetNext]_netVars => HeardInv'
<1> SUFFICES ASSUME HeardInv, [NetNext]_netVars PROVE HeardInv'
  OBVIOUS
<1>0. NetInv'
  BY NetStep DEF HeardInv
<1> USE DEF HeardInv, NetInv
<1>a. ASSUME NEW r \in Requests, NEW status, Reports(r, status)
      PROVE  \A q \in Requests \ {r} :
                \/ request'[q] = request[q]
                \/ request[q].calls = 0 /\ request'[q].calls = 0 /\ request'[q].status = 1
  BY <1>a DEF Reports, Makes, IInv, Sound
<1>1. CASE UNCHANGED <<request, heard>>
  BY <1>0, <1>1
<1>2. ASSUME NEW r \in Requests, NetCall(r) PROVE HeardInv'
  <2>1. PICK result \in Returns : request' = [request EXCEPT ![r] = send_dns_query(result)]
    BY <1>2 DEF NetCall, Call
  <2>2. request[r].calls = 0
    BY <1>2 DEF NetCall, Call, IInv, Sound
  <2>3. send_dns_query(result).calls = 0 /\ send_dns_query(result).status # -1
    BY SendSound, SendStatus
  <2>4. request'[r] = send_dns_query(result) /\ \A q \in Requests \ {r} : request'[q] = request[q]
    BY <2>1 DEF IInv
  <2>5. heard' = heard
    BY <1>2 DEF NetCall
  <2> QED
    BY <1>0, <2>2, <2>3, <2>4, <2>5
<1>3. ASSUME NEW r \in Requests,
             on_udp_send(r) \/ \E h \in DnsHandles : on_dns_close(r, h),
             UNCHANGED heard
      PROVE  HeardInv'
  <2>1. \A q \in Requests : request'[q].calls = request[q].calls /\ request'[q].status = request[q].status
    BY <1>3, LoopReportsNot
  <2> QED
    BY <1>0, <1>3, <2>1
<1>4. ASSUME NEW r \in Requests, Receive(r) PROVE HeardInv'
  <2>1. PICK status \in {request[r].status, -2} : Reports(r, status)
    BY <1>4, ReadReports DEF Receive
  <2>2. status # -1
    BY <2>1 DEF Reports
  <2>3. PICK name \in Arrivals(r) : heard' = [heard EXCEPT ![r] = name]
    BY <1>4 DEF Receive
  <2>4. name # Nothing
    <3>1. name \in Requests \cup {Stranger}
      BY ArrivalsNamed
    <3>2. Stranger # Nothing
      BY DEF Stranger, Nothing
    <3> QED
      BY <3>1, <3>2, MarksAssumption
  <2>5. heard'[r] # Nothing /\ \A q \in Requests \ {r} : heard'[q] = heard[q]
    BY <2>3, <2>4
  <2> QED
    BY <1>0, <1>a, <2>1, <2>2, <2>5 DEF Reports
<1>5. ASSUME NEW r \in Requests, TimesOut(r) PROVE HeardInv'
  <2>1. on_dns_timeout(r) /\ UNCHANGED heard
    BY <1>5 DEF TimesOut
  <2>2. Reports(r, -1)
    BY <2>1, TimeoutReports
  <2> QED
    BY <1>0, <1>a, <2>1, <2>2 DEF Reports
<1> QED
  BY <1>1, <1>2, <1>3, <1>4, <1>5
     DEF NetNext, netVars, ServerAnswers, Flush, Sent, Closed

(* A request reports a timeout exactly when it heard nothing: the answer   *)
(* and the timer never both report, and what is heard before the timer is  *)
(* never lost.                                                             *)
THEOREM HeardOrTimedOutAlways == NetSpec => []HeardOrTimedOut
<1>1. NetInit => HeardInv
  <2> SUFFICES ASSUME NetInit PROVE HeardInv
    OBVIOUS
  <2>1. NetInv
    BY InitNet
  <2>2. Unused.calls = 0 /\ Unused.status = 1
    BY DEF Unused
  <2>3. \A r \in Requests : request[r] = Unused
    BY DEF NetInit, Init
  <2> QED
    BY <2>1, <2>2, <2>3 DEF NetInit, HeardInv
<1>2. HeardInv => HeardOrTimedOut
  <2>1. HeardInv => \A r \in Requests : request[r].calls \in {0, 1}
    BY DEF HeardInv, NetInv, IInv, Sound
  <2> QED
    BY <2>1 DEF HeardInv, HeardOrTimedOut
<1> QED
  BY <1>1, <1>2, HeardStep, PTL DEF NetSpec
=============================================================================
