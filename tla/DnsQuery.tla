------------------------------ MODULE DnsQuery ------------------------------
(***************************************************************************)
(* What the caller of send_dns_query is promised, with no sockets and no   *)
(* timer: a query is either refused when it is made, and then its callback *)
(* never runs, or it is accepted, and then its callback runs once.         *)
(***************************************************************************)
EXTENDS Naturals

CONSTANT Queries

VARIABLES
    phase,   \* of each query: "idle", "asked" or "refused"
    answers  \* how often its callback has run

vars == <<phase, answers>>

Init ==
    /\ phase = [q \in Queries |-> "idle"]
    /\ answers = [q \in Queries |-> 0]

Ask(q) ==
    /\ phase[q] = "idle"
    /\ \E p \in {"asked", "refused"} : phase' = [phase EXCEPT ![q] = p]
    /\ UNCHANGED answers

(* The callback may make another query before it returns. *)
Answer(q) ==
    /\ phase[q] = "asked"
    /\ answers[q] = 0
    /\ answers' = [answers EXCEPT ![q] = 1]
    /\ \/ UNCHANGED phase
       \/ \E n \in Queries, p \in {"asked", "refused"} :
             phase[n] = "idle" /\ phase' = [phase EXCEPT ![n] = p]

Next == \E q \in Queries : Ask(q) \/ Answer(q)

Spec == Init /\ [][Next]_vars
=============================================================================
