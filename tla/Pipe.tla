-------------------------------- MODULE Pipe --------------------------------
(***************************************************************************)
(* What one direction of a relay promises, for a family of pipes: what     *)
(* arrives is what was sent, in that order and with nothing missing in     *)
(* between, until the pipe is cut.  What has not arrived by then is lost.  *)
(***************************************************************************)
EXTENDS Sequences, Naturals

CONSTANTS Pipes, Data

VARIABLES
    sent,      \* of each pipe: everything put in so far
    received,  \* everything that came out
    open       \* FALSE once it is cut

vars == <<sent, received, open>>

Init ==
    /\ sent = [p \in Pipes |-> <<>>]
    /\ received = [p \in Pipes |-> <<>>]
    /\ open = [p \in Pipes |-> TRUE]

(* The step that sends may also be the one that cuts. *)
Send(p) ==
    /\ \E x \in Data : sent' = [sent EXCEPT ![p] = Append(@, x)]
    /\ \E o \in {open[p], FALSE} : open' = [open EXCEPT ![p] = o]
    /\ UNCHANGED received

Deliver(p) ==
    /\ open[p]
    /\ Len(received[p]) < Len(sent[p])
    /\ received' = [received EXCEPT ![p] = Append(@, sent[p][Len(@) + 1])]
    /\ UNCHANGED <<sent, open>>

Cut(p) ==
    /\ open[p]
    /\ open' = [open EXCEPT ![p] = FALSE]
    /\ UNCHANGED <<sent, received>>

Next == \E p \in Pipes : Send(p) \/ Deliver(p) \/ Cut(p)

Spec == Init /\ [][Next]_vars
=============================================================================
