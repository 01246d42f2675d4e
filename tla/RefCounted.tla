----------------------------- MODULE RefCounted -----------------------------
(***************************************************************************)
(* What a reference count promises, with no count: an object comes into    *)
(* being with at least one user, gains and loses users while it has some,  *)
(* and is freed by the very step that takes its last user away.            *)
(***************************************************************************)
EXTENDS Naturals

CONSTANT Objects

VARIABLES
    life,   \* of each object
    users   \* the number of those who may still reach it

vars == <<life, users>>

Init ==
    /\ life = [o \in Objects |-> "unused"]
    /\ users = [o \in Objects |-> 0]

Others(o) == \A p \in Objects \ {o} : life'[p] = life[p] /\ users'[p] = users[p]

Create(o) ==
    /\ life[o] = "unused"
    /\ life'[o] = "live"
    /\ users'[o] > 0
    /\ Others(o)

Share(o) ==
    /\ life[o] = "live"
    /\ users[o] > 0
    /\ life'[o] = "live"
    /\ users'[o] > 0
    /\ Others(o)

Release(o) ==
    /\ life[o] = "live"
    /\ users[o] > 0
    /\ life'[o] = "freed"
    /\ users'[o] = 0
    /\ Others(o)

Next == \E o \in Objects : Create(o) \/ Share(o) \/ Release(o)

Spec == Init /\ [][Next]_vars
=============================================================================
