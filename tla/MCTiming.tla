------------------------------ MODULE MCTiming ------------------------------
(* The instances of Timing that TLC checks. *)
EXTENDS Timing, TLC

NoDns  == {}
TwoDns == {"dns_1", "dns_2"}

ClientSymmetry == Permutations(Clients)
=============================================================================
