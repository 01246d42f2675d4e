------------------------------ MODULE MCProxy ------------------------------
(* The instances of Proxy that TLC checks. *)
EXTENDS ProxyProperties, TLC

NoDns   == {}
TwoDns  == {"dns_1", "dns_2"}

(* Clients are interchangeable: for the safety runs with more than one. *)
ClientSymmetry == Permutations(Clients)
=============================================================================
