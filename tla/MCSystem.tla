------------------------------ MODULE MCSystem ------------------------------
(* The instances of System that TLC checks. *)
EXTENDS System

TwoDns == {"dns_1", "dns_2"}
=============================================================================
