------------------------------ MODULE MCRelay ------------------------------
(* The instances of Relay that TLC checks. *)
EXTENDS Relay

NoDns  == {}
OneDns == {"dns_1"}
=============================================================================
