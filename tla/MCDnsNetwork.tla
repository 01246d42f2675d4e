---------------------------- MODULE MCDnsNetwork ----------------------------
(* The instance of DnsNetwork that TLC checks: its requests and ports are  *)
(* model values.                                                           *)
EXTENDS DnsNetwork
=============================================================================
