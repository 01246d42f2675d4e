---------------------------- MODULE MCDnsPacket ----------------------------
(* The instances of DnsPacket that TLC checks. *)
EXTENDS DnsPacket

(* a, a.bb, ccc.a and a.bb.ccc, which is too long *)
SomeHosts == {<<<<97>>>>, <<<<97>>, <<98, 98>>>>, <<<<99, 99, 99>>, <<97>>>>,
              <<<<97>>, <<98, 98>>, <<99, 99, 99>>>>}
=============================================================================
