------------------------------ MODULE MCConfig ------------------------------
(* The instances of Config that TLC checks. *)
EXTENDS Config

SomePorts == {0, 8080, 65535, 65536}

SomeDns == {<<"v4">>, <<"text">>, <<"v4", "other_v4">>, <<"other_v4", "v6">>, <<"v4", "text">>}

(* A scaled INT_MAX: the default of 30 s fits, 41 s do not. *)
SmallIntMax == 39999

SomeTimeouts == {-1, 0, 9, 41}
=============================================================================
