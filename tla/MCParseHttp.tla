----------------------------- MODULE MCParseHttp -----------------------------
(* The instances of ParseHttp that TLC checks. *)
EXTENDS ParseHttp

Url(name, size, port) == [name |-> name, size |-> size, port |-> port]

Alpha == Url("alpha", 5, <<>>)
Beta  == Url("beta", 4, <<8, 1>>)
Field(key, value) == [key |-> key, value |-> value]

HostAlpha == Field("Host", Alpha)
HostBeta  == Field("Host", Beta)
HostLiteral == Field("Host", Url("[v6]", 5, <<4, 4, 3>>))
Proxied   == Field("Proxy-Connection", Alpha)
Accept    == Field("Accept", Alpha)

Heads == {<<HostAlpha>>, <<Proxied>>, <<HostAlpha, Proxied>>, <<Proxied, HostBeta>>,
          <<HostBeta, HostAlpha, Proxied, HostBeta>>, <<Proxied, HostLiteral>>,
          <<Accept, Text, HostAlpha, Proxied>>, <<Accept, Text, Accept, HostBeta>>,
          <<Accept, Accept, Proxied, HostAlpha>>}

Request(methods, urls, heads, bodies) ==
    [method : methods, url : urls, head : heads, body : bodies]

(* Requests without a body, or with one that has no colon in it. *)
Plain == Request({"GET"}, {Alpha}, Heads, {<<>>, <<Text>>})
         \cup Request({"CONNECT"}, {Alpha, Beta}, {<<HostAlpha>>, <<Proxied, HostBeta>>}, {<<>>})

(* Bodies that look like headers. *)
Lookalike == Request({"CONNECT", "POST"}, {Alpha}, {<<HostAlpha>>, <<HostAlpha, Proxied>>},
                     {<<HostBeta>>, <<Proxied, Text>>})

(* An address that is no name, and the names at the limit of url. *)
Tunnels == Request({"CONNECT"},
                   {Url("[v6]", 5, <<4, 4, 3>>)}
                        \cup {Url("long", size, <<4, 4, 3>>) : size \in {9, 251, 252, 253, 254, 255}},
                   {<<>>, <<HostBeta>>}, {<<>>})

(* Nothing but the end of a line. *)
Empty == Request({""}, {Url("", 0, <<>>)}, {<<>>}, {<<>>})

AllRequests == Plain \cup Lookalike \cup Tunnels \cup Empty
=============================================================================
