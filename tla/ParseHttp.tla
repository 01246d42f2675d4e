------------------------------ MODULE ParseHttp ------------------------------
(***************************************************************************)
(* From the bytes of a first read to the host and the port to connect to:  *)
(* parse_http_request, parseURL and the first half of read_data.           *)
(*                                                                         *)
(* Memory is a sequence of lines.  A line is what stands before its first  *)
(* colon and the address that follows; a line without a colon has the key  *)
(* "text", the line that ends a head is Blank.  An address is a name, its  *)
(* length, and the digits of a port, if any.                               *)
(*                                                                         *)
(* read_data hands the parser the whole block alloc_buffer gave, not the   *)
(* part that was read, and nothing ends the string: what an earlier read   *)
(* left in the block is parsed, too.  A read ends anywhere, and when it    *)
(* ends inside a line that line goes on with what lies behind it.          *)
(***************************************************************************)
EXTENDS Integers, Sequences, SequencesExt, FiniteSets

CONSTANTS
    Requests,    \* the requests clients send
    MAX_HEADERS  \* scaled; 100 in ParseHttp.h

VARIABLES
    block,    \* the lines of the last read, which stay in the heap
    request,  \* the request of the last read
    whole,    \* how many of its lines were read up to their end
    alone,    \* whether its lines, all of them, were what the parser got
    outcome   \* what read_data did with it

httpVars == <<block, request, whole, alone, outcome>>

NoUrl == [name |-> "", size |-> 0, port |-> <<>>]
Blank == [key |-> "", value |-> NoUrl]
Text  == [key |-> "text", value |-> NoUrl]

(* Room in url[256], and the digits of the port of a plain request. *)
UrlSize == 255
Port80  == <<8, 0>>

RequestLine(r) == [key |-> r.method, value |-> r.url]

(* A request on the wire. *)
Wire(r) == <<RequestLine(r)>> \o r.head \o <<Blank>> \o r.body

(* A name fits in url.  No line of a head is empty, and what starts with   *)
(* an empty line is nothing but the end of lines.                          *)
Urls  == [name : STRING, size : 0..UrlSize, port : Seq(Nat)]
Lines == [key : STRING, value : Urls]

ASSUME MaxHeadersAssumption == MAX_HEADERS \in Nat \ {0}
ASSUME RequestsAssumption ==
    /\ Requests \subseteq [method : STRING, url : Urls, head : Seq(Lines), body : Seq(Lines)]
    /\ \A r \in Requests :
          /\ \A i \in DOMAIN r.head : r.head[i] # Blank
          /\ RequestLine(r) = Blank => r.head = <<>> /\ r.body = <<>>

NoRequest == [method |-> "none", url |-> NoUrl, head |-> <<>>, body |-> <<>>]

Rejected == [kind |-> "rejected", mode |-> "none", host |-> "none", port |-> <<>>]
Waiting  == [Rejected EXCEPT !.kind = "none"]

Target(mode, url) == [kind |-> "lookup", mode |-> mode, host |-> url.name, port |-> url.port]

HttpInit ==
    /\ block = <<>>
    /\ request = NoRequest
    /\ whole = 0
    /\ alone = FALSE
    /\ outcome = Waiting

-----------------------------------------------------------------------------
(* The lines at some places, in their order. *)
Picked(lines, places) ==
    LET picked[n \in 0..Len(lines)] ==
            IF n = 0 THEN <<>>
            ELSE IF n \in places THEN Append(picked[n - 1], lines[n])
            ELSE picked[n - 1]
    IN  picked[Len(lines)]

(* strtok with "\r\n" takes any run of the two for one separator. *)
strtok(lines) == Picked(lines, {n \in DOMAIN lines : lines[n] # Blank})

(* A line with a colon is a header. *)
Fields(lines) == {n \in DOMAIN lines : lines[n].key # "text"}

(* Mutation of Headers: lines that are no headers take room, too. *)
Headers_counted(lines) ==
    LET stored == SubSeq(lines, 1, IF Len(lines) < MAX_HEADERS THEN Len(lines) ELSE MAX_HEADERS)
    IN  Picked(stored, Fields(stored))

(* Every line with a colon, up to the size of the array. *)
Headers(lines) ==
    LET all == Picked(lines, Fields(lines))
    IN  SubSeq(all, 1, IF Len(all) < MAX_HEADERS THEN Len(all) ELSE MAX_HEADERS)

(* Digits of a port that sscanf has room for.  A colon with none of them   *)
(* behind it is port 0 to atoi.                                            *)
Digits(port, room) ==
    IF Len(port) <= room \/ port = <<>> THEN port
    ELSE IF room = 0 THEN <<0>>
    ELSE SubSeq(port, 1, room)

(* Mutation of Scanned: sscanf is given a field of one character less. *)
Scanned_short(url) == [url EXCEPT !.port = Digits(@, UrlSize - 1 - url.size - 1)]

(* sscanf "%255s": what does not fit goes to the version. *)
Scanned(url) == [url EXCEPT !.port = Digits(@, UrlSize - url.size - 1)]

(* The first line of the string is the request line, the rest headers. *)
parse_http_request(lines) ==
    [ method  |-> Head(strtok(lines)).key,
      url     |-> Scanned(Head(strtok(lines)).value),
      headers |-> Headers(Tail(strtok(lines))) ]

(* Split at the first colon, which is inside the brackets of an IPv6       *)
(* literal: atoi reads the rest as port 0.  Without one the port is 80.    *)
parseURL(url) ==
    IF url.name = "[v6]" THEN [url EXCEPT !.name = "[", !.port = <<0>>]
    ELSE IF url.port = <<>> THEN [url EXCEPT !.port = Port80] ELSE url

Named(headers, key) == Picked(headers, {n \in DOMAIN headers : headers[n].key = key})

(* The last header of a key wins. *)
Found(headers, key) == Last(Named(headers, key)).value

(* Mutation of Outcomes: the URL of the request line says where any goes. *)
Outcomes_url(req) ==
    IF req.method # "CONNECT" /\ Named(req.headers, "Proxy-Connection") = <<>> THEN {Rejected}
    ELSE {Target(IF req.method = "CONNECT" THEN "PROXY_HTTPS" ELSE "PROXY_HTTP", parseURL(req.url))}

(* read_data.  host is not initialised: without a Host header it is NULL   *)
(* or whatever the stack held.                                             *)
Outcomes(req) ==
    IF req.method = "CONNECT"
    THEN {Target("PROXY_HTTPS", parseURL(req.url))}
    ELSE IF Named(req.headers, "Proxy-Connection") = <<>>
    THEN {Rejected}
    ELSE IF Named(req.headers, "Host") = <<>>
    THEN {Rejected, [Rejected EXCEPT !.kind = "garbage", !.mode = "PROXY_HTTP"]}
    ELSE {Target("PROXY_HTTP", parseURL(Found(req.headers, "Host")))}

-----------------------------------------------------------------------------
(* What is left of an old line whose start was overwritten: all that       *)
(* counts, another key, or no colon any more.                              *)
Ends(line) ==
    {line} \cup
    (IF line.key \in {"", "text"} THEN {} ELSE {Text, [line EXCEPT !.key = "other"]})

(* What lies behind a new read: nothing, or what an earlier one left there *)
(* from some line on.                                                      *)
Stale == {<<>>} \cup
         UNION {{<<end>> \o SubSeq(block, k + 1, Len(block)) : end \in Ends(block[k])} :
                k \in DOMAIN block}

(* Where an address can end early: in the name, at the colon, in the port. *)
Shortened(url) ==
    {NoUrl, [name |-> "cut", size |-> 1, port |-> <<>>]}
    \cup (IF url.port = <<>> THEN {} ELSE {[url EXCEPT !.port = <<0>>]})
    \cup {[url EXCEPT !.port = SubSeq(@, 1, n)] : n \in 0..Len(url.port)}

(* What a read has of a line it ends in; before its colon it is text. *)
Begun(line) ==
    IF line = Blank THEN {}
    ELSE {Text} \cup
         (IF line.key = "text" THEN {}
          ELSE {[line EXCEPT !.value = url] : url \in Shortened(line.value)})

(* An address that goes on with another: some name, or more of the port. *)
Mixed(url, more) ==
    IF url.port = <<>> THEN [name |-> "mixed", size |-> url.size, port |-> more.port]
    ELSE [url EXCEPT !.port = @ \o more.port]

(* A line the read ended in goes on with the rest of an old one. *)
Glued(line, end) ==
    IF end = Blank THEN {line}
    ELSE IF line.key = "text" THEN {end}
    ELSE {[line EXCEPT !.value = url] :
              url \in {line.value, end.value, Mixed(line.value, end.value)}}

(* What the parser gets behind the whole lines of a read. *)
Behind(part) ==
    IF part = <<>> THEN Stale
    ELSE {part} \cup
         UNION {{<<line>> \o Tail(stale) : line \in Glued(part[1], stale[1])} :
                stale \in Stale \ {<<>>}}

(* Some whole lines of a request, and how far the read got in the next. *)
Parts(wire, n) ==
    {part \in {<<>>} \cup (IF n = Len(wire) THEN {} ELSE {<<line>> : line \in Begun(wire[n + 1])}) :
        n > 0 \/ part # <<>>}

(* The first read of a connection returns the start of a request, or all   *)
(* of it.                                                                  *)
read_data_first ==
    /\ outcome = Waiting
    /\ \E r \in Requests :
       \E n \in 0..Len(Wire(r)) : \E part \in Parts(Wire(r), n) : \E behind \in Behind(part) :
          LET lines == SubSeq(Wire(r), 1, n)
              memory == lines \o behind
          IN  /\ request' = r
              /\ whole' = n
              /\ block' = lines \o part
              /\ alone' = (memory = Wire(r))
              /\ outcome' \in (IF strtok(memory) = <<>> THEN {Rejected}
                               ELSE Outcomes(parse_http_request(memory)))

(* The block of the last read is freed, and the heap gives it again. *)
alloc_buffer ==
    /\ outcome # Waiting
    /\ request' = NoRequest
    /\ whole' = 0
    /\ alone' = FALSE
    /\ outcome' = Waiting
    /\ UNCHANGED block

HttpNext == read_data_first \/ alloc_buffer

HttpSpec == HttpInit /\ [][HttpNext]_httpVars

-----------------------------------------------------------------------------
(* What a request says: where it goes by its own head. *)

Connects == request.method = "CONNECT" /\ request.url.name # "[v6]"

(* The i-th line of the head is a header, and there is room for it. *)
Fits(i) ==
    /\ request.head[i].key # "text"
    /\ Cardinality({j \in 1..i : request.head[j].key # "text"}) <= MAX_HEADERS

Has(key) == \E i \in DOMAIN request.head : Fits(i) /\ request.head[i].key = key

Complete == Has("Host") /\ Has("Proxy-Connection")

(* It came in one read into memory with nothing in it that could follow,   *)
(* and no line of its body looks like a header.                            *)
Plainly == alone /\ \A i \in DOMAIN request.body : request.body[i].key = "text"

(* Once its request line is read to the end, a tunnel to a name or an IPv4 *)
(* address goes where that line says, wherever behind it the read ends and *)
(* whatever headers, body and leftovers say (Main.c:163); and to the port  *)
(* named, or 80 (ParseHttp.c:48), as long as name and port together fit in *)
(* url.  A read that ends in the request line goes elsewhere.              *)
TunnelGoesWhereNamed ==
    whole >= 1 /\ Connects =>
        /\ outcome.kind = "lookup" /\ outcome.mode = "PROXY_HTTPS"
        /\ outcome.host = request.url.name
        /\ request.url.size + 1 + Len(request.url.port) <= UrlSize =>
              outcome.port = (IF request.url.port = <<>> THEN Port80 ELSE request.url.port)

(* The Host header that counts: the last of those that fit. *)
LastHost(i) ==
    /\ Fits(i) /\ request.head[i].key = "Host"
    /\ \A j \in DOMAIN request.head : Fits(j) /\ request.head[j].key = "Host" => j <= i

(* A plain request is let through only with a Proxy-Connection among the   *)
(* headers of its own head that fit (Main.c:168).  It is looked up exactly *)
(* if a Host header is there as well, and connected to the host and port   *)
(* of the last of these (Main.c:155), unless that is the literal of an     *)
(* IPv6 address.  Without one it is let through, too: to no host at all.   *)
HostFromHead ==
    Plainly /\ outcome.mode = "PROXY_HTTP" =>
        /\ Has("Proxy-Connection")
        /\ outcome.kind = "lookup" <=> Has("Host")
        /\ Has("Host") => \E i \in DOMAIN request.head :
              LET value == request.head[i].value
              IN  /\ LastHost(i)
                  /\ value.name # "[v6]" =>
                        /\ outcome.host = value.name
                        /\ outcome.port = (IF value.port = <<>> THEN Port80 ELSE value.port)

(* A request whose headers name both is not turned away (Main.c:169).      *)
CompleteIsServed ==
    Plainly /\ Complete => outcome.kind \notin {"rejected", "garbage"}

-----------------------------------------------------------------------------
(* What the code does not keep to; no run checks it (README.md).           *)

(* A plain request that is let through names a host (Main.c:169).          *)
HostRequired == Plainly /\ outcome.mode = "PROXY_HTTP" => Has("Host")

(* A tunnel goes where its request line says wherever the read ends.       *)
TunnelWherever == Connects => outcome.host = request.url.name
=============================================================================
