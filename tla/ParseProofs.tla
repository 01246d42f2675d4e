---------------------------- MODULE ParseProofs ----------------------------
(***************************************************************************)
(* What the two parsers find: in an HTTP request, however long its head    *)
(* is, and in the answer to a DNS query, however many records it has.      *)
(***************************************************************************)
EXTENDS ParseHttp, DnsPacket, TLAPS, FiniteSetTheorems, SequenceTheorems, WellFoundedInduction

-----------------------------------------------------------------------------
(* Induction over the naturals, as facts about sets: the library states it *)
(* for an operator, which no prover at hand can instantiate.               *)

LEMMA Least ==
    ASSUME NEW T, T \subseteq Nat, T # {}
    PROVE  \E x \in T : \A y \in T : ~(y < x)
<1>1. PICK R : IsWellFoundedOn(R, Nat) /\ R = {ss \in Nat \X Nat : ss[1] < ss[2]}
  BY NatLessThanWellFounded DEF OpToRel
<1>2. PICK x \in T : \A y \in T : ~(<<y, x>> \in R)
  BY <1>1, WFMin
<1>3. ASSUME NEW y \in T, y < x PROVE FALSE
  <2>1. <<y, x>> \in Nat \X Nat
    OBVIOUS
  <2>2. <<y, x>> \in R
    BY <1>1, <1>3, <2>1
  <2> QED
    BY <1>2, <2>2
<1> QED
  BY <1>3

LEMMA Induction ==
    ASSUME NEW T, 0 \in T, \A n \in Nat : n \in T => n + 1 \in T
    PROVE  Nat \subseteq T
<1> DEFINE Rest == Nat \ T
<1>1. SUFFICES ASSUME Rest # {} PROVE FALSE
  OBVIOUS
<1>2. PICK x \in Rest : \A y \in Rest : ~(y < x)
  BY <1>1, Least
<1>3. x # 0 /\ x \in Nat
  BY <1>2
<1>4. x - 1 \in Nat /\ x - 1 < x
  BY <1>3
<1>5. x - 1 \in T
  BY <1>2, <1>4
<1>6. (x - 1) + 1 \in T
  BY <1>4, <1>5
<1> QED
  BY <1>3, <1>6

(* A function on 0..N is given by its start and by what each step makes of *)
(* the value before it.                                                    *)
Steps(f, V, start, N, step) ==
    /\ f \in [0..N -> V]
    /\ f[0] = start
    /\ \A n \in 1..N : f[n] = step[n][f[n - 1]]

LEMMA Recursion ==
    ASSUME NEW V, NEW start \in V, NEW N \in Nat, NEW step \in [1..N -> [V -> V]]
    PROVE  \E f : Steps(f, V, start, N, step)
<1> DEFINE T == {m \in Nat : m <= N => \E f : Steps(f, V, start, m, step)}
<1>1. 0 \in T
  <2> DEFINE f == [n \in 0..0 |-> start]
  <2>1. Steps(f, V, start, 0, step)
    BY DEF Steps
  <2> QED
    BY <2>1
<1>2. ASSUME NEW m \in Nat, m \in T PROVE m + 1 \in T
  <2> SUFFICES ASSUME m + 1 <= N PROVE \E f : Steps(f, V, start, m + 1, step)
    OBVIOUS
  <2>1. PICK f : Steps(f, V, start, m, step)
    BY <1>2
  <2>2. f \in [0..m -> V] /\ f[m] \in V /\ m + 1 \in 1..N
    BY <2>1 DEF Steps
  <2>3. step[m + 1][f[m]] \in V
    BY <2>2
  <2> DEFINE last == step[m + 1][f[m]]
             g == [n \in 0..(m + 1) |-> IF n = m + 1 THEN last ELSE f[n]]
  <2>4. g \in [0..(m + 1) -> V]
    <3> HIDE DEF last
    <3>1. last \in V
      BY <2>3 DEF last
    <3> QED
      BY <2>2, <3>1
  <2>5. g[0] = start
    BY <2>1 DEF Steps
  <2>6. ASSUME NEW n \in 1..(m + 1) PROVE g[n] = step[n][g[n - 1]]
    <3>1. CASE n = m + 1
      BY <3>1
    <3>2. CASE n # m + 1
      <4>1. n \in 1..m /\ n \in 0..(m + 1) /\ n - 1 \in 0..(m + 1) /\ n - 1 # m + 1
        BY <3>2
      <4>2. g[n] = f[n] /\ g[n - 1] = f[n - 1]
        BY <3>2, <4>1
      <4> QED
        BY <2>1, <4>1, <4>2 DEF Steps
    <3> QED
      BY <3>1, <3>2
  <2> HIDE DEF g
  <2> QED
    BY <2>4, <2>5, <2>6 DEF Steps
<1> HIDE DEF T
<1>3. N \in T
  BY <1>1, <1>2, Induction
<1> QED
  BY <1>3 DEF T

-----------------------------------------------------------------------------
(* Picked, from one line to the next. *)
PickedSteps(f, V, lines, places) ==
    /\ f \in [0..Len(lines) -> Seq(V)]
    /\ f[0] = <<>>
    /\ \A n \in 1..Len(lines) :
          f[n] = IF n \in places THEN Append(f[n - 1], lines[n]) ELSE f[n - 1]
    /\ f[Len(lines)] = Picked(lines, places)

LEMMA PickedIs ==
    ASSUME NEW V, NEW lines \in Seq(V), NEW places
    PROVE  \E f : PickedSteps(f, V, lines, places)
<1> DEFINE N == Len(lines)
           step == [n \in 1..N |-> [s \in Seq(V) |->
                        IF n \in places THEN Append(s, lines[n]) ELSE s]]
           P(f) == f = [n \in 0..N |->
                        IF n = 0 THEN <<>>
                        ELSE IF n \in places THEN Append(f[n - 1], lines[n])
                        ELSE f[n - 1]]
<1>1. N \in Nat /\ <<>> \in Seq(V)
  OBVIOUS
<1>2. step \in [1..N -> [Seq(V) -> Seq(V)]]
  <2>1. ASSUME NEW n \in 1..N, NEW s \in Seq(V)
        PROVE  (IF n \in places THEN Append(s, lines[n]) ELSE s) \in Seq(V)
    OBVIOUS
  <2> QED
    BY <2>1
<1>3. PICK f : Steps(f, Seq(V), <<>>, N, step)
  <2> HIDE DEF step, N
  <2> QED
    BY <1>1, <1>2, Recursion
<1>4. f \in [0..N -> Seq(V)] /\ f[0] = <<>>
  BY <1>3 DEF Steps
<1>5. ASSUME NEW n \in 1..N
      PROVE  f[n] = IF n \in places THEN Append(f[n - 1], lines[n]) ELSE f[n - 1]
  <2>1. f[n] = step[n][f[n - 1]] /\ n - 1 \in 0..N
    BY <1>3 DEF Steps
  <2>2. f[n - 1] \in Seq(V)
    BY <1>4, <2>1
  <2> QED
    BY <2>1, <2>2
<1>6. P(f)
  <2>1. ASSUME NEW n \in 0..N
        PROVE  f[n] = IF n = 0 THEN <<>>
                      ELSE IF n \in places THEN Append(f[n - 1], lines[n])
                      ELSE f[n - 1]
    <3>1. CASE n = 0
      BY <1>4, <3>1
    <3>2. CASE n # 0
      <4>1. n \in 1..N
        BY <3>2
      <4> QED
        BY <1>5, <3>2, <4>1
    <3> QED
      BY <3>1, <3>2
  <2> QED
    BY <1>4, <2>1
<1> DEFINE g == CHOOSE g : P(g)
<1>7. Picked(lines, places) = g[N]
  BY DEF Picked
<1>8. P(g)
  <2> HIDE DEF P
  <2> QED
    BY <1>6
<1> HIDE DEF g
<1>a. \A n \in 0..N : g[n] = IF n = 0 THEN <<>>
                             ELSE IF n \in places THEN Append(g[n - 1], lines[n])
                             ELSE g[n - 1]
  <2> HIDE DEF N
  <2> QED
    BY <1>8
<1>b. 0 \in 0..N
  BY <1>1
<1>9. g[0] = <<>>
  <2> HIDE DEF P, N
  <2> QED
    BY <1>a, <1>b
<1>10. ASSUME NEW n \in 1..N
       PROVE  g[n] = IF n \in places THEN Append(g[n - 1], lines[n]) ELSE g[n - 1]
  <2> HIDE DEF P
  <2>1. n \in 0..N /\ n # 0
    BY <1>1
  <2>2. g[n] = IF n = 0 THEN <<>>
               ELSE IF n \in places THEN Append(g[n - 1], lines[n])
               ELSE g[n - 1]
    BY <1>a, <2>1, Zenon
  <2> QED
    BY <2>1, <2>2, Zenon
<1> DEFINE T == {n \in Nat : n <= N => g[n] \in Seq(V)}
<1>11. 0 \in T
  BY <1>1, <1>9
<1>12. ASSUME NEW n \in Nat, n \in T PROVE n + 1 \in T
  <2> SUFFICES ASSUME n + 1 <= N PROVE g[n + 1] \in Seq(V)
    OBVIOUS
  <2>1. n + 1 \in 1..N /\ (n + 1) - 1 = n
    BY <1>1
  <2>2. g[n] \in Seq(V)
    BY <1>1, <1>12
  <2>3. lines[n + 1] \in V
    BY <2>1
  <2>4. g[n + 1] = IF n + 1 \in places THEN Append(g[n], lines[n + 1]) ELSE g[n]
    BY <1>10, <2>1
  <2> QED
    BY <2>2, <2>3, <2>4
<1>13. \A n \in 0..N : g[n] \in Seq(V)
  <2> HIDE DEF T
  <2>1. Nat \subseteq T
    BY <1>11, <1>12, Induction
  <2> QED
    BY <1>1, <2>1 DEF T
<1>14. g \in [0..N -> Seq(V)]
  <2>1. DOMAIN g = 0..N /\ g = [n \in DOMAIN g |-> g[n]]
    BY <1>8
  <2> QED
    BY <1>13, <2>1
<1> QED
  BY <1>7, <1>9, <1>10, <1>14 DEF PickedSteps

(* How many of some places come up to n. *)
Rank(places, n) == Cardinality(places \cap 1..n)

LEMMA RankSteps ==
    ASSUME NEW places
    PROVE  /\ Rank(places, 0) = 0
           /\ \A n \in Nat : Rank(places, n) \in Nat
           /\ \A n \in Nat : Rank(places, n + 1) =
                 IF n + 1 \in places THEN Rank(places, n) + 1 ELSE Rank(places, n)
<1>1. Rank(places, 0) = 0
  <2>1. places \cap 1..0 = {}
    OBVIOUS
  <2> QED
    BY <2>1, FS_EmptySet DEF Rank
<1>2. ASSUME NEW n \in Nat
      PROVE  IsFiniteSet(places \cap 1..n) /\ Rank(places, n) \in Nat
  <2>1. IsFiniteSet(1..n)
    BY FS_Interval
  <2>2. places \cap 1..n \in SUBSET (1..n)
    OBVIOUS
  <2>3. IsFiniteSet(places \cap 1..n)
    BY <2>1, <2>2, FS_Subset
  <2> QED
    BY <2>3, FS_CardinalityType DEF Rank
<1>3. ASSUME NEW n \in Nat
      PROVE  Rank(places, n + 1) =
                 IF n + 1 \in places THEN Rank(places, n) + 1 ELSE Rank(places, n)
  <2>1. CASE n + 1 \in places
    <3>1. places \cap 1..(n + 1) = (places \cap 1..n) \cup {n + 1}
      BY <2>1
    <3>2. n + 1 \notin places \cap 1..n
      OBVIOUS
    <3> QED
      BY <1>2, <2>1, <3>1, <3>2, FS_AddElement DEF Rank
  <2>2. CASE n + 1 \notin places
    <3>1. places \cap 1..(n + 1) = places \cap 1..n
      BY <2>2
    <3> QED
      BY <2>2, <3>1 DEF Rank
  <2> QED
    BY <2>1, <2>2
<1> QED
  BY <1>1, <1>2, <1>3

(* A later place of a set has a higher rank. *)
LEMMA RankOrder ==
    ASSUME NEW places, NEW m \in Nat, NEW n \in Nat, m <= n
    PROVE  /\ Rank(places, m) <= Rank(places, n)
           /\ m < n /\ n \in places => Rank(places, m) < Rank(places, n)
<1> DEFINE T == {k \in Nat : Rank(places, m) <= Rank(places, m + k)}
<1>1. 0 \in T
  <2>1. m + 0 = m /\ Rank(places, m) \in Nat
    BY RankSteps
  <2> QED
    BY <2>1
<1>2. ASSUME NEW k \in Nat, k \in T PROVE k + 1 \in T
  <2>1. Rank(places, m) \in Nat /\ Rank(places, m + k) \in Nat /\ m + k \in Nat
    BY RankSteps
  <2>2. Rank(places, m + k + 1) \in {Rank(places, m + k), Rank(places, m + k) + 1}
    BY <2>1, RankSteps
  <2>3. m + (k + 1) = m + k + 1
    OBVIOUS
  <2>4. Rank(places, m) <= Rank(places, m + k)
    BY <1>2
  <2> QED
    BY <2>1, <2>2, <2>3, <2>4
<1> HIDE DEF T
<1>3. Nat \subseteq T
  BY <1>1, <1>2, Induction
<1>4. ASSUME NEW k \in Nat PROVE Rank(places, m) <= Rank(places, m + k)
  BY <1>3 DEF T
<1>5. Rank(places, m) <= Rank(places, n)
  <2>1. n - m \in Nat /\ m + (n - m) = n
    OBVIOUS
  <2> QED
    BY <1>4, <2>1
<1>6. ASSUME m < n, n \in places PROVE Rank(places, m) < Rank(places, n)
  <2>1. (n - 1) - m \in Nat /\ m + ((n - 1) - m) = n - 1 /\ n - 1 \in Nat /\ (n - 1) + 1 = n
    BY <1>6
  <2>2. Rank(places, m) <= Rank(places, n - 1)
    BY <1>4, <2>1
  <2>3. PICK q \in Nat : q = n - 1 /\ q + 1 = n
    BY <2>1
  <2>4. Rank(places, n) = Rank(places, q) + 1 /\ Rank(places, q) \in Nat
    <3>1. Rank(places, q + 1) = IF q + 1 \in places THEN Rank(places, q) + 1 ELSE Rank(places, q)
      BY RankSteps
    <3>2. Rank(places, q) \in Nat /\ q + 1 \in places
      BY <1>6, <2>3, RankSteps
    <3> QED
      BY <2>3, <3>1, <3>2
  <2>5. Rank(places, m) <= Rank(places, q) /\ Rank(places, m) \in Nat
    BY <2>2, <2>3, RankSteps
  <2> QED
    BY <2>4, <2>5
<1> QED
  BY <1>5, <1>6

(* s holds the lines at the places up to m: each at its rank, nothing else. *)
Holds(s, lines, places, m) ==
    /\ Len(s) = Rank(places, m)
    /\ \A n \in places : n <= m => Rank(places, n) \in 1..Len(s) /\ s[Rank(places, n)] = lines[n]
    /\ \A k \in 1..Len(s) : \E n \in places : n <= m /\ Rank(places, n) = k

(* A picked line stands at the rank of its place, and every line of the    *)
(* result was picked.                                                      *)
LEMMA PickedHolds ==
    ASSUME NEW V, NEW lines \in Seq(V), NEW places \in SUBSET (DOMAIN lines)
    PROVE  /\ Picked(lines, places) \in Seq(V)
           /\ Holds(Picked(lines, places), lines, places, Len(lines))
<1>1. PICK f : PickedSteps(f, V, lines, places)
  BY PickedIs
<1> DEFINE N == Len(lines)
           T == {m \in Nat : m <= N => Holds(f[m], lines, places, m)}
<1>2. N \in Nat /\ DOMAIN lines = 1..N
  OBVIOUS
<1>3. 0 \in T
  <2>1. f[0] = <<>> /\ Rank(places, 0) = 0
    BY <1>1, RankSteps DEF PickedSteps
  <2>2. \A n \in places : ~(n <= 0)
    BY <1>2
  <2> QED
    BY <2>1, <2>2 DEF Holds
<1>4. ASSUME NEW m \in Nat, m \in T PROVE m + 1 \in T
  <2> SUFFICES ASSUME m + 1 <= N PROVE Holds(f[m + 1], lines, places, m + 1)
    OBVIOUS
  <2>1. Holds(f[m], lines, places, m) /\ f[m] \in Seq(V) /\ lines[m + 1] \in V
    BY <1>1, <1>2, <1>4 DEF PickedSteps
  <2>2. f[m + 1] = IF m + 1 \in places THEN Append(f[m], lines[m + 1]) ELSE f[m]
    <3>1. m + 1 \in 1..Len(lines) /\ (m + 1) - 1 = m
      BY <1>2
    <3> QED
      BY <1>1, <3>1 DEF PickedSteps
  <2>3. \A n \in places : n \in Nat /\ (n <= m + 1 <=> n <= m \/ n = m + 1)
    BY <1>2
  <2>4. CASE m + 1 \notin places
    <3>1. f[m + 1] = f[m] /\ Rank(places, m + 1) = Rank(places, m)
      BY <2>2, <2>4, RankSteps
    <3>2. \A n \in places : n <= m + 1 <=> n <= m
      BY <2>3, <2>4
    <3> QED
      BY <2>1, <3>1, <3>2 DEF Holds
  <2>5. CASE m + 1 \in places
    <3> DEFINE s == f[m]
               r == f[m + 1]
               line == lines[m + 1]
    <3>1. r = Append(s, line) /\ s \in Seq(V) /\ line \in V
      BY <2>1, <2>2, <2>5
    <3>2. Rank(places, m + 1) = Len(s) + 1 /\ Len(s) = Rank(places, m) /\ Len(s) \in Nat
      <4>1. Len(s) = Rank(places, m) /\ Rank(places, m) \in Nat
        BY <2>1, RankSteps DEF Holds
      <4>2. Rank(places, m + 1) = Rank(places, m) + 1
        BY <2>5, RankSteps
      <4> QED
        BY <4>1, <4>2
    <3>3. \A n \in places : n <= m => Rank(places, n) \in 1..Len(s) /\ s[Rank(places, n)] = lines[n]
      BY <2>1 DEF Holds
    <3>4. \A k \in 1..Len(s) : \E n \in places : n <= m /\ Rank(places, n) = k
      BY <2>1 DEF Holds
    <3> HIDE DEF s, r
    <3>5. Len(r) = Len(s) + 1 /\ r[Len(s) + 1] = line /\ \A k \in 1..Len(s) : r[k] = s[k]
      BY <3>1
    <3>6. ASSUME NEW n \in places, n <= m + 1
          PROVE  Rank(places, n) \in 1..Len(r) /\ r[Rank(places, n)] = lines[n]
      <4>1. CASE n <= m
        BY <3>2, <3>3, <3>5, <4>1
      <4>2. CASE n = m + 1
        BY <3>2, <3>5, <4>2
      <4> QED
        BY <2>3, <3>6, <4>1, <4>2
    <3>7. ASSUME NEW k \in 1..Len(r)
          PROVE  \E n \in places : n <= m + 1 /\ Rank(places, n) = k
      <4>1. CASE k = Len(s) + 1
        BY <2>3, <2>5, <3>2, <4>1
      <4>2. CASE k # Len(s) + 1
        <5>1. k \in 1..Len(s)
          BY <3>2, <3>5, <4>2
        <5> QED
          BY <2>3, <3>4, <5>1
      <4> QED
        BY <4>1, <4>2
    <3> QED
      BY <3>2, <3>5, <3>6, <3>7 DEF Holds, r
  <2> QED
    BY <2>4, <2>5
<1> HIDE DEF T
<1>5. N \in T
  BY <1>2, <1>3, <1>4, Induction
<1>6. f[N] = Picked(lines, places) /\ f[N] \in Seq(V)
  BY <1>1, <1>2 DEF PickedSteps
<1> QED
  BY <1>2, <1>5, <1>6 DEF T

-----------------------------------------------------------------------------
(* Requests.  What the parser gets holds lines of these, the empty one,    *)
(* and what becomes of a line that is cut or goes on with an old one.      *)

AnyUrls  == [name : STRING \cup {"", "cut", "mixed"}, size : Nat, port : Seq(Nat)]
AnyLines == [key : STRING \cup {"", "text", "other"}, value : AnyUrls]

LEMMA LinesAreAny ==
    /\ Urls \subseteq AnyUrls /\ Lines \subseteq AnyLines
    /\ NoUrl \in AnyUrls /\ Blank \in AnyLines /\ Text \in AnyLines
<1>1. ASSUME NEW url \in Urls PROVE url \in AnyUrls
  <2>1. url.size \in Nat
    BY DEF Urls
  <2> QED
    BY <2>1 DEF Urls, AnyUrls
<1>2. ASSUME NEW line \in Lines PROVE line \in AnyLines
  BY <1>1 DEF Lines, AnyLines
<1>3. NoUrl \in AnyUrls
  <2>1. <<>> \in Seq(Nat) /\ 0 \in Nat
    OBVIOUS
  <2> QED
    BY <2>1 DEF NoUrl, AnyUrls
<1>4. Blank \in AnyLines /\ Text \in AnyLines
  BY <1>3 DEF Blank, Text, AnyLines
<1> QED
  BY <1>1, <1>2, <1>3, <1>4

LEMMA RequestIs ==
    ASSUME NEW r \in Requests
    PROVE  /\ RequestLine(r) \in Lines
           /\ RequestLine(r).key = r.method /\ RequestLine(r).value = r.url
           /\ r.url \in Urls
           /\ r.head \in Seq(AnyLines) /\ r.body \in Seq(AnyLines)
           /\ r.head \in Seq(Lines) /\ r.body \in Seq(Lines)
<1>1. r \in [method : STRING, url : Urls, head : Seq(Lines), body : Seq(Lines)]
  BY RequestsAssumption
<1>2. Lines \subseteq AnyLines
  BY LinesAreAny
<1>3. r.head \in Seq(Lines) /\ r.body \in Seq(Lines)
  BY <1>1
<1>4. r.head \in Seq(AnyLines) /\ r.body \in Seq(AnyLines)
  BY <1>2, <1>3, SeqMonotonic
<1>5. RequestLine(r) \in Lines
  BY <1>1 DEF RequestLine, Lines
<1> QED
  BY <1>1, <1>3, <1>4, <1>5 DEF RequestLine

(* The places of a request's lines on the wire. *)
LEMMA WireIs ==
    ASSUME NEW r \in Requests
    PROVE  /\ Wire(r) \in Seq(AnyLines)
           /\ Len(Wire(r)) = Len(r.head) + 2 + Len(r.body)
           /\ Wire(r)[1] = RequestLine(r)
           /\ \A i \in 1..Len(r.head) : Wire(r)[i + 1] = r.head[i]
           /\ Wire(r)[Len(r.head) + 2] = Blank
           /\ \A i \in 1..Len(r.body) : Wire(r)[Len(r.head) + 2 + i] = r.body[i]
<1> DEFINE V == AnyLines
           h == r.head
           b == r.body
           first == <<RequestLine(r)>>
           blank == <<Blank>>
<1>1. h \in Seq(V) /\ b \in Seq(V) /\ Len(h) \in Nat /\ Len(b) \in Nat
  BY RequestIs
<1>2. first \in Seq(V) /\ blank \in Seq(V) /\ Len(first) = 1 /\ Len(blank) = 1
      /\ first[1] = RequestLine(r) /\ blank[1] = Blank
  <2>1. RequestLine(r) \in V /\ Blank \in V
    BY RequestIs, LinesAreAny
  <2> HIDE DEF V
  <2> QED
    BY <2>1
<1>3. Wire(r) = ((first \o h) \o blank) \o b
  BY DEF Wire
<1> HIDE DEF V, h, b, first, blank
<1> DEFINE fh == first \o h
           fhb == fh \o blank
<1>4. fh \in Seq(V) /\ Len(fh) = 1 + Len(h)
      /\ \A i \in 1..(1 + Len(h)) : fh[i] = IF i <= 1 THEN first[i] ELSE h[i - 1]
  <2>1. fh \in Seq(V) /\ Len(fh) = Len(first) + Len(h)
        /\ \A i \in 1..(Len(first) + Len(h)) :
               fh[i] = IF i <= Len(first) THEN first[i] ELSE h[i - Len(first)]
    BY <1>1, <1>2, ConcatProperties
  <2> HIDE DEF fh
  <2> QED
    BY <1>2, <2>1
<1> HIDE DEF fh
<1>5. fhb \in Seq(V) /\ Len(fhb) = 2 + Len(h)
      /\ \A i \in 1..(2 + Len(h)) : fhb[i] = IF i <= 1 + Len(h) THEN fh[i] ELSE blank[i - (1 + Len(h))]
  <2>1. fhb \in Seq(V) /\ Len(fhb) = Len(fh) + Len(blank)
        /\ \A i \in 1..(Len(fh) + Len(blank)) :
               fhb[i] = IF i <= Len(fh) THEN fh[i] ELSE blank[i - Len(fh)]
    BY <1>2, <1>4, ConcatProperties
  <2>2. Len(fh) + Len(blank) = 2 + Len(h)
    BY <1>1, <1>2, <1>4
  <2> QED
    BY <1>4, <2>1, <2>2
<1> HIDE DEF fhb
<1> DEFINE w == fhb \o b
<1>6. w \in Seq(V) /\ Len(w) = (2 + Len(h)) + Len(b)
      /\ \A i \in 1..((2 + Len(h)) + Len(b)) :
             w[i] = IF i <= 2 + Len(h) THEN fhb[i] ELSE b[i - (2 + Len(h))]
  <2>1. w \in Seq(V) /\ Len(w) = Len(fhb) + Len(b)
        /\ \A i \in 1..(Len(fhb) + Len(b)) :
               w[i] = IF i <= Len(fhb) THEN fhb[i] ELSE b[i - Len(fhb)]
    <3>1. fhb \in Seq(V) /\ b \in Seq(V)
      BY <1>1, <1>5
    <3> QED
      BY <3>1, ConcatProperties
  <2> HIDE DEF w
  <2> QED
    BY <1>5, <2>1
<1> HIDE DEF w
<1>7. w[1] = first[1]
  <2>1. 1 \in 1..((2 + Len(h)) + Len(b)) /\ 1 \in 1..(2 + Len(h)) /\ 1 \in 1..(1 + Len(h))
    BY <1>1
  <2> QED
    BY <1>1, <1>4, <1>5, <1>6, <2>1
<1>8. ASSUME NEW i \in 1..Len(h) PROVE w[i + 1] = h[i]
  <2>1. i + 1 \in 1..((2 + Len(h)) + Len(b)) /\ i + 1 \in 1..(2 + Len(h)) /\ i + 1 \in 1..(1 + Len(h))
        /\ ~(i + 1 <= 1) /\ (i + 1) - 1 = i
    BY <1>1
  <2>2. w[i + 1] = fhb[i + 1]
    BY <1>6, <2>1
  <2>3. fhb[i + 1] = fh[i + 1]
    BY <1>5, <2>1
  <2> QED
    BY <1>4, <2>1, <2>2, <2>3
<1>9. w[Len(h) + 2] = Blank
  <2>1. Len(h) + 2 \in 1..((2 + Len(h)) + Len(b)) /\ Len(h) + 2 \in 1..(2 + Len(h))
        /\ ~(Len(h) + 2 <= 1 + Len(h)) /\ (Len(h) + 2) - (1 + Len(h)) = 1
    BY <1>1
  <2>2. w[Len(h) + 2] = fhb[Len(h) + 2]
    BY <1>6, <2>1
  <2>3. fhb[Len(h) + 2] = blank[1]
    BY <1>5, <2>1
  <2> QED
    BY <1>2, <2>2, <2>3
<1>10. ASSUME NEW i \in 1..Len(b) PROVE w[Len(h) + 2 + i] = b[i]
  <2>1. Len(h) + 2 + i \in 1..((2 + Len(h)) + Len(b)) /\ ~(Len(h) + 2 + i <= 2 + Len(h))
        /\ (Len(h) + 2 + i) - (2 + Len(h)) = i
    BY <1>1
  <2> QED
    BY <1>6, <2>1
<1>11. Wire(r) = w
  BY <1>3 DEF w, fhb, fh
<1>12. Len(w) = Len(h) + 2 + Len(b)
  BY <1>1, <1>6
<1> QED
  BY <1>2, <1>6, <1>7, <1>8, <1>9, <1>10, <1>11, <1>12 DEF h, b, V

-----------------------------------------------------------------------------
(* The request line, the head of what strtok returns. *)

Filled(lines) == {n \in DOMAIN lines : lines[n] # Blank}

LEMMA StrtokHolds ==
    ASSUME NEW lines \in Seq(AnyLines)
    PROVE  /\ strtok(lines) \in Seq(AnyLines)
           /\ Holds(strtok(lines), lines, Filled(lines), Len(lines))
<1>1. Filled(lines) \in SUBSET (DOMAIN lines)
  BY DEF Filled
<1>2. strtok(lines) = Picked(lines, Filled(lines))
  BY DEF strtok, Filled
<1> QED
  BY <1>1, <1>2, PickedHolds

LEMMA FirstLine ==
    ASSUME NEW lines \in Seq(AnyLines), Len(lines) >= 1, lines[1] # Blank
    PROVE  strtok(lines) # <<>> /\ Head(strtok(lines)) = lines[1]
<1>1. 1 \in Filled(lines) /\ 1 <= Len(lines)
  BY DEF Filled
<1>2. Rank(Filled(lines), 1) = 1
  <2>1. Rank(Filled(lines), 0 + 1) = Rank(Filled(lines), 0) + 1
    BY <1>1, RankSteps
  <2> QED
    BY <2>1, RankSteps
<1>3. 1 \in 1..Len(strtok(lines)) /\ strtok(lines)[1] = lines[1]
  BY <1>1, <1>2, StrtokHolds DEF Holds
<1>4. strtok(lines) \in Seq(AnyLines)
  BY StrtokHolds
<1>5. strtok(lines) # <<>>
  BY <1>3
<1> QED
  BY <1>3, <1>4, <1>5

(* The lines after the request line: those of the head, in their places,   *)
(* and then lines of the body.                                             *)
HeadThenBody(t, r) ==
    /\ t \in Seq(AnyLines)
    /\ Len(r.head) <= Len(t)
    /\ \A i \in 1..Len(r.head) : t[i] = r.head[i]
    /\ \A j \in 1..Len(t) : j > Len(r.head) => \E i \in 1..Len(r.body) : t[j] = r.body[i]

LEMMA AfterFirstLine ==
    ASSUME NEW r \in Requests, RequestLine(r) # Blank
    PROVE  HeadThenBody(Tail(strtok(Wire(r))), r)
<1> DEFINE w == Wire(r)
           s == strtok(w)
           t == Tail(s)
           F == Filled(w)
           h == Len(r.head)
           b == Len(r.body)
<1>1. /\ w \in Seq(AnyLines) /\ h \in Nat /\ b \in Nat /\ Len(w) = h + 2 + b
      /\ w[1] = RequestLine(r)
      /\ \A i \in 1..h : w[i + 1] = r.head[i]
      /\ w[h + 2] = Blank
      /\ \A i \in 1..b : w[h + 2 + i] = r.body[i]
  <2>1. h \in Nat /\ b \in Nat
    BY RequestIs
  <2> QED
    BY <2>1, WireIs
<1>2. \A i \in 1..h : r.head[i] # Blank
  BY RequestIs, RequestsAssumption
<1>3. s \in Seq(AnyLines) /\ Holds(s, w, F, Len(w))
  <2>1. w \in Seq(AnyLines)
    BY <1>1
  <2> HIDE DEF w
  <2>2. strtok(w) \in Seq(AnyLines) /\ Holds(strtok(w), w, Filled(w), Len(w))
    BY <2>1, StrtokHolds, Zenon
  <2> QED
    BY <2>2
<1>4. s # <<>>
  <2> HIDE DEF w, h, b
  <2>1. w \in Seq(AnyLines) /\ Len(w) >= 1 /\ w[1] # Blank
    BY <1>1
  <2> QED
    BY <2>1, FirstLine
<1>5. t \in Seq(AnyLines) /\ Len(t) = Len(s) - 1 /\ \A i \in 1..Len(t) : t[i] = s[i + 1]
  <2>1. s \in Seq(AnyLines) /\ s # <<>>
    BY <1>3, <1>4
  <2> HIDE DEF s
  <2>2. /\ Tail(s) \in Seq(AnyLines)
        /\ Len(Tail(s)) = Len(s) - 1
        /\ \A i \in 1..Len(Tail(s)) : Tail(s)[i] = s[i + 1]
    BY <2>1, HeadTailProperties, Zenon
  <2> QED
    BY <2>2
<1>6. F \subseteq 1..Len(w) /\ \A n \in F : w[n] # Blank
  <2> HIDE DEF w
  <2>1. DOMAIN w = 1..Len(w)
    BY <1>1
  <2> QED
    BY <2>1 DEF Filled
<1> HIDE DEF w, h, b
<1>7. 1..(h + 1) \subseteq F
  <2> SUFFICES ASSUME NEW n \in 1..(h + 1) PROVE n \in F
    OBVIOUS
  <2>1. n \in 1..Len(w)
    BY <1>1
  <2>2. w[n] # Blank
    <3>1. CASE n = 1
      BY <1>1, <3>1
    <3>2. CASE n # 1
      <4>1. PICK i \in 1..h : n = i + 1
        <5>1. n - 1 \in 1..h /\ n = (n - 1) + 1
          BY <1>1, <3>2
        <5> QED
          BY <5>1
      <4>2. w[i + 1] = r.head[i] /\ r.head[i] # Blank
        BY <1>1, <1>2
      <4> QED
        BY <4>1, <4>2
    <3> QED
      BY <3>1, <3>2
  <2> QED
    BY <1>1, <2>1, <2>2 DEF Filled
<1>8. ASSUME NEW n \in 0..(h + 1) PROVE Rank(F, n) = n
  <2>1. F \cap 1..n = 1..n
    BY <1>1, <1>7
  <2> HIDE DEF F
  <2>2. Cardinality(1..n) = n
    BY <1>1, FS_Interval
  <2> QED
    BY <2>1, <2>2 DEF Rank
<1> HIDE DEF F, s, t
<1>9. h <= Len(t)
  <2>1. h + 1 \in F /\ h + 1 <= Len(w) /\ Rank(F, h + 1) = h + 1
    BY <1>1, <1>7, <1>8
  <2>2. h + 1 \in 1..Len(s)
    BY <1>3, <2>1 DEF Holds
  <2>3. Len(s) \in Nat
    BY <1>3
  <2> QED
    BY <1>1, <1>5, <2>2, <2>3
<1>10. ASSUME NEW i \in 1..h PROVE t[i] = r.head[i]
  <2>1. i + 1 \in F /\ i + 1 <= Len(w) /\ Rank(F, i + 1) = i + 1
    BY <1>1, <1>7, <1>8
  <2>2. s[i + 1] = w[i + 1]
    BY <1>3, <2>1 DEF Holds
  <2>3. i \in 1..Len(t)
    BY <1>1, <1>5, <1>9
  <2> QED
    BY <1>1, <1>5, <2>2, <2>3
<1>11. ASSUME NEW j \in 1..Len(t), j > h PROVE \E i \in 1..b : t[j] = r.body[i]
  <2>1. j + 1 \in 1..Len(s) /\ t[j] = s[j + 1]
    BY <1>3, <1>5
  <2>2. PICK n \in F : n <= Len(w) /\ Rank(F, n) = j + 1
    BY <1>3, <2>1 DEF Holds
  <2>3. n \in 1..Len(w) /\ w[n] # Blank
    BY <1>6
  <2>4. ~(n <= h + 1)
    <3> SUFFICES ASSUME n <= h + 1 PROVE FALSE
      OBVIOUS
    <3>1. n \in 0..(h + 1)
      BY <1>1, <2>3
    <3>2. n = j + 1
      BY <1>8, <2>2, <3>1
    <3> QED
      BY <1>1, <1>11, <3>2
  <2>5. n # h + 2
    BY <1>1, <2>3
  <2> DEFINE i == n - (h + 2)
  <2>6. i \in 1..b /\ h + 2 + i = n
    BY <1>1, <2>3, <2>4, <2>5
  <2>7. s[j + 1] = w[n]
    BY <1>3, <2>2 DEF Holds
  <2> HIDE DEF i
  <2>8. w[n] = r.body[i]
    BY <1>1, <2>6
  <2> QED
    BY <2>1, <2>6, <2>7, <2>8
<1> QED
  BY <1>5, <1>9, <1>10, <1>11 DEF HeadThenBody, h, b, t, s, w

-----------------------------------------------------------------------------
(* The headers that are stored: those of the head there is room for. *)

FitsIn(head, i) == i \in Fields(head) /\ Rank(Fields(head), i) <= MAX_HEADERS

LEMMA FitsIs ==
    ASSUME NEW head \in Seq(AnyLines), NEW i \in DOMAIN head
    PROVE  /\ head[i].key # "text"
           /\ Cardinality({j \in 1..i : head[j].key # "text"}) <= MAX_HEADERS
           <=> FitsIn(head, i)
<1> DEFINE J == {j \in 1..i : head[j].key # "text"}
<1>1. DOMAIN head = 1..Len(head) /\ i \in 1..Len(head)
  OBVIOUS
<1>2. J = Fields(head) \cap 1..i
  BY <1>1 DEF Fields
<1> HIDE DEF J
<1>3. Cardinality(J) = Rank(Fields(head), i)
  BY <1>2 DEF Rank
<1>4. i \in Fields(head) <=> head[i].key # "text"
  BY <1>1 DEF Fields
<1> QED
  BY <1>3, <1>4 DEF FitsIn, J

(* Each of the headers is a line of the head that fits, at its rank, and   *)
(* every line that fits is there.                                          *)
HeadersOf(s, head) ==
    /\ s \in Seq(AnyLines)
    /\ \A k \in 1..Len(s) : \E i \in DOMAIN head :
          FitsIn(head, i) /\ Rank(Fields(head), i) = k /\ s[k] = head[i]
    /\ \A i \in DOMAIN head : FitsIn(head, i) =>
          Rank(Fields(head), i) \in 1..Len(s) /\ s[Rank(Fields(head), i)] = head[i]

LEMMA HeadersAre ==
    ASSUME NEW t, NEW r \in Requests, HeadThenBody(t, r),
           \A i \in DOMAIN r.body : r.body[i].key = "text"
    PROVE  HeadersOf(Headers(t), r.head)
<1> DEFINE head == r.head
           P == Fields(t)
           all == Picked(t, P)
           M == IF Len(all) < MAX_HEADERS THEN Len(all) ELSE MAX_HEADERS
           s == SubSeq(all, 1, M)
<1>1. head \in Seq(AnyLines) /\ r.body \in Seq(AnyLines) /\ t \in Seq(AnyLines)
  BY RequestIs DEF HeadThenBody
<1>2. DOMAIN head = 1..Len(head) /\ DOMAIN t = 1..Len(t) /\ DOMAIN r.body = 1..Len(r.body)
      /\ Len(head) \in Nat /\ Len(t) \in Nat
  BY <1>1
<1>3. /\ Len(head) <= Len(t)
      /\ \A i \in 1..Len(head) : t[i] = head[i]
      /\ \A j \in 1..Len(t) : j > Len(head) => t[j].key = "text"
  BY <1>2 DEF HeadThenBody
<1> HIDE DEF head
<1>4. P = Fields(head)
  BY <1>2, <1>3 DEF Fields
<1>5. P \in SUBSET (DOMAIN t) /\ P \subseteq 1..Len(head)
  BY <1>2, <1>4 DEF Fields
<1> HIDE DEF P
<1>6. all \in Seq(AnyLines) /\ Holds(all, t, P, Len(t))
  BY <1>1, <1>5, PickedHolds
<1> HIDE DEF all
<1>7. Len(all) \in Nat /\ M \in Nat /\ M <= Len(all) /\ M <= MAX_HEADERS
      /\ \A k \in 1..Len(all) : k <= MAX_HEADERS => k <= M
  BY <1>6, MaxHeadersAssumption
<1>8. Headers(t) = s
  BY DEF Headers, all, P
<1> HIDE DEF M
<1>9. s \in Seq(AnyLines) /\ Len(s) = M /\ \A k \in 1..M : s[k] = all[k]
  BY <1>6, <1>7
<1> HIDE DEF s
<1>10. ASSUME NEW i \in P
       PROVE  Rank(P, i) \in 1..Len(all) /\ all[Rank(P, i)] = head[i]
  <2>1. i \in 1..Len(head) /\ i <= Len(t) /\ t[i] = head[i]
    BY <1>2, <1>3, <1>5
  <2> QED
    BY <1>6, <2>1 DEF Holds
<1>11. ASSUME NEW k \in 1..Len(s)
       PROVE  \E i \in DOMAIN head : FitsIn(head, i) /\ Rank(Fields(head), i) = k /\ s[k] = head[i]
  <2>1. k \in 1..Len(all) /\ k <= MAX_HEADERS /\ s[k] = all[k]
    BY <1>7, <1>9, MaxHeadersAssumption
  <2>2. PICK i \in P : Rank(P, i) = k
    BY <1>6, <2>1 DEF Holds
  <2>3. i \in DOMAIN head
    BY <1>2, <1>5
  <2> QED
    BY <1>4, <1>10, <2>1, <2>2, <2>3 DEF FitsIn
<1>12. ASSUME NEW i \in DOMAIN head, FitsIn(head, i)
       PROVE  Rank(Fields(head), i) \in 1..Len(s) /\ s[Rank(Fields(head), i)] = head[i]
  <2>1. i \in P /\ Rank(P, i) <= MAX_HEADERS
    BY <1>4, <1>12 DEF FitsIn
  <2>2. Rank(P, i) \in 1..Len(all) /\ all[Rank(P, i)] = head[i]
    BY <1>10, <2>1
  <2>3. Rank(P, i) \in 1..M
    BY <1>7, <2>1, <2>2
  <2> QED
    BY <1>4, <1>9, <2>2, <2>3
<1> QED
  BY <1>8, <1>9, <1>11, <1>12 DEF HeadersOf, head

(* A key that is looked for is found exactly if a header has it, and the   *)
(* value is that of the last of these.                                     *)
LEMMA FoundIs ==
    ASSUME NEW s \in Seq(AnyLines), NEW key
    PROVE  /\ Named(s, key) = <<>> <=> \A k \in DOMAIN s : s[k].key # key
           /\ Named(s, key) # <<>> =>
                 \E k \in DOMAIN s :
                    /\ s[k].key = key
                    /\ \A j \in DOMAIN s : s[j].key = key => j <= k
                    /\ Found(s, key) = s[k].value
<1> DEFINE P == {n \in DOMAIN s : s[n].key = key}
           named == Picked(s, P)
<1>1. Named(s, key) = named
  BY DEF Named
<1>2. P \in SUBSET (DOMAIN s) /\ DOMAIN s = 1..Len(s) /\ Len(s) \in Nat
  OBVIOUS
<1>3. \A k \in DOMAIN s : s[k].key = key <=> k \in P
  OBVIOUS
<1> HIDE DEF P
<1>4. named \in Seq(AnyLines) /\ Holds(named, s, P, Len(s))
  BY <1>2, PickedHolds
<1> HIDE DEF named
<1>5. ASSUME NEW k \in P PROVE Rank(P, k) \in 1..Len(named) /\ k \in Nat /\ k <= Len(s)
  BY <1>2, <1>4 DEF Holds
<1>6. named = <<>> <=> P = {}
  <2>1. ASSUME NEW k \in P PROVE named # <<>>
    BY <1>5
  <2>2. ASSUME P = {} PROVE named = <<>>
    <3>0. \A k \in 1..Len(named) : \E n \in P : Rank(P, n) = k
      BY <1>4 DEF Holds
    <3>1. ~(1 \in 1..Len(named))
      BY <2>2, <3>0
    <3>2. Len(named) = 0
      BY <1>4, <3>1
    <3> QED
      BY <1>4, <3>2
  <2> QED
    BY <2>1, <2>2
<1>7. ASSUME named # <<>>
      PROVE  \E k \in DOMAIN s :
                /\ s[k].key = key
                /\ \A j \in DOMAIN s : s[j].key = key => j <= k
                /\ Found(s, key) = s[k].value
  <2>1. Len(named) \in 1..Len(named)
    BY <1>4, <1>7, EmptySeq
  <2>2. PICK k \in P : Rank(P, k) = Len(named)
    BY <1>4, <2>1 DEF Holds
  <2>3. named[Len(named)] = s[k]
    BY <1>4, <1>5, <2>2 DEF Holds
  <2>4. ASSUME NEW j \in P PROVE j <= k
    <3> SUFFICES ASSUME k < j PROVE FALSE
      BY <1>5
    <3>1. Rank(P, k) < Rank(P, j)
      BY <1>5, RankOrder
    <3> QED
      BY <1>5, <2>2, <3>1
  <2>5. Found(s, key) = s[k].value
    BY <1>1, <2>3 DEF Found, Last
  <2>6. k \in DOMAIN s /\ s[k].key = key
    BY <1>2, <1>3
  <2> QED
    BY <1>3, <2>4, <2>5, <2>6
<1> QED
  BY <1>1, <1>3, <1>6, <1>7

-----------------------------------------------------------------------------
(* The step and its invariants. *)

HttpTypeOK ==
    /\ block \in Seq(AnyLines)
    /\ request \in Requests \cup {NoRequest}
    /\ whole \in Nat
    /\ alone \in BOOLEAN

(* What is left of an old line is a line, or text. *)
LEMMA EndsAre ==
    ASSUME NEW line \in AnyLines
    PROVE  Ends(line) \subseteq AnyLines
<1>1. [line EXCEPT !.key = "other"] \in AnyLines
  BY DEF AnyLines
<1> QED
  BY <1>1, LinesAreAny DEF Ends

(* What an earlier read left is lines, too. *)
LEMMA StaleIs ==
    ASSUME HttpTypeOK, NEW stale \in Stale
    PROVE  stale \in Seq(AnyLines)
<1>1. block \in Seq(AnyLines) /\ Len(block) \in Nat
  BY DEF HttpTypeOK
<1>2. CASE stale = <<>>
  BY <1>2
<1>3. CASE stale # <<>>
  <2>1. PICK k \in DOMAIN block : \E end \in Ends(block[k]) :
                stale = <<end>> \o SubSeq(block, k + 1, Len(block))
    BY <1>3 DEF Stale
  <2>2. PICK end \in Ends(block[k]) : stale = <<end>> \o SubSeq(block, k + 1, Len(block))
    BY <2>1
  <2>3. block[k] \in AnyLines /\ k \in Nat
    BY <1>1
  <2>4. end \in AnyLines
    BY <2>2, <2>3, EndsAre
  <2> DEFINE rest == SubSeq(block, k + 1, Len(block))
             one == <<end>>
  <2>5. rest \in Seq(AnyLines)
    <3>1. \A i \in (k + 1)..Len(block) : block[i] \in AnyLines
      BY <1>1, <2>3
    <3>2. k + 1 \in Int /\ Len(block) \in Int
      BY <1>1, <2>3
    <3> QED
      BY <3>1, <3>2, SubSeqProperties, Zenon
  <2>6. one \in Seq(AnyLines)
    BY <2>4
  <2> HIDE DEF one, rest
  <2>7. one \o rest \in Seq(AnyLines)
    BY <2>5, <2>6, ConcatProperties
  <2> QED
    BY <2>2, <2>7 DEF one, rest
<1> QED
  BY <1>2, <1>3

(* The start of a line is a line, or text. *)
LEMMA BegunIs ==
    ASSUME NEW line \in AnyLines
    PROVE  Begun(line) \subseteq AnyLines
<1> DEFINE url == line.value
<1>1. url \in AnyUrls
  BY DEF AnyLines
<1>2. ASSUME NEW u \in AnyUrls PROVE [line EXCEPT !.value = u] \in AnyLines
  BY DEF AnyLines
<1> HIDE DEF url
<1>3. Shortened(url) \subseteq AnyUrls
  <2>1. [name |-> "cut", size |-> 1, port |-> <<>>] \in AnyUrls
    <3>1. <<>> \in Seq(Nat) /\ 1 \in Nat
      OBVIOUS
    <3> QED
      BY <3>1 DEF AnyUrls
  <2>2. ASSUME NEW p \in Seq(Nat) PROVE [url EXCEPT !.port = p] \in AnyUrls
    BY <1>1 DEF AnyUrls
  <2>3. <<0>> \in Seq(Nat)
    OBVIOUS
  <2>4. url.port \in Seq(Nat)
    BY <1>1 DEF AnyUrls
  <2>5. ASSUME NEW n \in 0..Len(url.port) PROVE SubSeq(url.port, 1, n) \in Seq(Nat)
    <3> DEFINE port == url.port
    <3>1. port \in Seq(Nat)
      BY <2>4
    <3> HIDE DEF port
    <3>2. n \in Int /\ 1 \in Int /\ \A i \in 1..n : port[i] \in Nat
      BY <2>5, <3>1 DEF port
    <3>3. SubSeq(port, 1, n) \in Seq(Nat)
      BY <3>2, SubSeqProperties, Zenon
    <3> QED
      BY <3>3 DEF port
  <2> QED
    BY <2>1, <2>2, <2>3, <2>5, LinesAreAny DEF Shortened
<1> QED
  BY <1>2, <1>3, LinesAreAny DEF Begun, url

(* A line that goes on with the rest of another is one. *)
LEMMA GluedIs ==
    ASSUME NEW line \in AnyLines, NEW end \in AnyLines
    PROVE  Glued(line, end) \subseteq AnyLines
<1> DEFINE u == line.value
           v == end.value
<1>1. u \in AnyUrls /\ v \in AnyUrls
  BY DEF AnyLines
<1>2. ASSUME NEW w \in AnyUrls PROVE [line EXCEPT !.value = w] \in AnyLines
  BY DEF AnyLines
<1> HIDE DEF u, v
<1>3. Mixed(u, v) \in AnyUrls
  <2>1. u.size \in Nat /\ u.port \in Seq(Nat) /\ v.port \in Seq(Nat)
    BY <1>1 DEF AnyUrls
  <2>2. [name |-> "mixed", size |-> u.size, port |-> v.port] \in AnyUrls
    BY <2>1 DEF AnyUrls
  <2> DEFINE p == u.port \o v.port
  <2>3. p \in Seq(Nat)
    BY <2>1, ConcatProperties
  <2> HIDE DEF p
  <2>4. [u EXCEPT !.port = p] \in AnyUrls
    BY <1>1, <2>3 DEF AnyUrls
  <2> QED
    BY <2>2, <2>4 DEF Mixed, p
<1> QED
  BY <1>1, <1>2, <1>3 DEF Glued, u, v

(* What the parser gets behind the whole lines of a read is lines. *)
LEMMA BehindIs ==
    ASSUME HttpTypeOK, NEW part \in Seq(AnyLines), NEW behind \in Behind(part)
    PROVE  behind \in Seq(AnyLines)
<1>1. CASE part = <<>>
  BY <1>1, StaleIs DEF Behind
<1>2. CASE part # <<>> /\ behind = part
  BY <1>2
<1>3. CASE part # <<>> /\ behind # part
  <2>1. PICK stale \in Stale \ {<<>>} : \E line \in Glued(part[1], stale[1]) :
                behind = <<line>> \o Tail(stale)
    BY <1>3 DEF Behind
  <2>2. PICK line \in Glued(part[1], stale[1]) : behind = <<line>> \o Tail(stale)
    BY <2>1
  <2>3. stale \in Seq(AnyLines) /\ stale # <<>>
    BY <2>1, StaleIs
  <2>4. part[1] \in AnyLines /\ stale[1] \in AnyLines
    BY <1>3, <2>3
  <2>5. line \in AnyLines
    BY <2>2, <2>4, GluedIs
  <2> DEFINE one == <<line>>
             rest == Tail(stale)
  <2>6. one \in Seq(AnyLines) /\ rest \in Seq(AnyLines)
    BY <2>3, <2>5
  <2> HIDE DEF one, rest
  <2>7. one \o rest \in Seq(AnyLines)
    BY <2>6, ConcatProperties
  <2> QED
    BY <2>2, <2>7 DEF one, rest
<1> QED
  BY <1>1, <1>2, <1>3

(* The lines given to the parser, and what becomes of them. *)
Reads(lines, r) ==
    /\ lines \in Seq(AnyLines)
    /\ whole' \in Nat
    /\ whole' >= 1 => Len(lines) >= 1 /\ lines[1] = RequestLine(r)
    /\ request' = r /\ r \in Requests
    /\ alone' = (lines = Wire(r))
    /\ block' \in Seq(AnyLines)
    /\ outcome' \in (IF strtok(lines) = <<>> THEN {Rejected}
                     ELSE Outcomes(parse_http_request(lines)))

LEMMA StepReads ==
    ASSUME HttpTypeOK, read_data_first
    PROVE  \E lines, r : Reads(lines, r)
<1> DEFINE Given(r, n, part, behind) ==
              /\ request' = r
              /\ whole' = n
              /\ block' = SubSeq(Wire(r), 1, n) \o part
              /\ alone' = (SubSeq(Wire(r), 1, n) \o behind = Wire(r))
              /\ outcome' \in (IF strtok(SubSeq(Wire(r), 1, n) \o behind) = <<>> THEN {Rejected}
                               ELSE Outcomes(parse_http_request(SubSeq(Wire(r), 1, n) \o behind)))
<1>e. \E r \in Requests : \E n \in 0..Len(Wire(r)) :
      \E part \in Parts(Wire(r), n) : \E behind \in Behind(part) : Given(r, n, part, behind)
  BY DEF read_data_first
<1> HIDE DEF Given
<1>r. PICK r \in Requests : \E n \in 0..Len(Wire(r)) :
         \E part \in Parts(Wire(r), n) : \E behind \in Behind(part) : Given(r, n, part, behind)
  BY <1>e
<1>n. PICK n \in 0..Len(Wire(r)) :
         \E part \in Parts(Wire(r), n) : \E behind \in Behind(part) : Given(r, n, part, behind)
  BY <1>r
<1>t. PICK part \in Parts(Wire(r), n) : \E behind \in Behind(part) : Given(r, n, part, behind)
  BY <1>n
<1>1. PICK behind \in Behind(part) : Given(r, n, part, behind)
  BY <1>t
<1> DEFINE w == Wire(r)
           first == SubSeq(w, 1, n)
           lines == first \o behind
<1>2. w \in Seq(AnyLines) /\ Len(w) \in Nat /\ w[1] = RequestLine(r)
  <2>1. w \in Seq(AnyLines) /\ w[1] = RequestLine(r)
    BY WireIs
  <2> HIDE DEF w
  <2> QED
    BY <2>1
<1>p. part \in {<<>>} \cup (IF n = Len(w) THEN {} ELSE {<<line>> : line \in Begun(w[n + 1])})
  BY DEF Parts
<1>b. n \in 0..Len(w)
  OBVIOUS
<1> HIDE DEF w
<1>3. n \in Nat /\ n <= Len(w)
  BY <1>2, <1>b
<1>4. first \in Seq(AnyLines) /\ Len(first) = n /\ (n >= 1 => first[1] = w[1])
  BY <1>2, <1>3
<1>5. part \in Seq(AnyLines)
  <2>1. CASE part = <<>>
    BY <2>1
  <2>2. CASE part # <<>>
    <3>1. n # Len(w)
      BY <1>p, <2>2
    <3>2. PICK line \in Begun(w[n + 1]) : part = <<line>>
      BY <1>p, <2>2
    <3>3. w[n + 1] \in AnyLines
      BY <1>2, <1>3, <3>1
    <3>4. line \in AnyLines
      BY <3>2, <3>3, BegunIs
    <3> QED
      BY <3>2, <3>4
  <2> QED
    BY <2>1, <2>2
<1>6. behind \in Seq(AnyLines)
  BY <1>5, BehindIs
<1> HIDE DEF first
<1>7. first \o part \in Seq(AnyLines)
  BY <1>4, <1>5, ConcatProperties
<1>8. /\ lines \in Seq(AnyLines)
      /\ n >= 1 => Len(lines) >= 1 /\ lines[1] = RequestLine(r)
  <2>1. /\ lines \in Seq(AnyLines)
        /\ Len(lines) = Len(first) + Len(behind)
        /\ \A i \in 1..(Len(first) + Len(behind)) :
               lines[i] = IF i <= Len(first) THEN first[i] ELSE behind[i - Len(first)]
    BY <1>4, <1>6, ConcatProperties
  <2> HIDE DEF lines
  <2>2. Len(behind) \in Nat
    BY <1>6
  <2> QED
    BY <1>2, <1>3, <1>4, <2>1, <2>2
<1>9. Reads(lines, r)
  BY <1>1, <1>3, <1>7, <1>8 DEF Given, Reads, w, first
<1> QED
  BY <1>9

LEMMA HttpStart == HttpInit => HttpTypeOK
<1> SUFFICES ASSUME HttpInit PROVE HttpTypeOK
  OBVIOUS
<1>1. block = <<>> /\ alone = FALSE /\ request = NoRequest /\ whole = 0
  BY DEF HttpInit
<1>2. <<>> \in Seq(AnyLines)
  OBVIOUS
<1> QED
  BY <1>1, <1>2 DEF HttpTypeOK

LEMMA HttpTypeStep == HttpTypeOK /\ [HttpNext]_httpVars => HttpTypeOK'
<1> SUFFICES ASSUME HttpTypeOK, [HttpNext]_httpVars PROVE HttpTypeOK'
  OBVIOUS
<1>1. CASE read_data_first
  <2>1. PICK lines, r : Reads(lines, r)
    BY <1>1, StepReads
  <2> QED
    BY <2>1 DEF Reads, HttpTypeOK
<1>2. CASE alloc_buffer
  BY <1>2 DEF alloc_buffer, HttpTypeOK
<1>3. CASE UNCHANGED httpVars
  BY <1>3 DEF httpVars, HttpTypeOK
<1> QED
  BY <1>1, <1>2, <1>3 DEF HttpNext

-----------------------------------------------------------------------------
(* A tunnel.  Whatever follows the first line, a read of a CONNECT request *)
(* looks up the address of its URL.                                        *)
LEMMA TunnelStep ==
    ASSUME NEW lines, NEW r, Reads(lines, r), whole' >= 1, r.method = "CONNECT"
    PROVE  outcome' = Target("PROXY_HTTPS", parseURL(Scanned(r.url)))
<1> DEFINE line == RequestLine(r)
<1>1. line.key = "CONNECT" /\ line.value = r.url
  BY RequestIs DEF Reads
<1>2. line # Blank
  <2>1. Blank.key = ""
    BY DEF Blank
  <2> HIDE DEF line
  <2> QED
    BY <1>1, <2>1
<1> HIDE DEF line
<1>3. strtok(lines) # <<>> /\ Head(strtok(lines)) = line
  BY <1>2, FirstLine DEF Reads, line
<1> DEFINE req == parse_http_request(lines)
<1>4. req.method = "CONNECT" /\ req.url = Scanned(r.url)
  BY <1>1, <1>3 DEF parse_http_request
<1> HIDE DEF req
<1>5. outcome' \in Outcomes(req)
  BY <1>3 DEF Reads, req
<1> QED
  BY <1>4, <1>5 DEF Outcomes

LEMMA TunnelUrl ==
    ASSUME NEW url \in Urls, url.name # "[v6]"
    PROVE  /\ parseURL(Scanned(url)).name = url.name
           /\ url.size + 1 + Len(url.port) <= UrlSize =>
                 parseURL(Scanned(url)).port = IF url.port = <<>> THEN Port80 ELSE url.port
<1>1. url.size \in Nat /\ url.port \in Seq(Nat) /\ Len(url.port) \in Nat /\ UrlSize \in Nat
  <2>1. UrlSize \in Nat
    BY DEF UrlSize
  <2>2. url.size \in 0..UrlSize /\ url.port \in Seq(Nat)
    BY DEF Urls
  <2> QED
    BY <2>1, <2>2
<1>2. \E p : Scanned(url) = [url EXCEPT !.port = p]
  BY DEF Scanned
<1>3. ASSUME url.size + 1 + Len(url.port) <= UrlSize PROVE Scanned(url) = url
  <2>1. Len(url.port) <= UrlSize - url.size - 1
    BY <1>1, <1>3
  <2>2. Digits(url.port, UrlSize - url.size - 1) = url.port
    BY <2>1 DEF Digits
  <2>3. Scanned(url) = [url EXCEPT !.port = url.port]
    BY <2>2 DEF Scanned
  <2> QED
    BY <2>3 DEF Urls
<1>4. \A p, q : /\ [url EXCEPT !.port = p].name = url.name
                /\ [[url EXCEPT !.port = p] EXCEPT !.port = q].name = url.name
                /\ [url EXCEPT !.port = p].port = p
  BY DEF Urls
<1>5. parseURL(Scanned(url)).name = url.name
  <2>1. PICK p : Scanned(url) = [url EXCEPT !.port = p]
    BY <1>2
  <2> QED
    BY <1>4, <2>1 DEF parseURL
<1>6. parseURL(url).port = IF url.port = <<>> THEN Port80 ELSE url.port
  BY <1>4 DEF parseURL
<1> QED
  BY <1>3, <1>5, <1>6

(* Every variable keeps its type: what lies in the heap is lines of        *)
(* requests.                                                               *)
THEOREM HttpTyped == HttpSpec => []HttpTypeOK
BY HttpStart, HttpTypeStep, PTL DEF HttpSpec

(* Once its request line is read to the end, a tunnel goes where that line *)
(* says, wherever behind it the read ends, and whatever headers, body and  *)
(* leftovers say.                                                          *)
THEOREM TunnelAlwaysGoesWhereNamed == HttpSpec => []TunnelGoesWhereNamed
<1>1. HttpInit => TunnelGoesWhereNamed
  BY DEF HttpInit, TunnelGoesWhereNamed
<1>2. ASSUME HttpTypeOK, TunnelGoesWhereNamed, [HttpNext]_httpVars
      PROVE  TunnelGoesWhereNamed'
  <2>1. CASE read_data_first
    <3>1. PICK lines, r : Reads(lines, r)
      BY <1>2, <2>1, StepReads
    <3> SUFFICES ASSUME r.method = "CONNECT", r.url.name # "[v6]", whole' >= 1
                 PROVE  TunnelGoesWhereNamed'
      BY <3>1 DEF TunnelGoesWhereNamed, Connects, Reads
    <3> DEFINE target == parseURL(Scanned(r.url))
    <3>2. outcome' = Target("PROXY_HTTPS", target)
      BY <3>1, TunnelStep
    <3>3. /\ target.name = r.url.name
          /\ r.url.size + 1 + Len(r.url.port) <= UrlSize =>
                target.port = IF r.url.port = <<>> THEN Port80 ELSE r.url.port
      BY <3>1, RequestIs, TunnelUrl DEF Reads
    <3> HIDE DEF target
    <3>4. /\ outcome'.kind = "lookup" /\ outcome'.mode = "PROXY_HTTPS"
          /\ outcome'.host = target.name /\ outcome'.port = target.port
      BY <3>2 DEF Target
    <3> QED
      BY <3>1, <3>3, <3>4 DEF TunnelGoesWhereNamed, Reads
  <2>2. CASE alloc_buffer
    BY <2>2 DEF alloc_buffer, TunnelGoesWhereNamed
  <2>3. CASE UNCHANGED httpVars
    BY <1>2, <2>3 DEF httpVars, TunnelGoesWhereNamed, Connects
  <2> QED
    BY <1>2, <2>1, <2>2, <2>3 DEF HttpNext
<1> QED
  BY <1>1, <1>2, HttpTyped, PTL DEF HttpSpec

(* What the parser finds in a request that is alone in memory: its method, *)
(* and the headers of its head.                                            *)
LEMMA PlainParse ==
    ASSUME NEW r \in Requests, RequestLine(r) # Blank,
           \A i \in DOMAIN r.body : r.body[i].key = "text"
    PROVE  /\ strtok(Wire(r)) # <<>>
           /\ parse_http_request(Wire(r)).method = r.method
           /\ HeadersOf(parse_http_request(Wire(r)).headers, r.head)
<1> DEFINE w == Wire(r)
<1>1. w \in Seq(AnyLines) /\ Len(w) >= 1 /\ w[1] = RequestLine(r)
  <2> DEFINE a == Len(r.head)
             b == Len(r.body)
  <2>1. a \in Nat /\ b \in Nat
    BY RequestIs
  <2>2. w \in Seq(AnyLines) /\ Len(w) = a + 2 + b /\ w[1] = RequestLine(r)
    BY WireIs
  <2> HIDE DEF w, a, b
  <2> QED
    BY <2>1, <2>2
<1>2. HeadThenBody(Tail(strtok(w)), r)
  BY AfterFirstLine
<1> HIDE DEF w
<1>3. strtok(w) # <<>> /\ Head(strtok(w)) = RequestLine(r)
  BY <1>1, FirstLine
<1>4. HeadersOf(Headers(Tail(strtok(w))), r.head)
  BY <1>2, HeadersAre
<1> DEFINE req == parse_http_request(w)
<1>5. req.method = RequestLine(r).key /\ req.headers = Headers(Tail(strtok(w)))
  BY <1>3 DEF parse_http_request
<1> QED
  BY <1>3, <1>4, <1>5, RequestIs DEF w

(* A key is found among the headers exactly if a line of the head that     *)
(* fits has it, and the value found is that of the last of these.          *)
LEMMA FoundInHead ==
    ASSUME NEW head \in Seq(AnyLines), NEW s, HeadersOf(s, head), NEW key
    PROVE  /\ (\E i \in DOMAIN head : FitsIn(head, i) /\ head[i].key = key) <=> Named(s, key) # <<>>
           /\ Named(s, key) # <<>> =>
                 \E i \in DOMAIN head :
                    /\ FitsIn(head, i) /\ head[i].key = key
                    /\ \A j \in DOMAIN head : FitsIn(head, j) /\ head[j].key = key => j <= i
                    /\ Found(s, key) = head[i].value
<1> DEFINE P == Fields(head)
<1>1. s \in Seq(AnyLines) /\ DOMAIN s = 1..Len(s) /\ DOMAIN head = 1..Len(head) /\ Len(head) \in Nat
  BY DEF HeadersOf
<1>2. \A k \in 1..Len(s) : \E i \in DOMAIN head :
          FitsIn(head, i) /\ Rank(P, i) = k /\ s[k] = head[i]
  BY DEF HeadersOf
<1>3. \A i \in DOMAIN head : FitsIn(head, i) =>
          Rank(P, i) \in 1..Len(s) /\ s[Rank(P, i)] = head[i]
  BY DEF HeadersOf
<1>4. \A i \in DOMAIN head : FitsIn(head, i) => i \in P
  BY DEF FitsIn
<1> HIDE DEF P
<1>5. (\E i \in DOMAIN head : FitsIn(head, i) /\ head[i].key = key) <=> Named(s, key) # <<>>
  <2>1. Named(s, key) # <<>> <=> \E k \in 1..Len(s) : s[k].key = key
    BY <1>1, FoundIs
  <2> QED
    BY <1>2, <1>3, <2>1
<1>6. ASSUME Named(s, key) # <<>>
      PROVE  \E i \in DOMAIN head :
                /\ FitsIn(head, i) /\ head[i].key = key
                /\ \A j \in DOMAIN head : FitsIn(head, j) /\ head[j].key = key => j <= i
                /\ Found(s, key) = head[i].value
  <2>1. PICK k \in DOMAIN s :
            /\ s[k].key = key
            /\ \A j \in DOMAIN s : s[j].key = key => j <= k
            /\ Found(s, key) = s[k].value
    BY <1>1, <1>6, FoundIs
  <2>2. PICK i \in DOMAIN head : FitsIn(head, i) /\ Rank(P, i) = k /\ s[k] = head[i]
    BY <1>1, <1>2
  <2>3. ASSUME NEW j \in DOMAIN head, FitsIn(head, j), head[j].key = key PROVE j <= i
    <3>1. Rank(P, j) \in DOMAIN s /\ s[Rank(P, j)].key = key
      BY <1>1, <1>3, <2>3
    <3>2. Rank(P, j) <= Rank(P, i)
      BY <2>1, <2>2, <3>1
    <3>3. i \in Nat /\ j \in Nat /\ j \in P
      BY <1>1, <1>4, <2>3
    <3>4. i < j => Rank(P, i) < Rank(P, j)
      BY <3>3, RankOrder
    <3>5. Rank(P, i) \in Nat /\ Rank(P, j) \in Nat
      BY <3>3, RankSteps
    <3> QED
      BY <3>2, <3>3, <3>4, <3>5
  <2> QED
    BY <2>1, <2>2, <2>3
<1> QED
  BY <1>5, <1>6

(* A request that is nothing but the end of lines has nothing to serve.    *)
LEMMA EmptyRequest ==
    ASSUME NEW r \in Requests, RequestLine(r) = Blank
    PROVE  strtok(Wire(r)) = <<>> /\ r.head = <<>>
<1> DEFINE w == Wire(r)
<1>1. r.head = <<>> /\ r.body = <<>>
  BY RequestsAssumption
<1>2. w \in Seq(AnyLines) /\ Len(w) = 2 /\ w[1] = Blank /\ w[2] = Blank
  <2>1. Len(r.head) = 0 /\ Len(r.body) = 0
    BY <1>1
  <2> HIDE DEF w
  <2>2. /\ w \in Seq(AnyLines)
        /\ Len(w) = Len(r.head) + 2 + Len(r.body)
        /\ w[1] = RequestLine(r)
        /\ w[Len(r.head) + 2] = Blank
    BY WireIs DEF w
  <2> QED
    BY <2>1, <2>2
<1> HIDE DEF w
<1>3. Filled(w) = {}
  <2>1. DOMAIN w = {1, 2}
    BY <1>2
  <2> QED
    BY <1>2, <2>1 DEF Filled
<1>4. strtok(w) \in Seq(AnyLines) /\ \A k \in 1..Len(strtok(w)) : \E n \in Filled(w) : TRUE
  BY <1>2, StrtokHolds DEF Holds
<1>5. ~(1 \in 1..Len(strtok(w)))
  BY <1>3, <1>4
<1>6. strtok(w) = <<>>
  BY <1>4, <1>5, EmptySeq
<1> QED
  BY <1>1, <1>6 DEF w

(* What a read makes of a request that is plainly what it says.            *)
LEMMA PlainStep ==
    ASSUME NEW lines, NEW r, Reads(lines, r), alone',
           \A i \in DOMAIN r.body : r.body[i].key = "text"
    PROVE  \/ /\ RequestLine(r) = Blank /\ r.head = <<>>
              /\ outcome' = Rejected
           \/ \E s : /\ HeadersOf(s, r.head)
                     /\ r.method # "CONNECT" =>
                           /\ Named(s, "Proxy-Connection") = <<>> => outcome' = Rejected
                           /\ Named(s, "Proxy-Connection") # <<>> /\ Named(s, "Host") = <<>> =>
                                 outcome'.kind \in {"rejected", "garbage"}
                           /\ Named(s, "Proxy-Connection") # <<>> /\ Named(s, "Host") # <<>> =>
                                 outcome' = Target("PROXY_HTTP", parseURL(Found(s, "Host")))
                     /\ r.method = "CONNECT" =>
                           \E url : outcome' = Target("PROXY_HTTPS", url)
<1>1. lines = Wire(r) /\ r \in Requests
  BY DEF Reads
<1>2. CASE RequestLine(r) = Blank
  <2>1. strtok(lines) = <<>> /\ r.head = <<>>
    BY <1>1, <1>2, EmptyRequest
  <2> QED
    BY <1>2, <2>1 DEF Reads
<1>3. CASE RequestLine(r) # Blank
  <2> DEFINE req == parse_http_request(Wire(r))
             s == req.headers
  <2>1. strtok(lines) # <<>> /\ req.method = r.method /\ HeadersOf(s, r.head)
    BY <1>1, <1>3, PlainParse
  <2>2. outcome' \in Outcomes(req)
    BY <1>1, <2>1 DEF Reads
  <2> HIDE DEF req
  <2>3. r.method = "CONNECT" => outcome' = Target("PROXY_HTTPS", parseURL(req.url))
    BY <2>1, <2>2 DEF Outcomes
  <2>4. ASSUME r.method # "CONNECT"
        PROVE  /\ Named(s, "Proxy-Connection") = <<>> => outcome' = Rejected
               /\ Named(s, "Proxy-Connection") # <<>> /\ Named(s, "Host") = <<>> =>
                     outcome'.kind \in {"rejected", "garbage"}
               /\ Named(s, "Proxy-Connection") # <<>> /\ Named(s, "Host") # <<>> =>
                     outcome' = Target("PROXY_HTTP", parseURL(Found(s, "Host")))
    <3>1. Rejected.kind = "rejected"
          /\ [Rejected EXCEPT !.kind = "garbage", !.mode = "PROXY_HTTP"].kind = "garbage"
      BY DEF Rejected
    <3> QED
      BY <2>1, <2>2, <2>4, <3>1 DEF Outcomes
  <2> QED
    BY <2>1, <2>3, <2>4
<1> QED
  BY <1>2, <1>3

LEMMA TargetIs ==
    ASSUME NEW mode, NEW url
    PROVE  /\ Target(mode, url).kind = "lookup"
           /\ Target(mode, url).mode = mode
           /\ Target(mode, url).host = url.name
           /\ Target(mode, url).port = url.port
BY DEF Target

(* A plain request is let through only with a Proxy-Connection header of   *)
(* its own, is looked up exactly if it names a host, and goes to that of   *)
(* the last Host header there is room for, however long its head is.       *)
THEOREM HostAlwaysFromHead == HttpSpec => []HostFromHead
<1>1. HttpInit => HostFromHead
  BY DEF HttpInit, HostFromHead, Plainly
<1>2. ASSUME HttpTypeOK, HostFromHead, [HttpNext]_httpVars
      PROVE  HostFromHead'
  <2>1. CASE read_data_first
    <3>1. PICK lines, r : Reads(lines, r)
      BY <1>2, <2>1, StepReads
    <3> DEFINE head == r.head
    <3>2. request' = r /\ r \in Requests /\ head \in Seq(AnyLines)
      BY <3>1, RequestIs DEF Reads
    <3> SUFFICES ASSUME alone', \A i \in DOMAIN r.body : r.body[i].key = "text",
                        outcome'.mode = "PROXY_HTTP"
                 PROVE  /\ Has("Proxy-Connection")'
                        /\ outcome'.kind = "lookup" <=> Has("Host")'
                        /\ Has("Host")' =>
                           \E i \in DOMAIN head :
                              /\ LastHost(i)'
                              /\ head[i].value.name # "[v6]" =>
                                    /\ outcome'.host = head[i].value.name
                                    /\ outcome'.port = (IF head[i].value.port = <<>> THEN Port80
                                                        ELSE head[i].value.port)
      BY <3>2 DEF HostFromHead, Plainly
    <3>3. outcome' # Rejected
      BY DEF Rejected
    <3>4. PICK s : /\ HeadersOf(s, head)
                   /\ r.method # "CONNECT" =>
                         /\ Named(s, "Proxy-Connection") = <<>> => outcome' = Rejected
                         /\ Named(s, "Proxy-Connection") # <<>> /\ Named(s, "Host") = <<>> =>
                               outcome'.kind \in {"rejected", "garbage"}
                         /\ Named(s, "Proxy-Connection") # <<>> /\ Named(s, "Host") # <<>> =>
                               outcome' = Target("PROXY_HTTP", parseURL(Found(s, "Host")))
                   /\ r.method = "CONNECT" => \E url : outcome' = Target("PROXY_HTTPS", url)
      BY <3>1, <3>3, PlainStep
    <3>5. r.method # "CONNECT"
      BY <3>4, TargetIs
    <3>6. /\ Named(s, "Proxy-Connection") # <<>>
          /\ Named(s, "Host") = <<>> => outcome'.kind # "lookup"
          /\ Named(s, "Host") # <<>> => outcome' = Target("PROXY_HTTP", parseURL(Found(s, "Host")))
      BY <3>3, <3>4, <3>5
    <3> HIDE DEF head
    <3>7. ASSUME NEW i \in DOMAIN head PROVE Fits(i)' <=> FitsIn(head, i)
      <4>1. request'.head = head
        BY <3>2 DEF head
      <4>2. Fits(i)' <=> /\ head[i].key # "text"
                         /\ Cardinality({j \in 1..i : head[j].key # "text"}) <= MAX_HEADERS
        BY <4>1 DEF Fits
      <4> QED
        BY <3>2, <4>2, FitsIs
    <3>a. ASSUME NEW key PROVE Has(key)' <=> Named(s, key) # <<>>
      <4>1. (\E i \in DOMAIN head : FitsIn(head, i) /\ head[i].key = key) <=> Named(s, key) # <<>>
        BY <3>2, <3>4, FoundInHead
      <4> QED
        BY <3>2, <3>7, <4>1 DEF Has, head
    <3>8. Has("Proxy-Connection")' /\ (outcome'.kind = "lookup" <=> Has("Host")')
      BY <3>6, <3>a, TargetIs
    <3> SUFFICES ASSUME Named(s, "Host") # <<>>
                 PROVE  \E i \in DOMAIN head :
                              /\ LastHost(i)'
                              /\ head[i].value.name # "[v6]" =>
                                    /\ outcome'.host = head[i].value.name
                                    /\ outcome'.port = (IF head[i].value.port = <<>> THEN Port80
                                                        ELSE head[i].value.port)
      BY <3>8, <3>a
    <3>9. PICK i \in DOMAIN head :
              /\ FitsIn(head, i) /\ head[i].key = "Host"
              /\ \A j \in DOMAIN head : FitsIn(head, j) /\ head[j].key = "Host" => j <= i
              /\ Found(s, "Host") = head[i].value
      BY <3>2, <3>4, <3>6, FoundInHead
    <3>10. LastHost(i)'
      BY <3>2, <3>7, <3>9 DEF LastHost, head
    <3> DEFINE value == head[i].value
    <3>11. outcome'.host = parseURL(value).name /\ outcome'.port = parseURL(value).port
      BY <3>6, <3>9, TargetIs
    <3>12. ASSUME value.name # "[v6]"
           PROVE  /\ outcome'.host = value.name
                  /\ outcome'.port = (IF value.port = <<>> THEN Port80 ELSE value.port)
      <4>1. value \in Urls
        <5>1. head \in Seq(Lines)
          BY <3>2, RequestIs DEF head
        <5>2. head[i] \in Lines
          BY <5>1
        <5> QED
          BY <5>2 DEF Lines
      <4> HIDE DEF value
      <4> QED
        BY <3>11, <3>12, <4>1 DEF parseURL, Urls
    <3> QED
      BY <3>10, <3>12
  <2>2. CASE alloc_buffer
    BY <2>2 DEF alloc_buffer, HostFromHead, Plainly
  <2>3. CASE UNCHANGED httpVars
    BY <1>2, <2>3 DEF httpVars, HostFromHead, Plainly, Has, Fits, LastHost
  <2> QED
    BY <1>2, <2>1, <2>2, <2>3 DEF HttpNext
<1> QED
  BY <1>1, <1>2, HttpTyped, PTL DEF HttpSpec

(* A request whose headers name both is not turned away, however long its  *)
(* head is.                                                                *)
THEOREM CompleteAlwaysServed == HttpSpec => []CompleteIsServed
<1>1. HttpInit => CompleteIsServed
  BY DEF HttpInit, CompleteIsServed, Plainly
<1>2. ASSUME HttpTypeOK, CompleteIsServed, [HttpNext]_httpVars
      PROVE  CompleteIsServed'
  <2>1. CASE read_data_first
    <3>1. PICK lines, r : Reads(lines, r)
      BY <1>2, <2>1, StepReads
    <3> DEFINE head == r.head
    <3>2. request' = r /\ r \in Requests /\ head \in Seq(AnyLines)
      BY <3>1, RequestIs DEF Reads
    <3> SUFFICES ASSUME alone', \A i \in DOMAIN r.body : r.body[i].key = "text",
                        Has("Host")', Has("Proxy-Connection")'
                 PROVE  outcome'.kind = "lookup"
      BY <3>2 DEF CompleteIsServed, Plainly, Complete
    <3>3. ASSUME NEW key, Has(key)'
          PROVE  \E i \in DOMAIN head : FitsIn(head, i) /\ head[i].key = key
      <4>1. request'.head = head
        BY <3>2
      <4> HIDE DEF head
      <4>2. PICK i \in DOMAIN head : Fits(i)' /\ head[i].key = key
        BY <3>3, <4>1 DEF Has
      <4>3. /\ head[i].key # "text"
            /\ Cardinality({j \in 1..i : head[j].key # "text"}) <= MAX_HEADERS
        BY <4>1, <4>2 DEF Fits
      <4>4. FitsIn(head, i)
        BY <3>2, <4>3, FitsIs
      <4> QED
        BY <4>2, <4>4
    <3>4. r.head # <<>>
      <4>1. PICK i \in DOMAIN r.head : TRUE
        BY <3>3
      <4> QED
        BY <4>1
    <3>5. PICK s : /\ HeadersOf(s, head)
                   /\ r.method # "CONNECT" =>
                         /\ Named(s, "Proxy-Connection") = <<>> => outcome' = Rejected
                         /\ Named(s, "Proxy-Connection") # <<>> /\ Named(s, "Host") = <<>> =>
                               outcome'.kind \in {"rejected", "garbage"}
                         /\ Named(s, "Proxy-Connection") # <<>> /\ Named(s, "Host") # <<>> =>
                               outcome' = Target("PROXY_HTTP", parseURL(Found(s, "Host")))
                   /\ r.method = "CONNECT" => \E url : outcome' = Target("PROXY_HTTPS", url)
      BY <3>1, <3>4, PlainStep
    <3> HIDE DEF head
    <3>6. Named(s, "Proxy-Connection") # <<>> /\ Named(s, "Host") # <<>>
      BY <3>2, <3>3, <3>5, FoundInHead
    <3> QED
      BY <3>5, <3>6, TargetIs
  <2>2. CASE alloc_buffer
    BY <2>2 DEF alloc_buffer, CompleteIsServed, Plainly
  <2>3. CASE UNCHANGED httpVars
    BY <1>2, <2>3 DEF httpVars, CompleteIsServed, Plainly, Complete, Has, Fits
  <2> QED
    BY <1>2, <2>1, <2>2, <2>3 DEF HttpNext
<1> QED
  BY <1>1, <1>2, HttpTyped, PTL DEF HttpSpec

-----------------------------------------------------------------------------
(* FlattenSeq, part by part. *)

(* Where part k of seqs ends in what they make together. *)
Offsets(off, seqs) ==
    /\ off \in [0..Len(seqs) -> Nat]
    /\ off[0] = 0
    /\ \A k \in 1..Len(seqs) : off[k] = off[k - 1] + Len(seqs[k])

FlatSteps(f, V, seqs) ==
    /\ f \in [0..Len(seqs) -> Seq(V)]
    /\ f[0] = <<>>
    /\ \A k \in 1..Len(seqs) : f[k] = f[k - 1] \o seqs[k]
    /\ f[Len(seqs)] = FlattenSeq(seqs)

LEMMA FlatIs ==
    ASSUME NEW V, NEW seqs \in Seq(Seq(V)), seqs # <<>>
    PROVE  \E f : FlatSteps(f, V, seqs)
<1> DEFINE N == Len(seqs)
           step == [k \in 1..N |-> [s \in Seq(V) |-> s \o seqs[k]]]
           P(f) == f = [k \in 1..N |-> IF k = 1 THEN seqs[k] ELSE f[k - 1] \o seqs[k]]
<1>1. N \in Nat /\ N # 0 /\ <<>> \in Seq(V) /\ \A k \in 1..N : seqs[k] \in Seq(V)
  OBVIOUS
<1>2. step \in [1..N -> [Seq(V) -> Seq(V)]]
  <2>1. ASSUME NEW k \in 1..N, NEW s \in Seq(V)
        PROVE  s \o seqs[k] \in Seq(V)
    <3>1. seqs[k] \in Seq(V)
      BY <1>1
    <3> QED
      BY <3>1
  <2> QED
    BY <2>1
<1>3. PICK f : Steps(f, Seq(V), <<>>, N, step)
  <2> HIDE DEF step, N
  <2> QED
    BY <1>1, <1>2, Recursion
<1>4. f \in [0..N -> Seq(V)] /\ f[0] = <<>>
  BY <1>3 DEF Steps
<1>5. ASSUME NEW k \in 1..N PROVE f[k] = f[k - 1] \o seqs[k]
  <2>a. f[k] = step[k][f[k - 1]]
    <3> HIDE DEF step, N
    <3> QED
      BY <1>3, Zenon DEF Steps
  <2>b. k - 1 \in 0..N
    BY <1>1
  <2>1. f[k] = step[k][f[k - 1]] /\ k - 1 \in 0..N
    BY <2>a, <2>b, Zenon
  <2>2. f[k - 1] \in Seq(V)
    BY <1>4, <2>1
  <2> QED
    BY <2>1, <2>2
<1> DEFINE h == [k \in 1..N |-> f[k]]
<1>6. P(h)
  <2>1. ASSUME NEW k \in 1..N
        PROVE  f[k] = IF k = 1 THEN seqs[k] ELSE h[k - 1] \o seqs[k]
    <3>1. CASE k = 1
      <4>1. f[k] = <<>> \o seqs[k] /\ seqs[k] \in Seq(V)
        <5>1. f[k] = f[k - 1] \o seqs[k]
          BY <1>5, Zenon
        <5>2. k - 1 = 0 /\ seqs[k] \in Seq(V)
          BY <1>1, <3>1
        <5> QED
          BY <1>4, <5>1, <5>2
      <4> QED
        BY <3>1, <4>1, ConcatEmptySeq
    <3>2. CASE k # 1
      <4>1. k - 1 \in 1..N
        BY <3>2
      <4> QED
        BY <1>5, <3>2, <4>1
    <3> QED
      BY <3>1, <3>2
  <2> HIDE DEF N
  <2>2. \A k \in 1..N : h[k] = f[k]
    OBVIOUS
  <2>3. [k \in 1..N |-> f[k]] = [k \in 1..N |-> IF k = 1 THEN seqs[k] ELSE h[k - 1] \o seqs[k]]
    BY <2>1, Zenon
  <2> QED
    BY <2>3, Zenon
<1> DEFINE g == CHOOSE g : P(g)
<1>7. FlattenSeq(seqs) = g[N]
  BY <1>1 DEF FlattenSeq
<1>8. P(g)
  <2> HIDE DEF P
  <2> QED
    BY <1>6
<1> HIDE DEF g
<1>9. \A k \in 1..N : g[k] = IF k = 1 THEN seqs[k] ELSE g[k - 1] \o seqs[k]
  <2> HIDE DEF N
  <2> QED
    BY <1>8
<1> DEFINE T == {k \in Nat : k + 1 <= N => g[k + 1] = f[k + 1]}
<1>10. 0 \in T
  <2>1. 1 \in 1..N
    BY <1>1
  <2>2. g[1] = seqs[1]
    BY <1>9, <2>1
  <2>3. f[1] = f[0] \o seqs[1]
    <3>1. f[1] = f[1 - 1] \o seqs[1]
      BY <1>5, <2>1
    <3> QED
      BY <3>1
  <2>4. f[1] = seqs[1]
    BY <1>1, <1>4, <2>1, <2>3, ConcatEmptySeq
  <2> QED
    BY <2>2, <2>4
<1>11. ASSUME NEW k \in Nat, k \in T PROVE k + 1 \in T
  <2> SUFFICES ASSUME (k + 1) + 1 <= N PROVE g[(k + 1) + 1] = f[(k + 1) + 1]
    OBVIOUS
  <2> DEFINE q == (k + 1) + 1
  <2>1. q \in 1..N /\ q - 1 = k + 1 /\ q # 1
    BY <1>1
  <2>2. g[k + 1] = f[k + 1]
    BY <1>1, <1>11
  <2> HIDE DEF q
  <2>3. g[q] = g[q - 1] \o seqs[q]
    BY <1>9, <2>1, Zenon
  <2>4. f[q] = f[q - 1] \o seqs[q]
    BY <1>5, <2>1, Zenon
  <2>5. g[q] = f[q]
    BY <2>1, <2>2, <2>3, <2>4
  <2> QED
    BY <2>5 DEF q
<1> HIDE DEF T
<1>12. Nat \subseteq T
  BY <1>10, <1>11, Induction
<1>13. g[N] = f[N]
  <2>1. N - 1 \in Nat /\ (N - 1) + 1 = N
    BY <1>1
  <2>2. N - 1 \in T
    BY <1>12, <2>1
  <2> QED
    BY <2>1, <2>2 DEF T
<1> QED
  BY <1>4, <1>5, <1>7, <1>13 DEF FlatSteps

(* No part ends behind the last. *)
LEMMA OffsetsGrow ==
    ASSUME NEW V, NEW seqs \in Seq(Seq(V)), NEW off, Offsets(off, seqs)
    PROVE  \A k \in 0..Len(seqs) : off[k] <= off[Len(seqs)]
<1> DEFINE n == Len(seqs)
           T == {k \in Nat : k <= n => off[n - k] <= off[n]}
<1>1. n \in Nat /\ \A k \in 1..n : Len(seqs[k]) \in Nat
  <2>1. \A k \in 1..n : seqs[k] \in Seq(V)
    OBVIOUS
  <2> QED
    BY <2>1
<1>2. off \in [0..n -> Nat] /\ \A k \in 1..n : off[k] = off[k - 1] + Len(seqs[k])
  BY DEF Offsets
<1> HIDE DEF n
<1>3. 0 \in T
  <2>1. n - 0 = n /\ n \in 0..n
    BY <1>1
  <2>2. off[n] \in Nat
    BY <1>2, <2>1
  <2> QED
    BY <2>1, <2>2
<1>4. ASSUME NEW k \in Nat, k \in T PROVE k + 1 \in T
  <2> SUFFICES ASSUME k + 1 <= n PROVE off[n - (k + 1)] <= off[n]
    OBVIOUS
  <2>1. /\ n - k \in 1..n /\ (n - k) - 1 = n - (k + 1) /\ k <= n
        /\ n - k \in 0..n /\ n - (k + 1) \in 0..n /\ n \in 0..n
    BY <1>1
  <2>2. off[n - k] = off[n - (k + 1)] + Len(seqs[n - k])
    BY <1>2, <2>1
  <2>3. off[n - k] \in Nat /\ off[n - (k + 1)] \in Nat /\ Len(seqs[n - k]) \in Nat /\ off[n] \in Nat
    BY <1>1, <1>2, <2>1
  <2>4. off[n - k] <= off[n]
    BY <1>4, <2>1
  <2> QED
    BY <2>2, <2>3, <2>4
<1>5. ASSUME NEW k \in 0..n PROVE off[k] <= off[n]
  <2> HIDE DEF T
  <2>1. Nat \subseteq T
    BY <1>3, <1>4, Induction
  <2>2. n - k \in Nat /\ n - (n - k) = k /\ n - k <= n
    BY <1>1
  <2>3. n - k \in T
    BY <2>1, <2>2
  <2> QED
    BY <2>2, <2>3 DEF T
<1> QED
  BY <1>5 DEF n

(* Byte j of part k stands j places behind the end of part k - 1. *)
Laid(off, seqs, line) ==
    /\ Offsets(off, seqs)
    /\ off[Len(seqs)] = Len(line)
    /\ \A k \in 1..Len(seqs) : \A j \in 1..Len(seqs[k]) : line[off[k - 1] + j] = seqs[k][j]

LEMMA Flat ==
    ASSUME NEW V, NEW seqs \in Seq(Seq(V))
    PROVE  /\ FlattenSeq(seqs) \in Seq(V)
           /\ \E off : Laid(off, seqs, FlattenSeq(seqs))
<1> DEFINE N == Len(seqs)
<1>0. N \in Nat /\ \A k \in 1..N : seqs[k] \in Seq(V)
  OBVIOUS
<1>1. CASE seqs = <<>>
  <2>1. FlattenSeq(seqs) = <<>>
    BY <1>1 DEF FlattenSeq
  <2>2. Len(seqs) = 0 /\ 1..Len(seqs) = {}
    BY <1>1
  <2> DEFINE off == [k \in 0..0 |-> 0]
  <2>3. Offsets(off, seqs)
    BY <2>2 DEF Offsets
  <2> HIDE DEF off
  <2>4. off[Len(seqs)] = 0
    BY <2>2, <2>3 DEF Offsets
  <2>5. Laid(off, seqs, FlattenSeq(seqs))
    BY <2>1, <2>2, <2>3, <2>4 DEF Laid
  <2> QED
    BY <2>1, <2>5
<1>2. CASE seqs # <<>>
  <2>1. PICK f : FlatSteps(f, V, seqs)
    BY <1>2, FlatIs
  <2>2. f \in [0..N -> Seq(V)] /\ f[0] = <<>> /\ f[N] = FlattenSeq(seqs)
    BY <2>1 DEF FlatSteps
  <2> DEFINE off == [k \in 0..N |-> Len(f[k])]
  <2>3. ASSUME NEW k \in 1..N
        PROVE  /\ k - 1 \in 0..N /\ f[k - 1] \in Seq(V) /\ seqs[k] \in Seq(V)
               /\ f[k] = f[k - 1] \o seqs[k]
    <3>1. f[k] = f[k - 1] \o seqs[k]
      BY <2>1, Zenon DEF FlatSteps
    <3>2. k - 1 \in 0..N /\ seqs[k] \in Seq(V)
      BY <1>0
    <3>3. f[k - 1] \in Seq(V)
      <4> HIDE DEF N
      <4> QED
        BY <2>2, <3>2
    <3> QED
      BY <3>1, <3>2, <3>3
  <2>4. off \in [0..N -> Nat]
    BY <2>2
  <2>5. off[0] = 0 /\ off[N] = Len(FlattenSeq(seqs))
    BY <1>0, <2>2
  <2>6. ASSUME NEW k \in 1..N PROVE off[k] = off[k - 1] + Len(seqs[k])
    <3> DEFINE a == f[k - 1]
               b == seqs[k]
    <3>1. a \in Seq(V) /\ b \in Seq(V) /\ f[k] = a \o b
      BY <2>3
    <3>2. off[k] = Len(f[k]) /\ off[k - 1] = Len(a)
      BY <2>3
    <3> HIDE DEF a, off
    <3>3. Len(a \o b) = Len(a) + Len(b)
      BY <3>1
    <3> QED
      BY <3>1, <3>2, <3>3
  <2>7. Offsets(off, seqs)
    BY <2>4, <2>5, <2>6 DEF Offsets
  <2> DEFINE T == {m \in Nat : m <= N => \A k \in 1..m : \A j \in 1..Len(seqs[k]) :
                                  /\ off[k - 1] + j \in 1..off[m]
                                  /\ f[m][off[k - 1] + j] = seqs[k][j]}
  <2>8. 0 \in T
    OBVIOUS
  <2>9. ASSUME NEW m \in Nat, m \in T PROVE m + 1 \in T
    <3> HIDE DEF off
    <3> SUFFICES ASSUME m + 1 <= N, NEW k \in 1..(m + 1), NEW j \in 1..Len(seqs[k])
                 PROVE  /\ off[k - 1] + j \in 1..off[m + 1]
                        /\ f[m + 1][off[k - 1] + j] = seqs[k][j]
      OBVIOUS
    <3>1. m + 1 \in 1..N /\ (m + 1) - 1 = m /\ k \in 1..N
      BY <1>0
    <3> DEFINE a == f[m]
               b == seqs[m + 1]
               x == off[k - 1]
    <3>2. a \in Seq(V) /\ b \in Seq(V) /\ f[m + 1] = a \o b
      BY <2>3, <3>1
    <3>3. off[m] = Len(a) /\ off[m + 1] = Len(a) + Len(b)
      <4>1. off[m + 1] = off[(m + 1) - 1] + Len(seqs[m + 1])
        BY <2>6, <3>1
      <4>2. off[m] = Len(f[m])
        BY <3>1 DEF off
      <4> HIDE DEF off
      <4> QED
        BY <3>1, <4>1, <4>2
    <3>4. x \in Nat /\ Len(a) \in Nat /\ Len(b) \in Nat /\ j \in Nat
      <4>1. x \in Nat
        <5> HIDE DEF off, N
        <5>1. k - 1 \in 0..N
          BY <2>3, <3>1
        <5> QED
          BY <2>4, <5>1
      <4>2. seqs[k] \in Seq(V)
        BY <1>0, <3>1
      <4> QED
        BY <3>2, <4>1, <4>2
    <3>5. CASE k = m + 1
      <4>1. x = Len(a)
        <5> HIDE DEF off
        <5> QED
          BY <3>1, <3>3, <3>5
      <4>2. (a \o b)[Len(a) + j] = b[j] /\ j \in 1..Len(b)
        <5>1. j \in 1..Len(b)
          BY <3>5
        <5> HIDE DEF a, b
        <5> QED
          BY <3>2, <5>1
      <4>3. f[m + 1][Len(a) + j] = seqs[k][j]
        BY <3>2, <3>5, <4>2
      <4> HIDE DEF a, b, x, off
      <4>4. off[k - 1] = Len(a)
        BY <4>1 DEF x
      <4>5. Len(a) + j \in 1..(Len(a) + Len(b))
        BY <3>4, <4>2
      <4>6. off[k - 1] + j \in 1..off[m + 1]
        BY <3>3, <4>4, <4>5
      <4>7. f[m + 1][off[k - 1] + j] = seqs[k][j]
        BY <4>3, <4>4
      <4> QED
        BY <4>6, <4>7
    <3>6. CASE k # m + 1
      <4>1. k \in 1..m
        BY <3>6
      <4>2. x + j \in 1..off[m] /\ f[m][x + j] = seqs[k][j]
        <5>1. \A kk \in 1..m : \A jj \in 1..Len(seqs[kk]) :
                 /\ off[kk - 1] + jj \in 1..off[m]
                 /\ f[m][off[kk - 1] + jj] = seqs[kk][jj]
          <6> HIDE DEF off
          <6> QED
            BY <1>0, <2>9
        <5> HIDE DEF off
        <5> QED
          BY <4>1, <5>1
      <4>3. x + j \in 1..Len(a)
        <5> HIDE DEF off
        <5> QED
          BY <3>3, <4>2
      <4>4. (a \o b)[x + j] = a[x + j]
        <5> HIDE DEF a, b, x, off
        <5> QED
          BY <3>2, <4>3
      <4>5. f[m + 1][x + j] = seqs[k][j]
        <5> HIDE DEF off
        <5> QED
          BY <3>2, <4>2, <4>4
      <4>6. x + j \in 1..off[m + 1]
        <5> HIDE DEF off, a, b, x
        <5> QED
          BY <3>3, <3>4, <4>3
      <4> QED
        BY <4>5, <4>6
    <3> QED
      BY <3>5, <3>6
  <2> HIDE DEF T
  <2>10. N \in T
    BY <1>0, <2>8, <2>9, Induction
  <2>11. \A k \in 1..N : \A j \in 1..Len(seqs[k]) : f[N][off[k - 1] + j] = seqs[k][j]
    <3> HIDE DEF off
    <3> QED
      BY <1>0, <2>10 DEF T
  <2>12. FlattenSeq(seqs) \in Seq(V)
    BY <1>0, <2>2
  <2> HIDE DEF off
  <2>13. Laid(off, seqs, FlattenSeq(seqs))
    BY <2>2, <2>5, <2>7, <2>11 DEF Laid
  <2> QED
    BY <2>12, <2>13
<1> QED
  BY <1>1, <1>2

-----------------------------------------------------------------------------
(* A walk, from one label to the next. *)

Onward(bytes, q, ends) ==
    IF Within(bytes, q) /\ bytes[q] \notin ends THEN Ahead(bytes, q, bytes[q] + 1) ELSE q

WalkSteps(at, bytes, p, ends) ==
    /\ at \in [0..Len(bytes) -> 0..(Len(bytes) + 1)]
    /\ at[0] = p
    /\ \A k \in 1..Len(bytes) : at[k] = Onward(bytes, at[k - 1], ends)

LEMMA OnwardStays ==
    ASSUME NEW bytes \in Seq(Nat), NEW q \in 0..(Len(bytes) + 1), NEW ends
    PROVE  Onward(bytes, q, ends) \in 0..(Len(bytes) + 1)
<1>1. Len(bytes) \in Nat
  OBVIOUS
<1>2. CASE Within(bytes, q) /\ bytes[q] \notin ends
  <2>1. q \in 1..Len(bytes)
    BY <1>1, <1>2 DEF Within, Lost
  <2>2. bytes[q] \in Nat
    BY <2>1
  <2>3. Ahead(bytes, q, bytes[q] + 1) \in 0..(Len(bytes) + 1)
    <3> DEFINE n == bytes[q]
               m == Len(bytes)
    <3> HIDE DEF n, m
    <3>1. n \in Nat /\ m \in Nat /\ q \in Nat
      BY <1>1, <2>1, <2>2 DEF n, m
    <3>2. (IF q # Lost /\ q + (n + 1) <= m + 1 THEN q + (n + 1) ELSE Lost) \in 0..(m + 1)
      BY <3>1 DEF Lost
    <3> QED
      BY <3>2 DEF Ahead, n, m
  <2> QED
    BY <1>2, <2>3 DEF Onward
<1>3. CASE ~(Within(bytes, q) /\ bytes[q] \notin ends)
  BY <1>3 DEF Onward
<1> QED
  BY <1>2, <1>3

LEMMA WalkIs ==
    ASSUME NEW bytes \in Seq(Nat), NEW p \in 0..(Len(bytes) + 1), NEW ends
    PROVE  WalkSteps(Walk(bytes, p, ends), bytes, p, ends)
<1> DEFINE N == Len(bytes)
           Q == 0..(N + 1)
           step == [k \in 1..N |-> [q \in Q |-> Onward(bytes, q, ends)]]
           P(f) == f = [k \in 0..N |->
                        IF k = 0 THEN p
                        ELSE IF Within(bytes, f[k - 1]) /\ bytes[f[k - 1]] \notin ends
                             THEN Ahead(bytes, f[k - 1], bytes[f[k - 1]] + 1)
                             ELSE f[k - 1]]
<1>1. N \in Nat /\ p \in Q
  OBVIOUS
<1>2. step \in [1..N -> [Q -> Q]]
  <2>1. \A q \in Q : Onward(bytes, q, ends) \in Q
    BY OnwardStays
  <2> HIDE DEF Q, N
  <2> QED
    BY <2>1
<1>3. PICK f : Steps(f, Q, p, N, step)
  <2> HIDE DEF step, N, Q
  <2> QED
    BY <1>1, <1>2, Recursion
<1>4. f \in [0..N -> Q] /\ f[0] = p
  BY <1>3 DEF Steps
<1>5. ASSUME NEW k \in 1..N PROVE f[k] = Onward(bytes, f[k - 1], ends)
  <2>a. f[k] = step[k][f[k - 1]]
    <3> HIDE DEF step, N, Q
    <3> QED
      BY <1>3, Zenon DEF Steps
  <2>b. k - 1 \in 0..N
    BY <1>1
  <2>1. f[k] = step[k][f[k - 1]] /\ k - 1 \in 0..N
    BY <2>a, <2>b, Zenon
  <2>2. f[k - 1] \in Q
    BY <1>4, <2>1
  <2> HIDE DEF Q, N
  <2> QED
    BY <2>1, <2>2
<1>6. P(f)
  <2>1. ASSUME NEW k \in 0..N
        PROVE  f[k] = IF k = 0 THEN p
                      ELSE IF Within(bytes, f[k - 1]) /\ bytes[f[k - 1]] \notin ends
                           THEN Ahead(bytes, f[k - 1], bytes[f[k - 1]] + 1)
                           ELSE f[k - 1]
    <3>1. CASE k = 0
      BY <1>4, <3>1
    <3>2. CASE k # 0
      <4>1. k \in 1..N
        BY <3>2
      <4>2. f[k] = Onward(bytes, f[k - 1], ends)
        BY <1>5, <4>1, Zenon
      <4> QED
        BY <3>2, <4>2 DEF Onward
    <3> QED
      BY <3>1, <3>2
  <2> QED
    BY <1>4, <2>1
<1> DEFINE g == CHOOSE g : P(g)
<1>7. Walk(bytes, p, ends) = g
  BY DEF Walk
<1>8. P(g)
  <2> HIDE DEF P
  <2> QED
    BY <1>6
<1> HIDE DEF g
<1>9. \A k \in 0..N : g[k] = IF k = 0 THEN p
                             ELSE IF Within(bytes, g[k - 1]) /\ bytes[g[k - 1]] \notin ends
                                  THEN Ahead(bytes, g[k - 1], bytes[g[k - 1]] + 1)
                                  ELSE g[k - 1]
  <2> HIDE DEF N
  <2> QED
    BY <1>8
<1>10. g[0] = p
  <2>1. 0 \in 0..N
    BY <1>1
  <2> HIDE DEF N, P
  <2> QED
    BY <1>9, <2>1
<1>11. ASSUME NEW k \in 1..N PROVE g[k] = Onward(bytes, g[k - 1], ends)
  <2>1. k \in 0..N /\ k # 0
    BY <1>1
  <2> HIDE DEF P, N
  <2>2. g[k] = IF k = 0 THEN p
               ELSE IF Within(bytes, g[k - 1]) /\ bytes[g[k - 1]] \notin ends
                    THEN Ahead(bytes, g[k - 1], bytes[g[k - 1]] + 1)
                    ELSE g[k - 1]
    BY <1>9, <2>1, Zenon
  <2> QED
    BY <2>1, <2>2, Zenon DEF Onward
<1> DEFINE T == {k \in Nat : k <= N => g[k] \in Q}
<1>12. 0 \in T
  BY <1>1, <1>10
<1>13. ASSUME NEW k \in Nat, k \in T PROVE k + 1 \in T
  <2> SUFFICES ASSUME k + 1 <= N PROVE g[k + 1] \in Q
    OBVIOUS
  <2>1. k + 1 \in 1..N /\ (k + 1) - 1 = k
    BY <1>1
  <2>2. g[k] \in Q
    <3> HIDE DEF Q
    <3> QED
      BY <1>1, <1>13
  <2>3. g[k + 1] = Onward(bytes, g[k], ends)
    BY <1>11, <2>1
  <2> QED
    BY <2>2, <2>3, OnwardStays
<1>14. \A k \in 0..N : g[k] \in Q
  <2> HIDE DEF T
  <2>1. Nat \subseteq T
    BY <1>12, <1>13, Induction
  <2> HIDE DEF Q
  <2> QED
    BY <1>1, <2>1 DEF T
<1>15. g \in [0..N -> Q]
  <2>1. DOMAIN g = 0..N /\ g = [k \in DOMAIN g |-> g[k]]
    BY <1>8
  <2> HIDE DEF Q, N
  <2> QED
    BY <1>14, <2>1
<1> QED
  <2> HIDE DEF P
  <2> QED
    BY <1>7, <1>10, <1>11, <1>15, Zenon DEF WalkSteps

(* A walk over labels laid one behind the other, up to an end: start[k] is *)
(* where label k + 1 starts, or the end.                                   *)
Road(start, n, bytes, ends) ==
    /\ start \in [0..n -> 1..Len(bytes)]
    /\ \A k \in 1..n : /\ bytes[start[k - 1]] \notin ends
                       /\ start[k] = start[k - 1] + bytes[start[k - 1]] + 1
    /\ bytes[start[n]] \in ends

(* Every label takes room. *)
LEMMA RoadShort ==
    ASSUME NEW bytes \in Seq(Nat), NEW ends, NEW n \in Nat, NEW start, Road(start, n, bytes, ends)
    PROVE  n < Len(bytes)
<1> DEFINE N == Len(bytes)
           T == {k \in Nat : k <= n => k < start[k]}
<1>1. N \in Nat /\ start \in [0..n -> 1..N]
  BY DEF Road
<1>2. 0 \in T
  <2>1. start[0] \in 1..N
    BY <1>1
  <2> HIDE DEF N
  <2> QED
    BY <1>1, <2>1
<1>3. ASSUME NEW k \in Nat, k \in T PROVE k + 1 \in T
  <2> SUFFICES ASSUME k + 1 <= n PROVE k + 1 < start[k + 1]
    OBVIOUS
  <2>1. k + 1 \in 1..n /\ (k + 1) - 1 = k /\ k \in 0..n /\ k + 1 \in 0..n
    OBVIOUS
  <2>2. start[k + 1] = start[k] + bytes[start[k]] + 1
    BY <2>1 DEF Road
  <2>3. start[k] \in 1..N /\ bytes[start[k]] \in Nat
    BY <1>1, <2>1
  <2>4. k < start[k]
    BY <1>3, <2>1
  <2> HIDE DEF N
  <2> QED
    BY <1>1, <2>2, <2>3, <2>4
<1> HIDE DEF T
<1>4. n \in T
  BY <1>2, <1>3, Induction
<1>5. n < start[n] /\ start[n] \in 1..N
  <2> HIDE DEF N
  <2> QED
    BY <1>1, <1>4 DEF T
<1> QED
  BY <1>1, <1>5

(* The walk of the code takes such a road, and stays at its end. *)
LEMMA WalkAlong ==
    ASSUME NEW bytes \in Seq(Nat), NEW ends, NEW n \in Nat, NEW start, Road(start, n, bytes, ends)
    PROVE  /\ \A k \in 0..n : Walk(bytes, start[0], ends)[k] = start[k]
           /\ \A k \in n..Len(bytes) : Walk(bytes, start[0], ends)[k] = start[n]
           /\ NameEnd(bytes, start[0], ends) = start[n]
<1> DEFINE N == Len(bytes)
           at == Walk(bytes, start[0], ends)
<1>1. N \in Nat /\ n < N /\ start \in [0..n -> 1..N]
  <2>1. start \in [0..n -> 1..N]
    BY DEF Road
  <2>2. n < N
    BY RoadShort, Zenon
  <2> QED
    BY <2>1, <2>2
<1>2. start[0] \in 1..N /\ start[n] \in 1..N
  BY <1>1
<1>3. WalkSteps(at, bytes, start[0], ends)
  <2>1. start[0] \in 0..(Len(bytes) + 1)
    BY <1>1, <1>2
  <2> QED
    BY <2>1, WalkIs
<1> HIDE DEF at
<1>4. \A k \in 1..N : at[k] = Onward(bytes, at[k - 1], ends)
  BY <1>3 DEF WalkSteps
<1> DEFINE T == {k \in Nat : k <= n => at[k] = start[k]}
           U == {k \in Nat : n + k <= N => at[n + k] = start[n]}
<1>5. 0 \in T
  BY <1>3 DEF WalkSteps
<1>6. ASSUME NEW k \in Nat, k \in T PROVE k + 1 \in T
  <2> SUFFICES ASSUME k + 1 <= n PROVE at[k + 1] = start[k + 1]
    OBVIOUS
  <2>1. k + 1 \in 1..N /\ k + 1 \in 1..n /\ (k + 1) - 1 = k /\ k \in 0..n /\ k + 1 \in 0..n
    BY <1>1
  <2>2. start[k] \in 1..N /\ start[k + 1] \in 1..N
    BY <1>1, <2>1
  <2>3. bytes[start[k]] \notin ends /\ start[k + 1] = start[k] + bytes[start[k]] + 1
    BY <2>1 DEF Road
  <2>4. at[k] = start[k]
    BY <1>6, <2>1
  <2>5. at[k + 1] = Onward(bytes, start[k], ends)
    BY <1>4, <2>1, <2>4
  <2>6. Within(bytes, start[k])
    BY <1>1, <2>2 DEF Within, Lost
  <2>7. Ahead(bytes, start[k], bytes[start[k]] + 1) = start[k] + bytes[start[k]] + 1
    <3>1. bytes[start[k]] \in Nat
      BY <2>2
    <3>2. start[k] + (bytes[start[k]] + 1) = start[k] + bytes[start[k]] + 1
      BY <1>1, <2>2, <3>1
    <3>3. start[k] # Lost /\ start[k] + (bytes[start[k]] + 1) <= N + 1
      <4>1. start[k + 1] <= N /\ start[k + 1] \in Nat /\ start[k] # Lost
        BY <1>1, <2>2 DEF Lost
      <4>2. start[k] + (bytes[start[k]] + 1) = start[k + 1]
        BY <2>3, <3>2
      <4> HIDE DEF N
      <4> QED
        BY <1>1, <4>1, <4>2
    <3> QED
      BY <3>2, <3>3 DEF Ahead
  <2> QED
    BY <2>3, <2>5, <2>6, <2>7 DEF Onward
<1>7. ASSUME NEW k \in 0..n PROVE at[k] = start[k]
  <2> HIDE DEF T
  <2>1. Nat \subseteq T
    BY <1>5, <1>6, Induction
  <2> QED
    BY <2>1 DEF T
<1>8. 0 \in U
  <2>1. n + 0 = n /\ n \in 0..n
    OBVIOUS
  <2> QED
    BY <1>7, <2>1
<1>9. ASSUME NEW k \in Nat, k \in U PROVE k + 1 \in U
  <2> SUFFICES ASSUME n + (k + 1) <= N PROVE at[n + (k + 1)] = start[n]
    OBVIOUS
  <2>1. n + (k + 1) \in 1..N /\ (n + (k + 1)) - 1 = n + k /\ n + k <= N
    BY <1>1
  <2>2. at[n + k] = start[n]
    BY <1>9, <2>1
  <2>3. at[n + (k + 1)] = Onward(bytes, start[n], ends)
    BY <1>4, <2>1, <2>2
  <2>4. bytes[start[n]] \in ends
    BY DEF Road
  <2> QED
    BY <2>3, <2>4 DEF Onward
<1>10. ASSUME NEW k \in n..N PROVE at[k] = start[n]
  <2> HIDE DEF U
  <2>1. Nat \subseteq U
    BY <1>8, <1>9, Induction
  <2>2. k - n \in Nat /\ n + (k - n) = k /\ k <= N
    BY <1>1
  <2>3. k - n \in U
    BY <2>1, <2>2
  <2> QED
    BY <2>2, <2>3 DEF U
<1>11. NameEnd(bytes, start[0], ends) = start[n]
  <2>1. at[N] = start[n]
    BY <1>1, <1>10
  <2>2. Within(bytes, start[n])
    BY <1>1, <1>2 DEF Within, Lost
  <2> QED
    BY <2>1, <2>2 DEF NameEnd, at
<1> QED
  BY <1>7, <1>10, <1>11 DEF at

(* What a server reads on such a walk: what lies between two starts.       *)
LEMMA LabelsAlong ==
    ASSUME NEW bytes \in Seq(Nat), NEW n \in Nat, NEW start, Road(start, n, bytes, {0})
    PROVE  LabelsAt(bytes, start[0]) =
               [k \in 1..n |-> SubSeq(bytes, start[k - 1] + 1, start[k] - 1)]
<1> DEFINE N == Len(bytes)
           at == Walk(bytes, start[0], {0})
           read == {k \in 1..Len(bytes) : at[k] \notin {at[k - 1], Lost}}
<1>1. N \in Nat /\ n < N
  BY RoadShort
<1>2. start \in [0..n -> 1..N]
  BY DEF Road
<1>3. \A k \in 0..n : at[k] = start[k]
  BY WalkAlong
<1>4. \A k \in n..N : at[k] = start[n]
  BY WalkAlong
<1> HIDE DEF at
<1>5. ASSUME NEW k \in 1..n PROVE at[k] \notin {at[k - 1], Lost}
  <2>1. k \in 0..n /\ k - 1 \in 0..n
    OBVIOUS
  <2>2. start[k] = start[k - 1] + bytes[start[k - 1]] + 1
    BY DEF Road
  <2>3. start[k - 1] \in 1..N /\ start[k] \in 1..N /\ bytes[start[k - 1]] \in Nat
    BY <1>2, <2>1
  <2>4. start[k] # start[k - 1] /\ start[k] # Lost
    <3> DEFINE x == start[k - 1]
               y == start[k]
               b == bytes[x]
    <3>1. x \in Nat /\ y \in Nat /\ x # 0 /\ y # 0
      BY <1>1, <2>3
    <3>a. y = x + b + 1 /\ b \in Nat
      BY <2>2, <2>3, Zenon
    <3> HIDE DEF x, y, b
    <3>2. y # x /\ y # Lost
      BY <3>1, <3>a DEF Lost
    <3> QED
      BY <3>2 DEF x, y
  <2> QED
    BY <1>3, <2>1, <2>4
<1>6. ASSUME NEW k \in 1..N, k > n PROVE at[k] = at[k - 1]
  <2>1. k \in n..N /\ k - 1 \in n..N
    BY <1>1, <1>6
  <2> QED
    BY <1>4, <2>1
<1>7. read = 1..n
  <2>1. \A k \in 1..N : k \in 1..n \/ k > n
    BY <1>1
  <2>2. \A k \in 1..n : k \in 1..N
    BY <1>1
  <2> QED
    BY <1>5, <1>6, <2>1, <2>2
<1>8. Cardinality(read) = n
  <2>1. Cardinality(1..n) = IF 1 > n THEN 0 ELSE n - 1 + 1
    BY FS_Interval
  <2> HIDE DEF read
  <2>2. (IF 1 > n THEN 0 ELSE n - 1 + 1) = n
    OBVIOUS
  <2> QED
    BY <1>7, <2>1, <2>2
<1>9. LabelsAt(bytes, start[0]) = [k \in 1..Cardinality(read) |-> SubSeq(bytes, at[k - 1] + 1, at[k] - 1)]
  BY Zenon DEF LabelsAt, at
<1> HIDE DEF read
<1>10. \A k \in 1..n : SubSeq(bytes, at[k - 1] + 1, at[k] - 1)
                       = SubSeq(bytes, start[k - 1] + 1, start[k] - 1)
  <2>1. \A k \in 1..n : k \in 0..n /\ k - 1 \in 0..n
    OBVIOUS
  <2> QED
    BY <1>3, <2>1, Zenon
<1> QED
  BY <1>8, <1>9, <1>10

-----------------------------------------------------------------------------
(* The query *)

(* A sequence begins with another. *)
Begins(bytes, s) ==
    /\ Len(s) <= Len(bytes)
    /\ \A j \in 1..Len(s) : bytes[j] = s[j]

NameBytes(name) == FlattenSeq([i \in DOMAIN name |-> Label(name[i])])

(* Bytes are numbers. *)
LEMMA BytesAreNumbers == Bytes \subseteq Nat /\ \A s \in Seq(Bytes) : s \in Seq(Nat)
<1>1. Bytes \subseteq Nat
  BY DEF Bytes
<1> QED
  BY <1>1, SeqMonotonic

(* A sequence stands in a packet, from place p on. *)
StandsAt(bytes, p, s) ==
    /\ p \in Nat \ {0}
    /\ p + Len(s) <= Len(bytes) + 1
    /\ \A j \in 1..Len(s) : bytes[p + j - 1] = s[j]

LEMMA CutOut ==
    ASSUME NEW bytes \in Seq(Nat), NEW p, NEW s \in Seq(Nat), StandsAt(bytes, p, s)
    PROVE  SubSeq(bytes, p, p + Len(s) - 1) = s
<1> DEFINE m == Len(s)
           N == Len(bytes)
           e == p + m - 1
           t == SubSeq(bytes, p, e)
<1>1. m \in Nat /\ N \in Nat /\ p \in Nat /\ p # 0 /\ p + m <= N + 1
  BY DEF StandsAt
<1>2. \A j \in 1..m : bytes[p + j - 1] = s[j]
  BY DEF StandsAt
<1>3. \A j \in 1..N : bytes[j] \in Nat
  OBVIOUS
<1> HIDE DEF m, N
<1>4. p \in Int /\ e \in Int /\ e - p + 1 = m /\ (p <= e <=> 1 <= m)
  BY <1>1
<1>5. \A j \in p..e : j \in 1..N
  BY <1>1
<1> HIDE DEF e
<1>6. \A j \in p..e : bytes[j] \in Nat
  BY <1>3, <1>5
<1>7. /\ t \in Seq(Nat)
      /\ Len(t) = IF p <= e THEN e - p + 1 ELSE 0
      /\ \A j \in 1..(e - p + 1) : t[j] = bytes[p + j - 1]
  BY <1>4, <1>6, SubSeqProperties
<1> HIDE DEF t
<1>8. Len(t) = m
  BY <1>1, <1>4, <1>7
<1>9. \A j \in 1..m : t[j] = s[j]
  BY <1>2, <1>4, <1>7
<1>10. t = s
  BY <1>7, <1>8, <1>9, SeqEqual DEF m
<1> QED
  BY <1>10 DEF t, e, m

(* A label on the wire: its length, then its bytes. *)
LEMMA LabelIs ==
    ASSUME NEW l \in Seq(Bytes)
    PROVE  /\ Label(l) \in Seq(Nat)
           /\ Len(Label(l)) = Len(l) + 1
           /\ Label(l)[1] = Len(l)
           /\ \A j \in 1..Len(l) : Label(l)[j + 1] = l[j]
<1>1. l \in Seq(Nat) /\ Len(l) \in Nat
  BY BytesAreNumbers
<1> DEFINE first == <<Len(l)>>
<1>2. first \in Seq(Nat) /\ Len(first) = 1 /\ first[1] = Len(l)
  BY <1>1
<1> HIDE DEF first
<1>a. /\ first \o l \in Seq(Nat)
      /\ Len(first \o l) = Len(first) + Len(l)
      /\ \A i \in 1..Len(first) + Len(l) :
            (first \o l)[i] = IF i <= Len(first) THEN first[i] ELSE l[i - Len(first)]
  BY <1>1, <1>2, ConcatProperties
<1>3. first \o l \in Seq(Nat) /\ Len(first \o l) = Len(l) + 1
  BY <1>1, <1>2, <1>a
<1>b. \A i \in 1..(1 + Len(l)) : (first \o l)[i] = IF i <= 1 THEN first[i] ELSE l[i - 1]
  BY <1>2, <1>a
<1>4. (first \o l)[1] = Len(l)
  <2>1. 1 \in 1..(1 + Len(l)) /\ 1 <= 1
    BY <1>1
  <2>2. (first \o l)[1] = first[1]
    BY <1>b, <2>1
  <2> QED
    BY <1>2, <2>2
<1>5. ASSUME NEW j \in 1..Len(l) PROVE (first \o l)[j + 1] = l[j]
  <2>1. j + 1 \in 1..(1 + Len(l)) /\ ~(j + 1 <= 1) /\ (j + 1) - 1 = j
    BY <1>1
  <2> QED
    BY <1>b, <2>1
<1> QED
  BY <1>1, <1>3, <1>4, <1>5 DEF Label, first

(* A name has labels, and none of them is empty. *)
LEMMA HostIs ==
    ASSUME NEW name \in Hosts
    PROVE  /\ name \in Seq(Seq(Bytes)) /\ Len(name) \in Nat /\ Len(name) # 0
           /\ \A k \in 1..Len(name) : name[k] \in Seq(Bytes) /\ Len(name[k]) \in 1..63
<1>1. name \in Seq(Seq(Bytes)) /\ name # <<>>
  BY HostsAssumption
<1>2. DOMAIN name = 1..Len(name)
  BY <1>1
<1> QED
  BY <1>1, <1>2, HostsAssumption

(* Where the labels of a name start, in bytes that begin with the name and *)
(* a zero.                                                                 *)
NameRoad(start, name, bytes) ==
    LET n == Len(name)
    IN  /\ start \in [0..n -> 1..Len(bytes)]
        /\ start[0] = 1
        /\ start[n] = Len(NameBytes(name)) + 1
        /\ bytes[start[n]] = 0
        /\ \A k \in 1..n : /\ bytes[start[k - 1]] = Len(name[k])
                           /\ start[k] = start[k - 1] + Len(name[k]) + 1
                           /\ SubSeq(bytes, start[k - 1] + 1, start[k] - 1) = name[k]

(* The labels of a name lie one behind the other in its bytes. *)
LEMMA NameLaid ==
    ASSUME NEW name \in Hosts
    PROVE  /\ NameBytes(name) \in Seq(Nat)
           /\ \A bytes \in Seq(Nat) :
                 /\ Begins(bytes, NameBytes(name))
                 /\ Len(bytes) > Len(NameBytes(name))
                 /\ bytes[Len(NameBytes(name)) + 1] = 0
                 => \E start : NameRoad(start, name, bytes)
<1> DEFINE n == Len(name)
           seqs == [i \in DOMAIN name |-> Label(name[i])]
           F == NameBytes(name)
<1>1. n \in Nat /\ DOMAIN name = 1..n /\ \A k \in 1..n : name[k] \in Seq(Bytes)
  BY HostIs
<1>2. \A k \in 1..n : Label(name[k]) \in Seq(Nat)
  BY <1>1, LabelIs
<1>3. seqs \in Seq(Seq(Nat)) /\ Len(seqs) = n /\ \A k \in 1..n : seqs[k] = Label(name[k])
  BY <1>1, <1>2
<1>4. F = FlattenSeq(seqs)
  BY DEF NameBytes
<1> HIDE DEF seqs, F
<1>5. F \in Seq(Nat)
  BY <1>3, <1>4, Flat
<1>a. PICK off : Laid(off, seqs, F)
  <2>1. \E off : Laid(off, seqs, FlattenSeq(seqs))
    BY <1>3, Flat
  <2> QED
    BY <1>4, <2>1
<1>6. /\ Offsets(off, seqs)
      /\ off[Len(seqs)] = Len(F)
      /\ \A k \in 1..Len(seqs) : \A j \in 1..Len(seqs[k]) : F[off[k - 1] + j] = seqs[k][j]
  BY <1>a DEF Laid
<1>7. off \in [0..n -> Nat] /\ off[0] = 0 /\ off[n] = Len(F)
  BY <1>3, <1>6 DEF Offsets
<1>8. ASSUME NEW k \in 1..n
      PROVE  /\ k - 1 \in 0..n /\ k \in 0..n
             /\ off[k] = off[k - 1] + (Len(name[k]) + 1)
             /\ F[off[k - 1] + 1] = Len(name[k])
             /\ \A j \in 1..Len(name[k]) : F[off[k - 1] + (j + 1)] = name[k][j]
  <2>1. k - 1 \in 0..n /\ k \in 0..n
    BY <1>1
  <2>2. /\ Len(seqs[k]) = Len(name[k]) + 1
        /\ seqs[k][1] = Len(name[k])
        /\ \A j \in 1..Len(name[k]) : seqs[k][j + 1] = name[k][j]
    BY <1>1, <1>3, LabelIs
  <2>3. off[k] = off[k - 1] + Len(seqs[k])
    BY <1>3, <1>6 DEF Offsets
  <2>4. Len(name[k]) \in Nat
    BY <1>1
  <2>5. \A j \in 1..Len(seqs[k]) : F[off[k - 1] + j] = seqs[k][j]
    BY <1>3, <1>6
  <2>6. 1 \in 1..Len(seqs[k]) /\ \A j \in 1..Len(name[k]) : j + 1 \in 1..Len(seqs[k])
    BY <2>2, <2>4
  <2> QED
    BY <2>1, <2>2, <2>3, <2>5, <2>6
<1>9. ASSUME NEW bytes \in Seq(Nat), Begins(bytes, F), Len(bytes) > Len(F), bytes[Len(F) + 1] = 0
      PROVE  \E start : NameRoad(start, name, bytes)
  <2> DEFINE start == [k \in 0..n |-> off[k] + 1]
  <2>1. Len(F) \in Nat /\ Len(bytes) \in Nat
    BY <1>5
  <2>2. \A k \in 0..n : start[k] = off[k] + 1 /\ off[k] \in Nat
    BY <1>7
  <2>5. ASSUME NEW k \in 0..n PROVE off[k] <= Len(F)
    BY <1>3, <1>6, OffsetsGrow
  <2>6. start \in [0..n -> 1..Len(bytes)]
    <3>1. ASSUME NEW k \in 0..n PROVE off[k] + 1 \in 1..Len(bytes)
      BY <1>9, <2>1, <2>2, <2>5
    <3> QED
      BY <3>1
  <2> HIDE DEF start
  <2>7. 0 \in 0..n /\ n \in 0..n
    BY <1>1
  <2>8. start[0] = 1 /\ start[n] = Len(F) + 1
    BY <1>7, <2>2, <2>7
  <2>9. ASSUME NEW k \in 1..n
        PROVE  /\ bytes[start[k - 1]] = Len(name[k])
               /\ start[k] = start[k - 1] + Len(name[k]) + 1
               /\ SubSeq(bytes, start[k - 1] + 1, start[k] - 1) = name[k]
    <3> DEFINE l == name[k]
               m == Len(l)
               a == off[k - 1]
    <3>1. l \in Seq(Bytes) /\ m \in Nat /\ a \in Nat /\ off[k] \in Nat /\ off[k] <= Len(F)
      BY <1>1, <1>8, <2>2, <2>5
    <3>2. start[k - 1] = a + 1 /\ start[k] = off[k] + 1 /\ off[k] = a + (m + 1)
      BY <1>8, <2>2
    <3>3. \A j \in 1..Len(F) : bytes[j] = F[j]
      BY <1>9 DEF Begins
    <3>4. a + 1 \in 1..Len(F) /\ \A j \in 1..m : a + (j + 1) \in 1..Len(F)
      <4> HIDE DEF l, m, a
      <4> QED
        BY <2>1, <3>1, <3>2
    <3>5. bytes[a + 1] = m
      BY <1>8, <3>3, <3>4
    <3>6. ASSUME NEW j \in 1..m PROVE bytes[a + (j + 1)] = l[j]
      BY <1>8, <3>3, <3>4
    <3> HIDE DEF l, m, a
    <3>7. start[k] = start[k - 1] + m + 1
      BY <3>1, <3>2
    <3>8. start[k - 1] + 1 = a + 2 /\ start[k] - 1 = a + m + 1
      BY <3>1, <3>2
    <3>9. SubSeq(bytes, a + 2, a + m + 1) = l
      <4>1. a + 2 \in Nat \ {0} /\ a + 2 + m <= Len(bytes) + 1 /\ a + 2 + m - 1 = a + m + 1
        BY <1>9, <2>1, <3>1, <3>2
      <4>2. \A j \in 1..m : a + (j + 1) = a + 2 + j - 1
        BY <3>1
      <4>3. \A j \in 1..m : bytes[a + 2 + j - 1] = l[j]
        BY <3>6, <4>2
      <4>4. l \in Seq(Nat)
        BY <3>1, BytesAreNumbers
      <4>5. StandsAt(bytes, a + 2, l)
        BY <4>1, <4>3 DEF StandsAt, m
      <4>6. SubSeq(bytes, a + 2, a + 2 + m - 1) = l
        BY <4>4, <4>5, CutOut DEF m
      <4> QED
        BY <4>1, <4>6
    <3> QED
      BY <3>2, <3>5, <3>7, <3>8, <3>9 DEF l, m
  <2>10. bytes[start[n]] = 0
    BY <1>9, <2>8
  <2>11. NameRoad(start, name, bytes)
    BY <2>6, <2>8, <2>9, <2>10 DEF NameRoad, F
  <2> QED
    BY <2>11
<1> QED
  BY <1>5, <1>9 DEF F

(* Two parts of a sequence, place by place. *)
LEMMA Joined ==
    ASSUME NEW s \in Seq(Nat), NEW t \in Seq(Nat)
    PROVE  /\ s \o t \in Seq(Nat)
           /\ Len(s) \in Nat /\ Len(t) \in Nat
           /\ Len(s \o t) = Len(s) + Len(t)
           /\ \A i \in 1..Len(s) : (s \o t)[i] = s[i]
           /\ \A i \in 1..Len(t) : (s \o t)[Len(s) + i] = t[i]
           /\ Begins(s \o t, s)
<1>1. Len(s) \in Nat /\ Len(t) \in Nat
  BY LenProperties
<1>2. /\ s \o t \in Seq(Nat)
      /\ Len(s \o t) = Len(s) + Len(t)
      /\ \A i \in 1..Len(s) + Len(t) :
            (s \o t)[i] = IF i <= Len(s) THEN s[i] ELSE t[i - Len(s)]
  BY ConcatProperties
<1>3. ASSUME NEW i \in 1..Len(s) PROVE (s \o t)[i] = s[i]
  <2>1. i \in 1..Len(s) + Len(t) /\ i <= Len(s)
    BY <1>1
  <2> QED
    BY <1>2, <2>1
<1>4. ASSUME NEW i \in 1..Len(t) PROVE (s \o t)[Len(s) + i] = t[i]
  <2>1. Len(s) + i \in 1..Len(s) + Len(t) /\ ~(Len(s) + i <= Len(s)) /\ Len(s) + i - Len(s) = i
    BY <1>1
  <2> QED
    BY <1>2, <2>1
<1>5. Begins(s \o t, s)
  BY <1>1, <1>2, <1>3 DEF Begins
<1> QED
  BY <1>1, <1>2, <1>3, <1>4, <1>5

(* A query: the name, a zero, the type and the class. *)
LEMMA QueryIs ==
    ASSUME NEW name \in Hosts, NEW type \in Nat
    PROVE  LET q == create_dns_query(name, type)
               m == Len(NameBytes(name))
           IN  /\ q \in Seq(Nat) /\ m \in Nat
               /\ Len(q) = m + 5
               /\ Begins(q, NameBytes(name))
               /\ q[m + 1] = 0 /\ q[m + 2] = 0 /\ q[m + 3] = type
               /\ q[m + 4] = 0 /\ q[m + 5] = 1
<1> DEFINE F == NameBytes(name)
           m == Len(F)
           z == <<0>>
           t == <<0, type, 0, 1>>
           u == F \o z
           q == u \o t
<1>1. F \in Seq(Nat)
  BY NameLaid
<1>2. z \in Seq(Nat) /\ Len(z) = 1 /\ z[1] = 0
  OBVIOUS
<1>3. t \in Seq(Nat) /\ Len(t) = 4 /\ t[1] = 0 /\ t[2] = type /\ t[3] = 0 /\ t[4] = 1
  OBVIOUS
<1>4. create_dns_query(name, type) = q
  BY DEF create_dns_query, NameBytes
<1> HIDE DEF F, z, t
<1>5. /\ u \in Seq(Nat) /\ m \in Nat /\ Len(u) = m + Len(z)
      /\ \A i \in 1..m : u[i] = F[i]
      /\ \A i \in 1..Len(z) : u[m + i] = z[i]
  BY <1>1, <1>2, Joined
<1> HIDE DEF u
<1>6. /\ q \in Seq(Nat) /\ Len(q) = Len(u) + Len(t)
      /\ \A i \in 1..Len(u) : q[i] = u[i]
      /\ \A i \in 1..Len(t) : q[Len(u) + i] = t[i]
  BY <1>3, <1>5, Joined
<1> HIDE DEF q, m
<1>7. Len(u) = m + 1 /\ Len(q) = m + 5
  BY <1>2, <1>3, <1>5, <1>6
<1>8. \A i \in 1..4 : q[m + 1 + i] = t[i]
  BY <1>3, <1>6, <1>7
<1>9. q[m + 1] = 0
  <2>1. m + 1 \in 1..Len(u) /\ 1 \in 1..Len(z)
    BY <1>2, <1>5, <1>7
  <2> QED
    BY <1>2, <1>5, <1>6, <2>1
<1>10. q[m + 2] = 0 /\ q[m + 3] = type /\ q[m + 4] = 0 /\ q[m + 5] = 1
  <2>1. m + 1 + 1 = m + 2 /\ m + 1 + 2 = m + 3 /\ m + 1 + 3 = m + 4 /\ m + 1 + 4 = m + 5
    BY <1>5
  <2>2. q[m + 1 + 1] = t[1] /\ q[m + 1 + 2] = t[2] /\ q[m + 1 + 3] = t[3] /\ q[m + 1 + 4] = t[4]
    BY <1>8
  <2> QED
    BY <1>3, <2>1, <2>2
<1>11. Begins(q, F)
  <2>1. \A i \in 1..m : i \in 1..Len(u)
    BY <1>5, <1>7
  <2>2. \A i \in 1..m : q[i] = F[i]
    BY <1>5, <1>6, <2>1
  <2>3. m <= Len(q)
    BY <1>5, <1>7
  <2> QED
    BY <2>2, <2>3 DEF Begins, m
<1> QED
  BY <1>4, <1>5, <1>6, <1>7, <1>9, <1>10, <1>11 DEF F, m

(* The places of a name are a road for whatever ends a name, if that is no *)
(* length of a label.                                                      *)
LEMMA NameIsRoad ==
    ASSUME NEW name \in Hosts, NEW bytes \in Seq(Nat), NEW start, NameRoad(start, name, bytes),
           NEW ends, 0 \in ends, \A m \in 1..63 : m \notin ends
    PROVE  Road(start, Len(name), bytes, ends)
<1> DEFINE n == Len(name)
<1>1. ASSUME NEW k \in 1..n
      PROVE  /\ bytes[start[k - 1]] \notin ends
             /\ start[k] = start[k - 1] + bytes[start[k - 1]] + 1
  <2>1. bytes[start[k - 1]] = Len(name[k]) /\ start[k] = start[k - 1] + Len(name[k]) + 1
    BY DEF NameRoad
  <2>2. Len(name[k]) \in 1..63
    BY HostIs
  <2> QED
    BY <2>1, <2>2
<1> QED
  BY <1>1 DEF Road, NameRoad

(* A server reads in the question the name looked up. *)
LEMMA QuestionReads ==
    ASSUME NEW name \in Hosts
    PROVE  LET q == create_dns_query(name, A)
               n == Len(q)
           IN  LabelsAt(q, 1) = name /\ SubSeq(q, n - 4, n) = <<0, 0, A, 0, 1>>
<1> DEFINE q == create_dns_query(name, A)
           m == Len(NameBytes(name))
<1>0. A \in Nat
  BY DEF A
<1>1. /\ q \in Seq(Nat) /\ m \in Nat
      /\ Len(q) = m + 5
      /\ Begins(q, NameBytes(name))
      /\ q[m + 1] = 0 /\ q[m + 2] = 0 /\ q[m + 3] = A
      /\ q[m + 4] = 0 /\ q[m + 5] = 1
  BY <1>0, QueryIs
<1> HIDE DEF q
<1>2. PICK start : NameRoad(start, name, q)
  <2>1. Len(q) > m
    <3> HIDE DEF m
    <3> QED
      BY <1>1
  <2> QED
    BY <1>1, <2>1, NameLaid
<1>3. Road(start, Len(name), q, {0})
  <2>1. \A k \in 1..63 : k \notin {0}
    OBVIOUS
  <2> QED
    BY <1>1, <1>2, <2>1, NameIsRoad
<1>4. LabelsAt(q, start[0]) = [k \in 1..Len(name) |-> SubSeq(q, start[k - 1] + 1, start[k] - 1)]
  BY <1>1, <1>3, HostIs, LabelsAlong
<1>5. LabelsAt(q, 1) = name
  <2>1. \A k \in 1..Len(name) : SubSeq(q, start[k - 1] + 1, start[k] - 1) = name[k]
    BY <1>2 DEF NameRoad
  <2>2. start[0] = 1
    BY <1>2 DEF NameRoad
  <2>3. name = [k \in 1..Len(name) |-> name[k]]
    BY HostIs
  <2> QED
    BY <1>4, <2>1, <2>2, <2>3
<1>6. SubSeq(q, Len(q) - 4, Len(q)) = <<0, 0, A, 0, 1>>
  <2> HIDE DEF m
  <2>1. Len(q) - 4 = m + 1 /\ Len(q) = m + 5
    BY <1>1
  <2> DEFINE w == <<0, 0, A, 0, 1>>
  <2>2. w \in Seq(Nat) /\ Len(w) = 5 /\ w[1] = 0 /\ w[2] = 0 /\ w[3] = A /\ w[4] = 0 /\ w[5] = 1
    BY <1>0
  <2> HIDE DEF w
  <2>3. ASSUME NEW j \in 1..5 PROVE q[m + 1 + j - 1] = w[j]
    <3>1. j \in {1, 2, 3, 4, 5}
      OBVIOUS
    <3>2. m + 1 + j - 1 = m + j
      BY <1>1
    <3> QED
      BY <1>1, <2>2, <3>1, <3>2
  <2>4. m + 1 \in Nat \ {0} /\ m + 1 + 5 <= Len(q) + 1 /\ m + 1 + 5 - 1 = m + 5
    BY <1>1
  <2>5. StandsAt(q, m + 1, w)
    BY <2>2, <2>3, <2>4 DEF StandsAt
  <2>6. SubSeq(q, m + 1, m + 1 + Len(w) - 1) = w
    BY <1>1, <2>2, <2>5, CutOut
  <2>7. SubSeq(q, m + 1, m + 5) = w
    BY <2>2, <2>4, <2>6
  <2> QED
    BY <2>1, <2>7 DEF w
<1> QED
  BY <1>5, <1>6 DEF q

-----------------------------------------------------------------------------
(* The records *)

(* What a server of the run sends, and the code is written for.            *)
Plain == Owners \subseteq {"pointer", "plain"} /\ Types \subseteq {A, CNAME, AAAA}

LEMMA DataIs ==
    ASSUME NEW type \in {A, CNAME, AAAA}, NEW i \in Nat
    PROVE  /\ Data(type, i) \in Seq(Nat)
           /\ Len(Data(type, i)) = IF type = AAAA THEN 16 ELSE 4
<1>1. CASE type = A
  BY <1>1 DEF Data, A, AAAA
<1>2. CASE type = CNAME
  BY <1>2 DEF Data, A, AAAA, CNAME
<1>3. CASE type = AAAA
  <2>1. Data(type, i) = [j \in 1..16 |-> i]
    BY <1>3 DEF Data, A, AAAA, CNAME
  <2> QED
    BY <1>3, <2>1
<1> QED
  BY <1>1, <1>2, <1>3

LEMMA OwnerIs ==
    ASSUME NEW form \in {"pointer", "plain"}
    PROVE  LET w == Owner(form)
           IN  /\ w \in Seq(Nat) /\ Len(w) = (IF form = "pointer" THEN 2 ELSE 3)
               /\ form = "pointer" => w[1] = 192
               /\ form = "plain" => w[1] = 1 /\ w[3] = 0
<1>1. CASE form = "pointer"
  BY <1>1 DEF Owner
<1>2. CASE form = "plain"
  BY <1>2 DEF Owner
<1> QED
  BY <1>1, <1>2

(* The parts of a record, and what the code reads between them. *)
RecordParts(R, o, t, d) ==
    LET w == Len(o)
    IN  /\ R \in Seq(Nat) /\ Len(R) = w + 10 + Len(d)
        /\ \A j \in 1..w : R[j] = o[j]
        /\ R[w + 1] = 0 /\ R[w + 2] = t /\ R[w + 9] = 0 /\ R[w + 10] = Len(d)
        /\ \A j \in 1..Len(d) : R[w + 10 + j] = d[j]
LEMMA RecordIs ==
    ASSUME NEW r, r.owner \in {"pointer", "plain"}, r.type \in {A, CNAME, AAAA}, NEW i \in Nat
    PROVE  RecordParts(Record(r, i), Owner(r.owner), r.type, Data(r.type, i))
<1> DEFINE o == Owner(r.owner)
           d == Data(r.type, i)
           w == Len(o)
           t == r.type
           f == <<0, t, 0, 1, 0, 0, 0, 60, 0, Len(d)>>
           u == o \o f
           R == u \o d
<1>1. o \in Seq(Nat)
  BY OwnerIs
<1>a. d \in Seq(Nat)
  BY DataIs, Zenon
<1>2. d \in Seq(Nat) /\ Len(d) \in Nat
  <2> HIDE DEF d
  <2> QED
    BY <1>a
<1>3. t \in Nat
  BY DEF A, CNAME, AAAA
<1>4. Record(r, i) = R
  BY DEF Record
<1> HIDE DEF o, d, t
<1>5. /\ f \in Seq(Nat) /\ Len(f) = 10
      /\ f[1] = 0 /\ f[2] = t /\ f[9] = 0 /\ f[10] = Len(d)
  BY <1>2, <1>3
<1> HIDE DEF f
<1>6. /\ u \in Seq(Nat) /\ w \in Nat /\ Len(u) = w + Len(f)
      /\ \A j \in 1..w : u[j] = o[j]
      /\ \A j \in 1..Len(f) : u[w + j] = f[j]
  BY <1>1, <1>5, Joined
<1> HIDE DEF u
<1>7. /\ R \in Seq(Nat) /\ Len(R) = Len(u) + Len(d)
      /\ \A j \in 1..Len(u) : R[j] = u[j]
      /\ \A j \in 1..Len(d) : R[Len(u) + j] = d[j]
  BY <1>2, <1>6, Joined
<1> HIDE DEF R, w
<1>8. Len(u) = w + 10 /\ Len(R) = w + 10 + Len(d)
  BY <1>5, <1>6, <1>7
<1>9. \A j \in 1..w : R[j] = o[j]
  <2>1. \A j \in 1..w : j \in 1..Len(u)
    BY <1>6, <1>8
  <2> QED
    BY <1>6, <1>7, <2>1
<1>10. \A j \in 1..10 : R[w + j] = f[j]
  <2>1. \A j \in 1..10 : w + j \in 1..(w + 10)
    BY <1>6
  <2>2. ASSUME NEW j \in 1..10 PROVE R[w + j] = f[j]
    <3>1. w + j \in 1..Len(u) /\ j \in 1..Len(f)
      BY <1>5, <1>8, <2>1
    <3> QED
      BY <1>6, <1>7, <3>1
  <2> QED
    BY <2>2
<1>11. R[w + 1] = 0 /\ R[w + 2] = t /\ R[w + 9] = 0 /\ R[w + 10] = Len(d)
  BY <1>5, <1>10
<1>12. \A j \in 1..Len(d) : R[w + 10 + j] = d[j]
  BY <1>7, <1>8
<1> QED
  BY <1>4, <1>7, <1>8, <1>9, <1>11, <1>12 DEF w, o, d, t, RecordParts

(* The owner is skipped, in either form. *)
LEMMA OwnerSkipped ==
    ASSUME NEW bytes \in Seq(Nat), NEW p, NEW form \in {"pointer", "plain"},
           StandsAt(bytes, p, Owner(form)),
           p + Len(Owner(form)) <= Len(bytes)
    PROVE  SkipName(bytes, p) = p + Len(Owner(form))
<1> DEFINE w == Owner(form)
           N == Len(bytes)
<1>1. w \in Seq(Nat) /\ Len(w) = (IF form = "pointer" THEN 2 ELSE 3)
  BY OwnerIs
<1>2. N \in Nat /\ p \in Nat /\ p # 0 /\ p + Len(w) <= N
  BY DEF StandsAt
<1>3. \A j \in 1..Len(w) : bytes[p + j - 1] = w[j]
  BY DEF StandsAt
<1>4. CASE form = "pointer"
  <2>1. w[1] = 192 /\ Len(w) = 2
    BY <1>1, <1>4, OwnerIs
  <2> HIDE DEF w, N
  <2>2. 1 \in 1..Len(w) /\ p + 1 - 1 = p
    BY <1>2, <2>1
  <2>3. bytes[p] = 192
    BY <1>3, <2>1, <2>2
  <2>4. bytes[p] \in Pointers
    BY <2>3 DEF Pointers
  <2>5. Within(bytes, p)
    BY <1>2, <2>1 DEF Within, Lost, N
  <2>6. Ahead(bytes, p, 2) = p + 2
    BY <1>2, <2>1 DEF Ahead, Lost, N
  <2> QED
    BY <2>1, <2>4, <2>5, <2>6 DEF SkipName, w
<1>5. CASE form = "plain"
  <2>1. w[1] = 1 /\ w[3] = 0 /\ Len(w) = 3
    BY <1>1, <1>5, OwnerIs
  <2> HIDE DEF w, N
  <2>2. 1 \in 1..Len(w) /\ 3 \in 1..Len(w) /\ p + 1 - 1 = p /\ p + 3 - 1 = p + 2
    BY <1>2, <2>1
  <2>3. bytes[p] = 1 /\ bytes[p + 2] = 0
    BY <1>3, <2>1, <2>2
  <2>4. bytes[p] \notin Pointers
    BY <2>3 DEF Pointers
  <2>5. Within(bytes, p)
    BY <1>2, <2>1 DEF Within, Lost, N
  <2> DEFINE start == [k \in 0..1 |-> IF k = 0 THEN p ELSE p + 2]
  <2>6. start \in [0..1 -> 1..N]
    BY <1>2, <2>1
  <2>7. start[0] = p /\ start[1] = p + 2
    OBVIOUS
  <2> HIDE DEF start
  <2>8. ASSUME NEW k \in 1..1
        PROVE  /\ bytes[start[k - 1]] \notin {0}
               /\ start[k] = start[k - 1] + bytes[start[k - 1]] + 1
    <3>1. k = 1 /\ k - 1 = 0
      OBVIOUS
    <3>2. start[k - 1] = p /\ start[k] = p + 2 /\ p + 2 = p + 1 + 1
      BY <1>2, <2>7, <3>1
    <3> QED
      BY <2>3, <3>2
  <2>9. Road(start, 1, bytes, {0})
    BY <2>3, <2>6, <2>7, <2>8 DEF Road, N
  <2>10. ToZero(bytes, p) = p + 2
    BY <2>7, <2>9, WalkAlong DEF ToZero
  <2>11. Ahead(bytes, p + 2, 1) = p + 3
    BY <1>2, <2>1 DEF Ahead, Lost, N
  <2> QED
    BY <2>1, <2>4, <2>5, <2>10, <2>11 DEF SkipName, w
<1> QED
  BY <1>4, <1>5

(* The record at a place where one stands, and the place behind it. *)
LEMMA RecordRead ==
    ASSUME NEW bytes \in Seq(Nat), NEW p, NEW r, NEW i \in Nat,
           r.owner \in {"pointer", "plain"}, r.type \in {A, CNAME, AAAA},
           StandsAt(bytes, p, Record(r, i))
    PROVE  LET d == Data(r.type, i)
               q == p + Len(Owner(r.owner)) + 10
           IN  /\ RecordAt(bytes, p) = [type |-> r.type, data |-> q, size |-> Len(d)]
               /\ q \in Nat \ {0}
               /\ Ahead(bytes, q, Len(d)) = p + Len(Record(r, i))
               /\ SubSeq(bytes, q, q + Len(d) - 1) = d
<1> DEFINE R == Record(r, i)
           o == Owner(r.owner)
           w == Len(o)
           d == Data(r.type, i)
           m == Len(d)
           N == Len(bytes)
           q == p + w + 10
           t == r.type
<1>1. /\ R \in Seq(Nat) /\ Len(R) = w + 10 + m
      /\ \A j \in 1..w : R[j] = o[j]
      /\ R[w + 1] = 0 /\ R[w + 2] = t /\ R[w + 9] = 0 /\ R[w + 10] = m
      /\ \A j \in 1..m : R[w + 10 + j] = d[j]
  <2>1. RecordParts(R, o, t, d)
    BY RecordIs
  <2> HIDE DEF R, o, t, d
  <2> QED
    BY <2>1 DEF RecordParts
<1>2. o \in Seq(Nat) /\ w \in Nat /\ d \in Seq(Nat) /\ m \in Nat /\ N \in Nat
  <2>1. o \in Seq(Nat)
    BY OwnerIs, Zenon
  <2>2. d \in Seq(Nat)
    BY DataIs, Zenon
  <2> HIDE DEF o, d
  <2> QED
    BY <2>1, <2>2
<1>3. t \in Nat
  BY DEF A, CNAME, AAAA
<1>4. /\ p \in Nat /\ p # 0 /\ p + Len(R) <= N + 1
      /\ \A j \in 1..Len(R) : bytes[p + j - 1] = R[j]
  BY DEF StandsAt
<1>5. SkipName(bytes, p) = p + w
  <2> HIDE DEF R, w, m, N
  <2>1. p + w <= N /\ p + w <= N + 1
    BY <1>1, <1>2, <1>4
  <2>2. ASSUME NEW j \in 1..w PROVE bytes[p + j - 1] = o[j]
    <3>1. j \in 1..Len(R)
      BY <1>1, <1>2
    <3> QED
      BY <1>1, <1>4, <3>1
  <2>3. StandsAt(bytes, p, Owner(r.owner))
    BY <1>4, <2>1, <2>2 DEF StandsAt, w, N
  <2> QED
    BY <2>1, <2>3, OwnerSkipped DEF w, N
<1> HIDE DEF R, o, w, d, m, N, t
<1>6. \A j \in 1..(w + 10 + m) : bytes[p + j - 1] = R[j]
  BY <1>1, <1>4
<1>7. bytes[p + w] = 0 /\ bytes[p + w + 1] = t /\ bytes[p + w + 8] = 0 /\ bytes[p + w + 9] = m
  <2>1. /\ w + 1 \in 1..(w + 10 + m) /\ w + 2 \in 1..(w + 10 + m)
        /\ w + 9 \in 1..(w + 10 + m) /\ w + 10 \in 1..(w + 10 + m)
    BY <1>2
  <2>2. /\ p + (w + 1) - 1 = p + w /\ p + (w + 2) - 1 = p + w + 1
        /\ p + (w + 9) - 1 = p + w + 8 /\ p + (w + 10) - 1 = p + w + 9
    BY <1>2, <1>4
  <2>3. /\ bytes[p + (w + 1) - 1] = R[w + 1] /\ bytes[p + (w + 2) - 1] = R[w + 2]
        /\ bytes[p + (w + 9) - 1] = R[w + 9] /\ bytes[p + (w + 10) - 1] = R[w + 10]
    BY <1>6, <2>1
  <2> QED
    BY <1>1, <2>2, <2>3
<1>8. Ahead(bytes, p + w, 10) = q /\ q # Lost /\ q \in Nat \ {0}
  <2>1. p + w # Lost /\ p + w + 10 <= N + 1 /\ q \in Nat \ {0}
    BY <1>1, <1>2, <1>4 DEF Lost
  <2> QED
    BY <2>1 DEF Ahead, N, Lost
<1>9. RecordAt(bytes, p) = [type |-> t, data |-> q, size |-> m]
  <2>1. 256 * bytes[p + w] + bytes[p + w + 1] = t
    BY <1>3, <1>7
  <2>2. 256 * bytes[p + w + 8] + bytes[p + w + 9] = m
    BY <1>2, <1>7
  <2> HIDE DEF q
  <2> QED
    BY <1>5, <1>8, <2>1, <2>2 DEF RecordAt
<1>10. Ahead(bytes, q, m) = p + Len(R)
  <2>1. q # Lost /\ q + m <= N + 1 /\ q + m = p + Len(R)
    BY <1>1, <1>2, <1>4, <1>8
  <2> QED
    BY <2>1 DEF Ahead, N
<1>11. SubSeq(bytes, q, q + m - 1) = d
  <2>1. ASSUME NEW j \in 1..m PROVE bytes[q + j - 1] = d[j]
    <3>1. w + 10 + j \in 1..(w + 10 + m) /\ p + (w + 10 + j) - 1 = q + j - 1
      BY <1>2, <1>4
    <3> QED
      BY <1>1, <1>6, <3>1
  <2>2. q + m <= N + 1
    BY <1>1, <1>2, <1>4
  <2> HIDE DEF q
  <2>3. StandsAt(bytes, q, d)
    BY <1>8, <2>1, <2>2 DEF StandsAt, m, N
  <2> QED
    BY <1>2, <2>3, CutOut DEF m
<1> QED
  BY <1>8, <1>9, <1>10, <1>11 DEF R, o, w, d, m, t

-----------------------------------------------------------------------------
(* One record behind the other *)

LEMMA AheadIs ==
    ASSUME NEW bytes \in Seq(Nat), NEW q \in Nat, NEW m \in Nat
    PROVE  /\ Ahead(bytes, q, m) \in 0..(Len(bytes) + 1)
           /\ Ahead(bytes, q, m) # Lost => q # 0 /\ q + m <= Len(bytes) + 1
<1> DEFINE N == Len(bytes)
<1>1. N \in Nat
  OBVIOUS
<1> HIDE DEF N
<1>2. /\ (IF q # 0 /\ q + m <= N + 1 THEN q + m ELSE 0) \in 0..(N + 1)
      /\ (IF q # 0 /\ q + m <= N + 1 THEN q + m ELSE 0) # 0 => q # 0 /\ q + m <= N + 1
  BY <1>1
<1> QED
  BY <1>2 DEF Ahead, Lost, N

LEMMA SkipTyped ==
    ASSUME NEW bytes \in Seq(Nat), NEW q \in 0..(Len(bytes) + 1)
    PROVE  SkipName(bytes, q) \in 0..(Len(bytes) + 1)
<1> DEFINE N == Len(bytes)
           at == Walk(bytes, q, {0})
<1>1. N \in Nat /\ q \in Nat
  OBVIOUS
<1>2. WalkSteps(at, bytes, q, {0})
  BY WalkIs
<1> HIDE DEF at
<1>3. at[N] \in 0..(N + 1)
  <2>1. N \in 0..N
    BY <1>1
  <2> QED
    BY <1>2, <2>1 DEF WalkSteps
<1>4. ToZero(bytes, q) \in 0..(N + 1)
  BY <1>1, <1>3 DEF ToZero, NameEnd, Lost, at
<1>5. Ahead(bytes, q, 2) \in 0..(N + 1)
  BY <1>1, AheadIs
<1>6. Ahead(bytes, ToZero(bytes, q), 1) \in 0..(N + 1)
  <2>1. ToZero(bytes, q) \in Nat
    BY <1>4
  <2> QED
    BY <2>1, AheadIs
<1> QED
  BY <1>1, <1>5, <1>6 DEF SkipName, Lost

(* The place behind the record at q. *)
NextRecord(bytes, q) == Ahead(bytes, RecordAt(bytes, q).data, RecordAt(bytes, q).size)

LEMMA BehindTyped ==
    ASSUME NEW bytes \in Seq(Nat), NEW q \in 0..(Len(bytes) + 1)
    PROVE  NextRecord(bytes, q) \in 0..(Len(bytes) + 1)
<1> DEFINE N == Len(bytes)
           f == SkipName(bytes, q)
           d == Ahead(bytes, f, 10)
<1>1. N \in Nat
  OBVIOUS
<1>2. f \in Nat
  BY <1>1, SkipTyped
<1> HIDE DEF f
<1>3. d \in 0..(N + 1) /\ (d # Lost => f # 0 /\ f + 10 <= N + 1)
  BY <1>2, AheadIs
<1> HIDE DEF d
<1>4. RecordAt(bytes, q).data \in Nat /\ RecordAt(bytes, q).size \in Nat
  <2>1. CASE d = Lost
    <3>1. RecordAt(bytes, q) = [type |-> 0, data |-> Lost, size |-> 0]
      BY <2>1 DEF RecordAt, d, f
    <3> QED
      BY <3>1 DEF Lost
  <2>2. CASE d # Lost
    <3>1. RecordAt(bytes, q) = [type |-> 256 * bytes[f] + bytes[f + 1],
                                data |-> d,
                                size |-> 256 * bytes[f + 8] + bytes[f + 9]]
      BY <2>2 DEF RecordAt, d, f
    <3>2. f + 8 \in 1..N /\ f + 9 \in 1..N
      BY <1>1, <1>2, <1>3, <2>2
    <3>3. bytes[f + 8] \in Nat /\ bytes[f + 9] \in Nat
      BY <3>2
    <3>4. RecordAt(bytes, q).data = d /\ RecordAt(bytes, q).size = 256 * bytes[f + 8] + bytes[f + 9]
      <4> DEFINE x == 256 * bytes[f] + bytes[f + 1]
                 y == 256 * bytes[f + 8] + bytes[f + 9]
      <4>1. RecordAt(bytes, q) = [type |-> x, data |-> d, size |-> y]
        BY <3>1
      <4> HIDE DEF x, y
      <4>2. RecordAt(bytes, q).data = d /\ RecordAt(bytes, q).size = y
        BY <4>1
      <4> QED
        BY <4>2 DEF y
    <3>5. \A x, y \in Nat : 256 * x + y \in Nat
      OBVIOUS
    <3>6. 256 * bytes[f + 8] + bytes[f + 9] \in Nat
      BY <3>3, <3>5, Zenon
    <3> QED
      BY <1>1, <1>3, <3>4, <3>6
  <2> QED
    BY <2>1, <2>2
<1> QED
  BY <1>4, AheadIs DEF NextRecord

(* Starts, from one record to the next. *)
LEMMA StartsIs ==
    ASSUME NEW bytes \in Seq(Nat), NEW p \in 0..(Len(bytes) + 1), NEW n \in Nat
    PROVE  /\ Starts(bytes, p, n)[0] = p
           /\ \A k \in 1..n : Starts(bytes, p, n)[k] = NextRecord(bytes, Starts(bytes, p, n)[k - 1])
<1> DEFINE Q == 0..(Len(bytes) + 1)
           step == [k \in 1..n |-> [q \in Q |-> NextRecord(bytes, q)]]
           P(f) == f = [k \in 0..n |->
                        IF k = 0 THEN p
                        ELSE Ahead(bytes, RecordAt(bytes, f[k - 1]).data,
                                          RecordAt(bytes, f[k - 1]).size)]
<1>1. p \in Q
  OBVIOUS
<1>2. step \in [1..n -> [Q -> Q]]
  <2>1. \A q \in Q : NextRecord(bytes, q) \in Q
    BY BehindTyped
  <2> HIDE DEF Q
  <2> QED
    BY <2>1
<1>3. PICK f : Steps(f, Q, p, n, step)
  <2> HIDE DEF step, Q
  <2> QED
    BY <1>1, <1>2, Recursion
<1>4. f \in [0..n -> Q] /\ f[0] = p
  BY <1>3 DEF Steps
<1>5. ASSUME NEW k \in 1..n PROVE f[k] = NextRecord(bytes, f[k - 1])
  <2>a. f[k] = step[k][f[k - 1]]
    <3> HIDE DEF step, Q
    <3> QED
      BY <1>3, Zenon DEF Steps
  <2>b. k - 1 \in 0..n
    BY <1>1
  <2>1. f[k] = step[k][f[k - 1]] /\ k - 1 \in 0..n
    BY <2>a, <2>b, Zenon
  <2>2. f[k - 1] \in Q
    BY <1>4, <2>1
  <2> HIDE DEF Q
  <2> QED
    BY <2>1, <2>2
<1>6. P(f)
  <2>1. ASSUME NEW k \in 0..n
        PROVE  f[k] = IF k = 0 THEN p
                      ELSE Ahead(bytes, RecordAt(bytes, f[k - 1]).data,
                                        RecordAt(bytes, f[k - 1]).size)
    <3>1. CASE k = 0
      BY <1>4, <3>1
    <3>2. CASE k # 0
      <4>1. k \in 1..n
        BY <3>2
      <4>2. f[k] = NextRecord(bytes, f[k - 1])
        BY <1>5, <4>1, Zenon
      <4> QED
        BY <3>2, <4>2 DEF NextRecord
    <3> QED
      BY <3>1, <3>2
  <2> QED
    BY <1>4, <2>1
<1> DEFINE g == CHOOSE g : P(g)
<1>7. Starts(bytes, p, n) = g
  BY DEF Starts
<1>8. P(g)
  <2> HIDE DEF P
  <2> QED
    BY <1>6
<1> HIDE DEF g
<1>9. \A k \in 0..n : g[k] = IF k = 0 THEN p
                             ELSE Ahead(bytes, RecordAt(bytes, g[k - 1]).data,
                                               RecordAt(bytes, g[k - 1]).size)
  BY <1>8
<1>10. g[0] = p
  <2> HIDE DEF P
  <2>1. 0 \in 0..n
    OBVIOUS
  <2> QED
    BY <1>9, <2>1
<1>11. ASSUME NEW k \in 1..n PROVE g[k] = NextRecord(bytes, g[k - 1])
  <2> HIDE DEF P
  <2>1. k \in 0..n /\ k # 0
    OBVIOUS
  <2>2. g[k] = IF k = 0 THEN p
               ELSE Ahead(bytes, RecordAt(bytes, g[k - 1]).data, RecordAt(bytes, g[k - 1]).size)
    BY <1>9, <2>1, Zenon
  <2> QED
    BY <2>1, <2>2, Zenon DEF NextRecord
<1> QED
  <2> HIDE DEF P
  <2> QED
    BY <1>7, <1>10, <1>11, Zenon

(* Records that stand one behind the other are found there, and the first  *)
(* of another type than CNAME is the one whose data is taken.              *)
Row(place, records, n, bytes) ==
    /\ place[0] \in 0..(Len(bytes) + 1)
    /\ \A k \in 1..n : /\ records[k].owner \in {"pointer", "plain"}
                       /\ records[k].type \in {A, CNAME, AAAA}
                       /\ StandsAt(bytes, place[k - 1], Record(records[k], k))
                       /\ place[k] = place[k - 1] + Len(Record(records[k], k))

LEMMA FirstRecordIs ==
    ASSUME NEW bytes \in Seq(Nat), NEW n \in Nat, NEW records, NEW place,
           Row(place, records, n, bytes)
    PROVE  LET others == {k \in 1..n : records[k].type # CNAME}
           IN  FirstRecord(bytes, place[0], n) =
                   IF others = {} THEN [type |-> 0, data |-> place[0], size |-> 0]
                   ELSE RecordAt(bytes, place[Min(others) - 1])
<1> DEFINE start == Starts(bytes, place[0], n)
           T == {k \in Nat : k <= n => start[k] = place[k]}
           others == {k \in 1..n : records[k].type # CNAME}
           found == {k \in 1..n : RecordAt(bytes, start[k - 1]).type # CNAME}
<1>1. place[0] \in 0..(Len(bytes) + 1)
  BY DEF Row
<1>2. start[0] = place[0] /\ \A k \in 1..n : start[k] = NextRecord(bytes, start[k - 1])
  BY <1>1, StartsIs
<1> HIDE DEF start
<1>3. ASSUME NEW k \in 1..n
      PROVE  /\ NextRecord(bytes, place[k - 1]) = place[k]
             /\ RecordAt(bytes, place[k - 1]).type = records[k].type
  <2> DEFINE r == records[k]
             p == place[k - 1]
             d == Data(r.type, k)
             q == p + Len(Owner(r.owner)) + 10
  <2>1. /\ r.owner \in {"pointer", "plain"} /\ r.type \in {A, CNAME, AAAA}
        /\ StandsAt(bytes, p, Record(r, k)) /\ place[k] = p + Len(Record(r, k))
    BY DEF Row
  <2>2. k \in Nat
    OBVIOUS
  <2> HIDE DEF r, p
  <2>3. /\ RecordAt(bytes, p) = [type |-> r.type, data |-> q, size |-> Len(d)]
        /\ Ahead(bytes, q, Len(d)) = p + Len(Record(r, k))
    BY <2>1, <2>2, RecordRead
  <2> HIDE DEF d, q
  <2>4. RecordAt(bytes, p).data = q /\ RecordAt(bytes, p).size = Len(d) /\ RecordAt(bytes, p).type = r.type
    BY <2>3
  <2>5. NextRecord(bytes, p) = place[k]
    BY <2>1, <2>3, <2>4 DEF NextRecord
  <2> QED
    BY <2>4, <2>5 DEF r, p
<1>4. 0 \in T
  BY <1>2
<1>5. ASSUME NEW k \in Nat, k \in T PROVE k + 1 \in T
  <2> SUFFICES ASSUME k + 1 <= n PROVE start[k + 1] = place[k + 1]
    OBVIOUS
  <2>1. k + 1 \in 1..n /\ (k + 1) - 1 = k /\ k <= n
    OBVIOUS
  <2>2. start[k] = place[k]
    BY <1>5, <2>1
  <2>3. start[k + 1] = NextRecord(bytes, start[k])
    BY <1>2, <2>1
  <2>4. NextRecord(bytes, place[k]) = place[k + 1]
    BY <1>3, <2>1
  <2> QED
    BY <2>2, <2>3, <2>4
<1>6. ASSUME NEW k \in 1..n PROVE start[k - 1] = place[k - 1]
  <2> HIDE DEF T
  <2>1. Nat \subseteq T
    BY <1>4, <1>5, Induction
  <2>2. k - 1 \in Nat /\ k - 1 <= n
    OBVIOUS
  <2>3. k - 1 \in T
    BY <2>1, <2>2
  <2> QED
    BY <2>2, <2>3 DEF T
<1>7. found = others
  BY <1>3, <1>6
<1>8. FirstRecord(bytes, place[0], n) = IF found = {} THEN [type |-> 0, data |-> place[0], size |-> 0]
                                        ELSE RecordAt(bytes, start[Min(found) - 1])
  BY DEF FirstRecord, start
<1> HIDE DEF found
<1>9. CASE others = {}
  BY <1>7, <1>8, <1>9
<1>10. CASE others # {}
  <2>1. Min(others) \in 1..n
    <3>1. others \subseteq Nat
      OBVIOUS
    <3>2. \E x \in others : \A y \in others : x =< y
      <4>1. PICK x \in others : \A y \in others : ~(y < x)
        BY <1>10, <3>1, Least
      <4>2. \A y \in others : x =< y
        BY <3>1, <4>1
      <4> QED
        BY <4>2
    <3>3. Min(others) \in others
      <4> HIDE DEF others
      <4> QED
        BY <3>2 DEF Min
    <3> QED
      BY <3>3
  <2>2. start[Min(others) - 1] = place[Min(others) - 1]
    BY <1>6, <2>1
  <2>3. FirstRecord(bytes, place[0], n) = RecordAt(bytes, place[Min(others) - 1])
    <3> HIDE DEF others
    <3> QED
      BY <1>7, <1>8, <1>10, <2>2, Zenon
  <2> QED
    BY <1>10, <2>3, Zenon
<1> QED
  BY <1>9, <1>10

-----------------------------------------------------------------------------
(* The answer *)

(* The records start behind the question the server copied. *)
LEMMA QuestionSkipped ==
    ASSUME NEW name \in Hosts, NEW bytes \in Seq(Nat), Begins(bytes, create_dns_query(name, A))
    PROVE  SkipQuestion(bytes) = Len(create_dns_query(name, A)) + 1
<1> DEFINE q == create_dns_query(name, A)
           F == NameBytes(name)
           m == Len(F)
           N == Len(bytes)
           ends == {0} \cup Pointers
<1>0. A \in Nat /\ N \in Nat
  BY DEF A
<1>1. /\ q \in Seq(Nat) /\ m \in Nat /\ Len(q) = m + 5
      /\ Begins(q, F) /\ q[m + 1] = 0
  BY <1>0, QueryIs
<1>2. Len(q) <= N /\ \A j \in 1..Len(q) : bytes[j] = q[j]
  BY DEF Begins
<1> HIDE DEF q, m, N
<1>3. m + 5 <= N /\ \A j \in 1..(m + 5) : bytes[j] = q[j]
  BY <1>1, <1>2
<1>4. Begins(bytes, F)
  <2>1. \A j \in 1..m : q[j] = F[j]
    BY <1>1 DEF Begins, m
  <2>2. \A j \in 1..m : j \in 1..(m + 5)
    BY <1>1
  <2>3. m <= N
    BY <1>0, <1>1, <1>3
  <2> QED
    BY <1>3, <2>1, <2>2, <2>3 DEF Begins, m, N
<1>5. bytes[m + 1] = 0 /\ m < N
  <2>1. m + 1 \in 1..(m + 5)
    BY <1>1
  <2> QED
    BY <1>0, <1>1, <1>3, <2>1
<1>6. PICK start : NameRoad(start, name, bytes)
  <2>1. Len(bytes) > Len(F)
    BY <1>0, <1>1, <1>5 DEF m, N
  <2> QED
    BY <1>4, <1>5, <2>1, NameLaid DEF m
<1>7. start[0] = 1 /\ start[Len(name)] = m + 1
  BY <1>6 DEF NameRoad, m
<1>8. Road(start, Len(name), bytes, ends)
  <2>1. \A k \in 1..63 : k \notin ends
    BY DEF Pointers
  <2>2. 0 \in ends
    OBVIOUS
  <2> HIDE DEF ends
  <2> QED
    BY <1>6, <2>1, <2>2, NameIsRoad
<1> HIDE DEF ends
<1>9. NameEnd(bytes, 1, ends) = m + 1
  <2>1. NameEnd(bytes, start[0], ends) = start[Len(name)]
    BY <1>8, HostIs, WalkAlong
  <2> QED
    BY <1>7, <2>1
<1>10. ToQuestionEnd(bytes, 1) = m + 1
  BY <1>5, <1>9 DEF ToQuestionEnd, ends
<1>11. Within(bytes, m + 1)
  BY <1>0, <1>1, <1>5 DEF Within, Lost, N
<1>12. Ahead(bytes, m + 1 + 1, 4) = m + 5 + 1
  <2>1. m + 1 + 1 # Lost /\ m + 1 + 1 + 4 <= N + 1 /\ m + 1 + 1 + 4 = m + 5 + 1
    BY <1>0, <1>1, <1>3 DEF Lost
  <2> QED
    BY <2>1 DEF Ahead, N
<1> QED
  BY <1>1, <1>5, <1>10, <1>11, <1>12 DEF SkipQuestion, q

Sent(records) == [i \in DOMAIN records |-> Record(records[i], i)]

Body(name, records) == create_dns_query(name, A) \o FlattenSeq(Sent(records))

(* The records of an answer are found one behind the other. *)
LEMMA RecordsInRow ==
    ASSUME Plain, NEW name \in Hosts, NEW n \in Nat, NEW records \in [1..n -> [owner : Owners, type : Types]]
    PROVE  /\ Body(name, records) \in Seq(Nat)
           /\ \E place : /\ Row(place, records, n, Body(name, records))
                         /\ place[0] = SkipQuestion(Body(name, records))
                         /\ place[0] # 0
<1> DEFINE q == create_dns_query(name, A)
           seqs == Sent(records)
           G == FlattenSeq(seqs)
           bytes == Body(name, records)
           m == Len(q)
<1>1. ASSUME NEW k \in 1..n
      PROVE  /\ records[k].owner \in {"pointer", "plain"}
             /\ records[k].type \in {A, CNAME, AAAA}
             /\ Record(records[k], k) \in Seq(Nat)
  <2> DEFINE r == records[k]
  <2>1. r \in [owner : Owners, type : Types]
    OBVIOUS
  <2>2. r.owner \in {"pointer", "plain"} /\ r.type \in {A, CNAME, AAAA}
    BY <2>1 DEF Plain
  <2>3. k \in Nat
    OBVIOUS
  <2> HIDE DEF r
  <2>4. RecordParts(Record(r, k), Owner(r.owner), r.type, Data(r.type, k))
    BY <2>2, <2>3, RecordIs
  <2>5. Record(r, k) \in Seq(Nat)
    BY <2>4 DEF RecordParts
  <2> QED
    BY <2>2, <2>5 DEF r
<1>2. seqs \in Seq(Seq(Nat)) /\ Len(seqs) = n /\ \A k \in 1..n : seqs[k] = Record(records[k], k)
  <2>1. DOMAIN records = 1..n
    OBVIOUS
  <2>2. seqs = [k \in 1..n |-> Record(records[k], k)]
    BY <2>1 DEF Sent
  <2> QED
    BY <1>1, <2>2
<1>3. q \in Seq(Nat)
  BY QueryIs DEF A
<1> HIDE DEF q, seqs
<1>a. PICK off : Laid(off, seqs, G)
  BY <1>2, Flat
<1>4. /\ Offsets(off, seqs)
      /\ off[Len(seqs)] = Len(G)
      /\ \A k \in 1..Len(seqs) : \A j \in 1..Len(seqs[k]) : G[off[k - 1] + j] = seqs[k][j]
  BY <1>a DEF Laid
<1>5. G \in Seq(Nat)
  BY <1>2, Flat
<1>6. bytes = q \o G
  BY DEF Body, q, seqs
<1> HIDE DEF G, bytes, m
<1>7. /\ bytes \in Seq(Nat) /\ m \in Nat /\ Len(G) \in Nat /\ Len(bytes) = m + Len(G)
      /\ \A i \in 1..Len(G) : bytes[m + i] = G[i]
      /\ Begins(bytes, q)
  BY <1>3, <1>5, <1>6, Joined DEF m
<1>8. SkipQuestion(bytes) = m + 1
  BY <1>7, QuestionSkipped DEF q, m
<1> DEFINE place == [k \in 0..n |-> m + 1 + off[k]]
<1>9. off \in [0..n -> Nat] /\ off[0] = 0 /\ \A k \in 0..n : off[k] <= Len(G)
  <2>1. \A k \in 0..Len(seqs) : off[k] <= off[Len(seqs)]
    BY <1>2, <1>4, OffsetsGrow
  <2>2. off \in [0..n -> Nat] /\ off[0] = 0
    BY <1>2, <1>4 DEF Offsets
  <2> QED
    BY <1>2, <1>4, <2>1, <2>2
<1>10. \A k \in 0..n : place[k] = m + 1 + off[k]
  OBVIOUS
<1> HIDE DEF place
<1>11. place[0] = m + 1 /\ place[0] \in 0..(Len(bytes) + 1) /\ place[0] # 0
  <2>1. 0 \in 0..n /\ m + 1 + 0 = m + 1
    BY <1>7
  <2>2. place[0] = m + 1
    BY <1>9, <1>10, <2>1
  <2> QED
    BY <1>7, <2>2
<1>12. ASSUME NEW k \in 1..n
       PROVE  /\ StandsAt(bytes, place[k - 1], Record(records[k], k))
              /\ place[k] = place[k - 1] + Len(Record(records[k], k))
  <2> DEFINE R == Record(records[k], k)
             a == off[k - 1]
  <2>1. k - 1 \in 0..n /\ k \in 0..n /\ k \in 1..Len(seqs)
    BY <1>2
  <2>2. seqs[k] = R /\ R \in Seq(Nat)
    BY <1>1, <1>2
  <2>3. off[k] = a + Len(R)
    BY <1>4, <2>1, <2>2 DEF Offsets
  <2>4. a \in Nat /\ off[k] \in Nat /\ off[k] <= Len(G) /\ Len(R) \in Nat
    <3>1. Len(R) \in Nat
      BY <2>2, LenProperties
    <3> QED
      BY <1>9, <2>1, <3>1
  <2>5. \A j \in 1..Len(R) : G[a + j] = R[j]
    BY <1>4, <2>1, <2>2
  <2> HIDE DEF R, a
  <2>6. place[k - 1] = m + 1 + a /\ place[k] = m + 1 + off[k]
    BY <1>10, <2>1 DEF a
  <2>7. ASSUME NEW j \in 1..Len(R) PROVE bytes[place[k - 1] + j - 1] = R[j]
    <3>1. a + j \in 1..Len(G)
      BY <1>7, <2>3, <2>4
    <3>2. place[k - 1] + j - 1 = m + (a + j)
      BY <1>7, <2>4, <2>6
    <3> QED
      BY <1>7, <2>5, <3>1, <3>2
  <2>8. /\ place[k - 1] \in Nat \ {0}
        /\ place[k - 1] + Len(R) <= Len(bytes) + 1
        /\ place[k] = place[k - 1] + Len(R)
    BY <1>7, <2>3, <2>4, <2>6
  <2> QED
    BY <2>7, <2>8 DEF StandsAt, R
<1>13. Row(place, records, n, bytes)
  BY <1>1, <1>11, <1>12 DEF Row
<1> QED
  BY <1>7, <1>8, <1>11, <1>13 DEF bytes

(* The bytes of the first address record, as FirstAddress has them. *)
AddressOf(records) ==
    LET given == {i \in DOMAIN records : records[i].type \in {A, AAAA}}
    IN  IF given = {} THEN <<>> ELSE Data(records[Min(given)].type, Min(given))

(* The walk stays in the packet and takes the data of that record. *)
LEMMA AnswerRead ==
    ASSUME Plain, NEW name \in Hosts, NEW n \in Nat, n # 0,
           NEW records \in [1..n -> [owner : Owners, type : Types]]
    PROVE  LET bytes == Body(name, records)
               first == FirstRecord(bytes, SkipQuestion(bytes), n)
           IN  first.data # Lost /\ Address(bytes, first) = AddressOf(records)
<1> DEFINE bytes == Body(name, records)
           first == FirstRecord(bytes, SkipQuestion(bytes), n)
           others == {k \in 1..n : records[k].type # CNAME}
<1>1. bytes \in Seq(Nat)
  BY RecordsInRow
<1>2. PICK place : Row(place, records, n, bytes) /\ place[0] = SkipQuestion(bytes) /\ place[0] # 0
  BY RecordsInRow
<1> HIDE DEF bytes
<1>3. first = IF others = {} THEN [type |-> 0, data |-> place[0], size |-> 0]
              ELSE RecordAt(bytes, place[Min(others) - 1])
  <2>1. FirstRecord(bytes, place[0], n) =
            IF others = {} THEN [type |-> 0, data |-> place[0], size |-> 0]
            ELSE RecordAt(bytes, place[Min(others) - 1])
    BY <1>1, <1>2, FirstRecordIs
  <2>2. first = FirstRecord(bytes, place[0], n)
    BY <1>2
  <2> HIDE DEF first, others
  <2> QED
    BY <2>1, <2>2, Zenon
<1> HIDE DEF first
<1>4. AddressOf(records) = IF others = {} THEN <<>>
                           ELSE Data(records[Min(others)].type, Min(others))
  <2>1. DOMAIN records = 1..n
    OBVIOUS
  <2>2. \A k \in 1..n : records[k].type \in {A, CNAME, AAAA}
    BY <1>2 DEF Row
  <2>3. {i \in DOMAIN records : records[i].type \in {A, AAAA}} = others
    BY <2>1, <2>2 DEF A, CNAME, AAAA
  <2> HIDE DEF others
  <2> QED
    BY <2>3 DEF AddressOf
<1>5. CASE others = {}
  <2> HIDE DEF others
  <2>1. first = [type |-> 0, data |-> place[0], size |-> 0]
    BY <1>3, <1>5
  <2>2. first.data # Lost /\ first.type = 0
    BY <1>2, <2>1 DEF Lost
  <2>3. Address(bytes, first) = <<>>
    BY <2>2 DEF Address, A, AAAA
  <2> QED
    BY <1>4, <1>5, <2>2, <2>3 DEF bytes, first
<1>6. CASE others # {}
  <2> DEFINE k == Min(others)
  <2>1. k \in others
    <3>1. others \subseteq Nat
      OBVIOUS
    <3> HIDE DEF others
    <3>2. PICK x \in others : \A y \in others : ~(y < x)
      BY <1>6, <3>1, Least
    <3>3. \A y \in others : x =< y
      BY <3>1, <3>2
    <3> QED
      BY <3>3 DEF Min
  <2> DEFINE r == records[k]
             p == place[k - 1]
             d == Data(r.type, k)
             q == p + Len(Owner(r.owner)) + 10
  <2>2. k \in 1..n /\ k \in Nat /\ r.type # CNAME
    <3> HIDE DEF k
    <3> QED
      BY <2>1
  <2>3. first = RecordAt(bytes, p)
    <3> HIDE DEF others
    <3> QED
      BY <1>3, <1>6
  <2>4. AddressOf(records) = d
    <3> HIDE DEF others
    <3> QED
      BY <1>4, <1>6
  <2> HIDE DEF k
  <2>5. /\ r.owner \in {"pointer", "plain"} /\ r.type \in {A, CNAME, AAAA}
        /\ StandsAt(bytes, p, Record(r, k))
    BY <1>2, <2>2 DEF Row
  <2> HIDE DEF r, p
  <2>6. /\ RecordAt(bytes, p) = [type |-> r.type, data |-> q, size |-> Len(d)]
        /\ q \in Nat \ {0}
        /\ SubSeq(bytes, q, q + Len(d) - 1) = d
    BY <1>1, <2>2, <2>5, RecordRead
  <2>7. Len(d) = IF r.type = AAAA THEN 16 ELSE 4
    BY <2>2, <2>5, DataIs
  <2> HIDE DEF d, q
  <2>8. first.type = r.type /\ first.data = q /\ first.size = Len(d)
    BY <2>3, <2>6
  <2>9. (first.type = A /\ first.size = 4) \/ (first.type = AAAA /\ first.size = 16)
    BY <2>2, <2>5, <2>7, <2>8
  <2>10. Address(bytes, first) = SubSeq(bytes, q, q + Len(d) - 1)
    BY <2>8, <2>9 DEF Address
  <2>11. first.data # Lost
    BY <2>6, <2>8 DEF Lost
  <2> QED
    BY <2>4, <2>6, <2>10, <2>11 DEF bytes, first
<1> QED
  BY <1>5, <1>6

-----------------------------------------------------------------------------
(* The behaviour *)

(* What a server answers. *)
Answer(q, records, rcode) ==
    [records |-> records,
     packet |-> [qr |-> 1, rcode |-> rcode, ancount |-> Len(records),
                 body |-> q \o FlattenSeq(Sent(records))]]

PacketInv ==
    /\ host \in Hosts
    /\ query \in {<<>>, Overrun, create_dns_query(host, A)}
    /\ answer = NoAnswer \/
          /\ query = create_dns_query(host, A)
          /\ \E n \in 0..MaxRecords : \E records \in [1..n -> [owner : Owners, type : Types]] :
             \E rcode \in {0, 3} : answer = Answer(query, records, rcode)
    /\ result # NoResult => answer # NoAnswer

LEMMA PacketStart == PacketInit => PacketInv
BY DEF PacketInit, PacketInv

LEMMA QueryNotEmpty ==
    ASSUME NEW name \in Hosts
    PROVE  create_dns_query(name, A) \notin {<<>>, Overrun}
<1> DEFINE q == create_dns_query(name, A)
           m == Len(NameBytes(name))
<1>1. A \in Nat
  BY DEF A
<1>2. Len(q) = m + 5 /\ m \in Nat
  BY <1>1, QueryIs
<1> HIDE DEF q, m
<1>3. Len(q) # 0 /\ Len(q) # 1
  BY <1>2
<1>4. q # <<>>
  BY <1>3
<1>5. Len(Overrun) = 1
  BY DEF Overrun
<1>6. q # Overrun
  BY <1>3, <1>5
<1> QED
  BY <1>4, <1>6 DEF q

LEMMA PacketStep == PacketInv /\ [PacketNext]_packetVars => PacketInv'
<1> SUFFICES ASSUME PacketInv, [PacketNext]_packetVars PROVE PacketInv'
  OBVIOUS
<1>1. CASE SendQuery
  <2>1. query = <<>> /\ query' \in {create_dns_query(host, A), Overrun}
        /\ host' = host /\ answer' = answer /\ result' = result
    BY <1>1 DEF SendQuery
  <2>2. answer = NoAnswer
    BY <2>1, QueryNotEmpty DEF PacketInv
  <2> QED
    BY <2>1, <2>2 DEF PacketInv
<1>2. CASE ServerAnswers
  <2>1. Asked /\ host' = host /\ query' = query /\ result' = result
        /\ answer = NoAnswer
    BY <1>2 DEF ServerAnswers
  <2>2. PICK records \in Records, rcode \in {0, 3} : answer' = Answer(query, records, rcode)
    BY <1>2 DEF ServerAnswers, Answer, Sent
  <2>3. PICK n \in 0..MaxRecords : records \in [1..n -> [owner : Owners, type : Types]]
    BY DEF Records
  <2>4. result = NoResult /\ query = create_dns_query(host, A)
    BY <2>1 DEF PacketInv, Asked
  <2> QED
    BY <2>1, <2>2, <2>3, <2>4 DEF PacketInv
<1>3. CASE on_udp_read
  BY <1>3 DEF on_udp_read, PacketInv
<1>4. CASE UNCHANGED packetVars
  BY <1>4 DEF packetVars, PacketInv
<1> QED
  BY <1>1, <1>2, <1>3, <1>4 DEF PacketNext

LEMMA PacketInvariance == PacketSpec => []PacketInv
BY PacketStart, PacketStep, PTL DEF PacketSpec

(* Every query that fits in dns_packet is one a server reads as the name   *)
(* looked up, however many labels that has and whatever their lengths.     *)
THEOREM QueryAlwaysAsksForHost == PacketSpec => []QueryAsksForHost
<1>1. PacketInv => QueryAsksForHost
  BY QuestionReads DEF PacketInv, QueryAsksForHost, Asked
<1> QED
  BY <1>1, PacketInvariance, PTL

(* The address found stays the one of the answer. *)
LEMMA FindsStep ==
    ASSUME Plain, PacketInv, FindsAddress, [PacketNext]_packetVars
    PROVE  FindsAddress'
<1>1. CASE SendQuery \/ ServerAnswers
  <2>1. result = NoResult /\ result' = result
    <3>1. CASE SendQuery
      <4>1. query = <<>> /\ result' = result
        BY <3>1 DEF SendQuery
      <4>2. answer = NoAnswer
        BY <4>1, QueryNotEmpty DEF PacketInv
      <4> QED
        BY <4>1, <4>2 DEF PacketInv
    <3>2. CASE ServerAnswers
      BY <3>2 DEF ServerAnswers, PacketInv
    <3> QED
      BY <1>1, <3>1, <3>2
  <2> QED
    BY <2>1 DEF FindsAddress, Done
<1>2. CASE on_udp_read
  <2> DEFINE packet == answer.packet
             first == FirstRecord(packet.body, SkipQuestion(packet.body), packet.ancount)
  <2>1. /\ answer # NoAnswer /\ answer' = answer
        /\ result' = IF packet.rcode # 0 \/ packet.ancount = 0 THEN [status |-> -2, ip |-> <<>>]
                     ELSE [status |-> 1, ip |-> IF first.data = Lost THEN <<"lost">>
                                                ELSE Address(packet.body, first)]
    BY <1>2 DEF on_udp_read
  <2>2. PICK n \in 0..MaxRecords : \E records \in [1..n -> [owner : Owners, type : Types]] :
             \E rcode \in {0, 3} : answer = Answer(query, records, rcode)
    BY <2>1 DEF PacketInv
  <2>3. PICK records \in [1..n -> [owner : Owners, type : Types]], rcode \in {0, 3} :
             answer = Answer(query, records, rcode)
    BY <2>2
  <2>4. query = create_dns_query(host, A) /\ host \in Hosts
    BY <2>1 DEF PacketInv
  <2>5. n \in Nat /\ Len(records) = n
    <3>1. n \in Nat
      BY MaxRecordsAssumption DEF Bytes
    <3> QED
      BY <3>1
  <2>6. answer.records = records /\ packet.ancount = n /\ packet.body = Body(host, records)
    BY <2>3, <2>4, <2>5 DEF Answer, Body
  <2>7. FirstAddress' = AddressOf(records)
    BY <2>1, <2>6 DEF FirstAddress, AddressRecords, AddressOf
  <2>8. CASE packet.rcode # 0 \/ packet.ancount = 0
    <3>1. result'.status = -2
      BY <2>1, <2>8
    <3> QED
      BY <3>1 DEF FindsAddress
  <2>9. CASE ~(packet.rcode # 0 \/ packet.ancount = 0)
    <3>1. n # 0
      BY <2>6, <2>9
    <3>2. first.data # Lost /\ Address(packet.body, first) = AddressOf(records)
      BY <2>4, <2>5, <2>6, <3>1, AnswerRead
    <3> HIDE DEF packet, first
    <3>3. result'.ip = AddressOf(records)
      BY <2>1, <2>9, <3>2
    <3> QED
      BY <2>7, <3>3 DEF FindsAddress
  <2> QED
    BY <2>8, <2>9
<1>3. CASE UNCHANGED packetVars
  BY <1>3 DEF packetVars, FindsAddress, Done, FirstAddress, AddressRecords
<1> QED
  BY <1>1, <1>2, <1>3 DEF PacketNext

(* In every answer of CNAME, A and AAAA records, with owners in full or as *)
(* pointers, the walk stays in the packet and the address is the one of    *)
(* the first address record, however many records are in front of it.      *)
THEOREM AddressAlwaysFound ==
    ASSUME Plain
    PROVE  PacketSpec => []FindsAddress
<1>1. PacketInit => FindsAddress
  BY DEF PacketInit, FindsAddress, Done
<1>2. PacketInv /\ FindsAddress /\ [PacketNext]_packetVars => FindsAddress'
  BY FindsStep
<1> QED
  BY <1>1, <1>2, PacketInvariance, PTL DEF PacketSpec
=============================================================================
