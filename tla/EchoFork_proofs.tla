-------------------------- MODULE EchoFork_proofs --------------------------
(***************************************************************************)
(* For any number of clients, lines, strays and faults: a connection is    *)
(* open in its own child only, and in the parent between accept and close; *)
(* a client has as many lines on its way as its version allows; and a      *)
(* client is served to the end unless it, its child or the parent meets a  *)
(* fault.                                                                  *)
(***************************************************************************)
EXTENDS EchoFork, SequenceTheorems, TLAPS

\* The types of the variables, those of the connections' contents included.
BaseOK == /\ cpc \in [Clients -> {"off", "typing", "reply", "exit0", "failed", "killed"}]
          /\ typed \in [Clients -> 0 .. Lines] /\ printed \in [Clients -> Seq(Int)]
          /\ late \subseteq Timed /\ garbled \subseteq Clients
          /\ up \in [Clients -> Seq(Int)] /\ down \in [Clients -> Seq(Int)]
          /\ backlog \in Seq(Clients)
          /\ ppc \in {"accept", "fork", "close", "gone"}
          /\ connectfd \in Clients \cup {NoFd}
          /\ child \in [Children -> {"none", "read", "write", "zombie", "reaped"}]
          /\ buffer \in [Children -> Int] /\ \A c \in Clients : child[c] = "write" => buffer[c] > 0
          /\ open \in [Servers -> SUBSET (Clients \cup {Listen})]
          /\ pending \in BOOLEAN /\ handling \in BOOLEAN /\ hit \subseteq Servers

\* Who has which socket open. A connection is with one of: nobody, the backlog,
\* the parent alone, parent and child, the child alone, and again nobody.
SocketsOK ==
    /\ Isolated
    /\ ppc = "gone" => Parent \in hit
    /\ ppc # "gone" => Listen \in open[Parent]
    /\ \A p \in Children : child[p] \notin {"read", "write"} => open[p] = {}
    /\ \A c \in Clients : child[c] \in {"read", "write"} => c \in open[c]
    /\ ppc = "fork" /\ connectfd # NoFd =>
         child[connectfd] = "none" /\ connectfd \in open[Parent] /\ cpc[connectfd] # "off"
    /\ ppc = "close" /\ connectfd # NoFd => child[connectfd] # "none"

BacklogOK ==
    /\ \A j, k \in 1 .. Len(backlog) : backlog[j] = backlog[k] => j = k
    /\ \A k \in 1 .. Len(backlog) : /\ child[backlog[k]] = "none" /\ cpc[backlog[k]] # "off"
                                    /\ backlog[k] \notin open[Parent]

\* A client that has not started has left no trace.
FreshOK ==
    \A c \in Clients : cpc[c] = "off" =>
        /\ typed[c] = 0 /\ printed[c] = <<>> /\ up[c] = <<>> /\ down[c] = <<>>
        /\ c \notin garbled
        /\ child[c] = "none" /\ c \notin open[Parent]

\* The server has the connection: it waits in the backlog, or is open.
Connected(c) == \/ c \in open[c] \/ c \in open[Parent]
                \/ \E k \in 1 .. Len(backlog) : backlog[k] = c

\* Lines the child holds
Held(c) == IF child[c] = "write" THEN 1 ELSE 0

\* Lines that may be on their way at once: one, or all if the client does not wait.
Most(c) == IF c \in Timed THEN typed[c] ELSE IF cpc[c] = "reply" THEN 1 ELSE 0

\* Below, u and d are the contents of a connection's two directions, h says how
\* many lines the child holds, b which, and n how many the client has sent.

\* There are only lines on the connection, and not too many of them.
OnlyLines(u, d, h, most) == /\ \A k \in 1 .. Len(u) : u[k] > 0
                            /\ \A k \in 1 .. Len(d) : d[k] > 0
                            /\ Len(u) + Len(d) + h <= most

\* While the connection is up there are only lines on it; afterwards an end of it
\* for the side that has not closed yet.
Load(c) ==
    /\ ~Ended(c) /\ Connected(c) => OnlyLines(up[c], down[c], Held(c), Most(c))
    /\ ~Ended(c) /\ ~Connected(c) => up[c] = <<>> /\ Len(down[c]) <= Most(c) + 1
    /\ Ended(c) => down[c] = <<>> /\ Len(up[c]) <= (IF c \in Timed THEN Lines ELSE 1) + 1
LoadOK == \A c \in Clients : Load(c)

\* Neither the client, nor its child, nor the parent has met a fault.
Unharmed(c) == c \notin hit /\ Parent \notin hit

\* Lines whose echo the client has read.
Echoed(u, d, h, n) == n - (Len(u) + Len(d) + h)

\* The lines on their way are the last ones typed, in order: first those on their
\* way back, then the one the child holds, then those on their way up.
Flight(u, d, h, b, n) ==
    /\ Echoed(u, d, h, n) >= 0
    /\ \A k \in 1 .. Len(d) : d[k] = Echoed(u, d, h, n) + k
    /\ h = 1 => b = Echoed(u, d, h, n) + Len(d) + 1
    /\ \A k \in 1 .. Len(u) : u[k] = Echoed(u, d, h, n) + Len(d) + h + k

\* Lines that have been answered, by an echo or by a timeout.
Answered(c) == IF cpc[c] = "reply" THEN typed[c] - 1 ELSE typed[c]

\* What s, the output, holds when a lines have been answered ...
Screen(s, a) == /\ a >= 0 /\ Len(s) >= a
                /\ \A k \in 1 .. Len(s) : s[k] \in 1 .. k

\* ... each by its echo.
Punctual(s, a) == Len(s) = a /\ \A k \in 1 .. Len(s) : s[k] = k

Served(c) ==
    Unharmed(c) =>
        /\ cpc[c] \in {"typing", "reply"} =>
             /\ Connected(c) /\ child[c] \in {"none", "read", "write"}
             /\ Flight(up[c], down[c], Held(c), buffer[c], typed[c])
             /\ Screen(printed[c], Answered(c))
             /\ c \notin late => /\ Punctual(printed[c], Answered(c)) /\ c \notin garbled
                                 /\ Echoed(up[c], down[c], Held(c), typed[c]) = Answered(c)
        /\ Ended(c) => cpc[c] = "exit0" /\ Shown(c)
ServedOK == \A c \in Clients : Served(c)

IndInv == BaseOK /\ SocketsOK /\ BacklogOK /\ FreshOK /\ LoadOK /\ ServedOK

-----------------------------------------------------------------------------
LEMMA NamesApart ==
  /\ Parent \in Servers /\ Parent \notin Children
  /\ \A c \in Clients : c \in Children /\ c \in Servers /\ c # Parent /\ c # Listen /\ c # NoFd
  /\ \A p \in Children : p \in Servers /\ p # Parent /\ p # Listen
  /\ \A p \in Servers : p = Parent \/ p \in Children
  /\ \A p \in Strays : p \in Children /\ p \notin Clients
  /\ Listen \notin Clients /\ NoFd \notin Clients /\ Listen # NoFd
BY NamesAssumption DEF Children, Servers

LEMMA RangeBacklog ==
  ASSUME backlog \in Seq(Clients), NEW c
  PROVE  c \in Range(backlog) <=> \E k \in 1 .. Len(backlog) : backlog[k] = c
BY DEF Range

\* In a table in which connections are isolated, two places decide.
LEMMA OpenInTwo ==
  ASSUME NEW table \in [Servers -> SUBSET (Clients \cup {Listen})],
         \A p \in Servers : p # Parent => table[p] \cap Clients \subseteq {p},
         NEW c \in Clients
  PROVE  c \in OpenIn(table) <=> c \in table[c] \/ c \in table[Parent]
<1>1. c \in OpenIn(table) <=> \E p \in Servers : c \in table[p]
  BY DEF OpenIn
<1> QED BY <1>1, NamesApart

LEMMA AttachedConnected ==
  ASSUME BaseOK, Isolated, NEW c \in Clients
  PROVE  Attached(c) <=> Connected(c)
<1>1. c \in OpenIn(open) <=> c \in open[c] \/ c \in open[Parent]
  BY OpenInTwo DEF BaseOK, Isolated
<1>2. c \in Range(backlog) <=> \E k \in 1 .. Len(backlog) : backlog[k] = c
  BY RangeBacklog DEF BaseOK
<1> QED BY <1>1, <1>2 DEF Attached, Connected

\* Close cuts the connections that lose their last place, and no others.
LEMMA CloseEffect ==
  ASSUME BaseOK, SocketsOK, BacklogOK, NEW p \in Servers, NEW sockets, Close(p, sockets)
  PROVE  /\ open' = [open EXCEPT ![p] = @ \ sockets]
         /\ open' \in [Servers -> SUBSET (Clients \cup {Listen})]
         /\ up' \in [Clients -> Seq(Int)] /\ down' \in [Clients -> Seq(Int)]
         /\ backlog' \in {backlog, <<>>}
         /\ Listen \in open[Parent] /\ (p = Parent => Listen \notin sockets) => backlog' = backlog
         /\ \A c \in Clients :
              \/ /\ Connected(c)' <=> Connected(c)
                 /\ up'[c] = up[c] /\ down'[c] = down[c]
              \/ /\ Connected(c) /\ ~Connected(c)'
                 /\ up'[c] = <<>>
                 /\ \/ Ended(c) /\ down'[c] = down[c]
                    \/ ~Ended(c) /\ \E e \in {EOF, RST} : down'[c] = Append(down[c], e)
<1> DEFINE rest == [open EXCEPT ![p] = @ \ sockets]
           gone == IF Listen \in OpenIn(rest) THEN {} ELSE Range(backlog)
           closed == (OpenIn(open) \ OpenIn(rest)) \cup gone
<1>1. /\ open' = rest
      /\ down' = [c \in Clients |->
                      IF c \notin closed \/ Ended(c) THEN down[c]
                      ELSE Append(down[c], IF c \in Range(backlog) \/ up[c] # <<>> THEN RST ELSE EOF)]
      /\ up' = [c \in Clients |-> IF c \in closed THEN <<>> ELSE up[c]]
      /\ backlog' = IF Listen \in OpenIn(rest) THEN backlog ELSE <<>>
  BY Zenon DEF Close
<1>2. rest \in [Servers -> SUBSET (Clients \cup {Listen})]
  BY DEF BaseOK
<1>3. \A q \in Servers : rest[q] \subseteq open[q] /\ (q # p => rest[q] = open[q])
  BY DEF BaseOK
<1>4. \A c \in Clients : c \in OpenIn(rest) <=> c \in rest[c] \/ c \in rest[Parent]
  <2>1. \A q \in Servers : q # Parent => rest[q] \cap Clients \subseteq {q}
    BY <1>3 DEF SocketsOK, Isolated
  <2> QED BY <1>2, <2>1, OpenInTwo
<1>5. \A c \in Clients : c \in OpenIn(open) <=> c \in open[c] \/ c \in open[Parent]
  <2>1. \A q \in Servers : q # Parent => open[q] \cap Clients \subseteq {q}
    BY DEF SocketsOK, Isolated
  <2> QED BY <2>1, OpenInTwo DEF BaseOK
<1>6. \A c : c \in Range(backlog) <=> \E k \in 1 .. Len(backlog) : backlog[k] = c
  BY RangeBacklog DEF BaseOK
<1>7. \A c \in Range(backlog) : c \in Clients /\ c \notin open[c] /\ c \notin open[Parent]
  <2> SUFFICES ASSUME NEW c \in Range(backlog)
               PROVE  c \in Clients /\ c \notin open[c] /\ c \notin open[Parent]
    OBVIOUS
  <2>1. PICK k \in 1 .. Len(backlog) : backlog[k] = c
    BY <1>6
  <2>2. c \in Clients /\ child[c] = "none" /\ c \notin open[Parent]
    <3>1. backlog \in Seq(Clients)
      BY DEF BaseOK
    <3>2. c \in Clients
      BY <2>1, <3>1
    <3> QED BY <2>1, <3>2 DEF BacklogOK
  <2> QED BY <2>2, NamesApart DEF SocketsOK
<1>8. backlog' \in {backlog, <<>>}
  BY <1>1
<1>9. Listen \in open[Parent] /\ (p = Parent => Listen \notin sockets) => backlog' = backlog
  <2>1. Listen \in open[Parent] /\ (p = Parent => Listen \notin sockets) => Listen \in rest[Parent]
    BY NamesApart DEF BaseOK
  <2>2. Listen \in rest[Parent] => Listen \in OpenIn(rest)
    BY NamesApart DEF OpenIn
  <2> QED BY <1>1, <2>1, <2>2
<1>10. ASSUME NEW c \in Clients
       PROVE  /\ c \in closed => Connected(c) /\ ~Connected(c)'
              /\ c \notin closed => (Connected(c)' <=> Connected(c))
  <2>0. c # Parent /\ c \in Servers /\ Parent \in Servers
    BY NamesApart
  <2>1. Connected(c) <=> c \in OpenIn(open) \/ c \in Range(backlog)
    BY <1>5, <1>6 DEF Connected
  <2>2. Connected(c)' <=> c \in OpenIn(rest) \/ (Listen \in OpenIn(rest) /\ c \in Range(backlog))
    <3>1. Connected(c)' <=> c \in OpenIn(rest) \/ \E k \in 1 .. Len(backlog') : backlog'[k] = c
      BY <1>1, <1>4 DEF Connected
    <3>2. (\E k \in 1 .. Len(backlog') : backlog'[k] = c)
              <=> Listen \in OpenIn(rest) /\ c \in Range(backlog)
      BY <1>1, <1>6
    <3> QED BY <3>1, <3>2
  <2>3. c \in OpenIn(rest) => c \in OpenIn(open)
    BY <1>3, <1>4, <1>5, <2>0
  <2>4. c \in Range(backlog) => c \notin OpenIn(open)
    BY <1>5, <1>7
  <2> QED BY <2>1, <2>2, <2>3, <2>4
<1>11. up' \in [Clients -> Seq(Int)] /\ down' \in [Clients -> Seq(Int)]
  BY <1>1 DEF BaseOK, EOF, RST
<1>12. ASSUME NEW c \in Clients
       PROVE  \/ /\ Connected(c)' <=> Connected(c)
                 /\ up'[c] = up[c] /\ down'[c] = down[c]
              \/ /\ Connected(c) /\ ~Connected(c)'
                 /\ up'[c] = <<>>
                 /\ \/ Ended(c) /\ down'[c] = down[c]
                    \/ ~Ended(c) /\ \E e \in {EOF, RST} : down'[c] = Append(down[c], e)
  <2> HIDE DEF closed
  <2>1. CASE c \notin closed
    BY <1>1, <1>10, <2>1
  <2>2. CASE c \in closed
    BY <1>1, <1>10, <2>2
  <2> QED BY <2>1, <2>2
<1> QED BY <1>1, <1>2, <1>8, <1>9, <1>11, <1>12

-----------------------------------------------------------------------------
(* What the steps do to the lines on their way *)

LEMMA NothingSent ==
  /\ OnlyLines(<<>>, <<>>, 0, 0)
  /\ \A b : Flight(<<>>, <<>>, 0, b, 0)
  /\ Screen(<<>>, 0) /\ Punctual(<<>>, 0) /\ Echoed(<<>>, <<>>, 0, 0) = 0
<1>1. ASSUME NEW z, Len(z) = 0
      PROVE  /\ OnlyLines(z, z, 0, 0) /\ \A b : Flight(z, z, 0, b, 0)
             /\ Screen(z, 0) /\ Punctual(z, 0) /\ Echoed(z, z, 0, 0) = 0
  <2>1. Echoed(z, z, 0, 0) = 0
    BY <1>1 DEF Echoed
  <2>2. OnlyLines(z, z, 0, 0) /\ Screen(z, 0) /\ Punctual(z, 0)
    BY <1>1 DEF OnlyLines, Screen, Punctual
  <2>3. \A b : Flight(z, z, 0, b, 0)
    BY <1>1, <2>1 DEF Flight
  <2> QED BY <2>1, <2>2, <2>3
<1>2. Len(<<>>) = 0
  BY EmptySeq
<1> QED BY <1>1, <1>2, Zenon

LEMMA FewLines ==
  ASSUME NEW u \in Seq(Int), NEW d \in Seq(Int), NEW h \in 0 .. 1, NEW m \in Nat, OnlyLines(u, d, h, m)
  PROVE  /\ Len(u) <= m /\ Len(d) <= m /\ Len(u) + Len(d) <= m
         /\ \A g \in 0 .. 1 : g <= h => OnlyLines(u, d, g, m)
<1>1. Len(u) \in Nat /\ Len(d) \in Nat /\ Len(u) + Len(d) + h <= m
  BY DEF OnlyLines
<1>2. \A g \in 0 .. 1 : g <= h => Len(u) + Len(d) + g <= m
  BY <1>1
<1> QED BY <1>1, <1>2 DEF OnlyLines

LEMMA AppendFacts ==
  ASSUME NEW s \in Seq(Int), NEW x \in Int
  PROVE  /\ Append(s, x) \in Seq(Int) /\ Len(s) \in Nat /\ Len(Append(s, x)) = Len(s) + 1
         /\ \A k \in 1 .. Len(s) + 1 : Append(s, x)[k] = IF k <= Len(s) THEN s[k] ELSE x
OBVIOUS

LEMMA LineSent ==
  ASSUME NEW u \in Seq(Int), NEW d \in Seq(Int), NEW h \in 0 .. 1, NEW b, NEW n \in Nat
  PROVE  /\ \A m, l \in Nat : OnlyLines(u, d, h, m) /\ m < l => OnlyLines(Append(u, n + 1), d, h, l)
         /\ Flight(u, d, h, b, n) => Flight(Append(u, n + 1), d, h, b, n + 1)
         /\ Echoed(Append(u, n + 1), d, h, n + 1) = Echoed(u, d, h, n)
<1> DEFINE v == Append(u, n + 1)
<1>1. /\ Len(u) \in Nat /\ Len(d) \in Nat /\ Len(v) = Len(u) + 1
      /\ \A k \in 1 .. Len(u) + 1 : v[k] = IF k <= Len(u) THEN u[k] ELSE n + 1
  BY AppendFacts
<1> HIDE DEF v
<1>2. ASSUME NEW m \in Nat, NEW l \in Nat, OnlyLines(u, d, h, m), m < l PROVE OnlyLines(v, d, h, l)
  <2>1. ASSUME NEW k \in 1 .. Len(v) PROVE v[k] > 0
    <3>1. k \in 1 .. Len(u) + 1
      BY <1>1
    <3>2. CASE k <= Len(u)
      <4>1. k \in 1 .. Len(u)
        BY <1>1, <3>1, <3>2
      <4> QED BY <1>1, <1>2, <3>1, <3>2, <4>1 DEF OnlyLines
    <3>3. CASE ~(k <= Len(u))
      BY <1>1, <3>1, <3>3
    <3> QED BY <3>2, <3>3
  <2>2. Len(v) + Len(d) + h <= l
    BY <1>1, <1>2 DEF OnlyLines
  <2> QED BY <1>2, <2>1, <2>2 DEF OnlyLines
<1>3. Echoed(v, d, h, n + 1) = Echoed(u, d, h, n)
  BY <1>1 DEF Echoed
<1>4. ASSUME Flight(u, d, h, b, n) PROVE Flight(v, d, h, b, n + 1)
  <2>1. Echoed(u, d, h, n) = n - (Len(u) + Len(d) + h)
    BY DEF Echoed
  <2>2. ASSUME NEW k \in 1 .. Len(v) PROVE v[k] = Echoed(u, d, h, n) + Len(d) + h + k
    <3>1. k \in 1 .. Len(u) + 1
      BY <1>1
    <3>2. CASE k <= Len(u)
      <4>1. k \in 1 .. Len(u)
        BY <1>1, <3>1, <3>2
      <4> QED BY <1>1, <1>4, <3>1, <3>2, <4>1 DEF Flight
    <3>3. CASE ~(k <= Len(u))
      BY <1>1, <2>1, <3>1, <3>3
    <3> QED BY <3>2, <3>3
  <2> QED BY <1>3, <1>4, <2>2 DEF Flight
<1> QED BY <1>2, <1>3, <1>4 DEF v

LEMMA LineRead ==
  ASSUME NEW u \in Seq(Int), u # <<>>, NEW d \in Seq(Int), NEW b, NEW n \in Nat
  PROVE  /\ Tail(u) \in Seq(Int) /\ Len(Tail(u)) = Len(u) - 1 /\ Len(u) \in Nat
         /\ \A m \in Nat : OnlyLines(u, d, 0, m) => OnlyLines(Tail(u), d, 1, m)
         /\ Flight(u, d, 0, b, n) => Flight(Tail(u), d, 1, Head(u), n)
         /\ Echoed(Tail(u), d, 1, n) = Echoed(u, d, 0, n)
<1> DEFINE v == Tail(u)
<1>1. /\ Len(u) \in Nat \ {0} /\ Len(d) \in Nat /\ Len(v) = Len(u) - 1 /\ v \in Seq(Int)
      /\ \A k \in 1 .. Len(v) : v[k] = u[k + 1]
      /\ Head(u) = u[1]
  BY HeadTailProperties, EmptySeq
<1> HIDE DEF v
<1>2. ASSUME NEW m \in Nat, OnlyLines(u, d, 0, m) PROVE OnlyLines(v, d, 1, m)
  <2>1. ASSUME NEW k \in 1 .. Len(v) PROVE v[k] > 0
    <3>1. k + 1 \in 1 .. Len(u) /\ v[k] = u[k + 1]
      BY <1>1
    <3> QED BY <1>2, <3>1 DEF OnlyLines
  <2>2. Len(v) + Len(d) + 1 <= m
    BY <1>1, <1>2 DEF OnlyLines
  <2> QED BY <1>2, <2>1, <2>2 DEF OnlyLines
<1>3. Echoed(v, d, 1, n) = Echoed(u, d, 0, n)
  BY <1>1 DEF Echoed
<1>4. Flight(u, d, 0, b, n) => Flight(v, d, 1, Head(u), n)
  BY <1>1 DEF Flight, Echoed
<1> QED BY <1>1, <1>2, <1>3, <1>4 DEF v

LEMMA LineWritten ==
  ASSUME NEW u \in Seq(Int), NEW d \in Seq(Int), NEW b \in Int, NEW n \in Nat
  PROVE  /\ \A m \in Nat : OnlyLines(u, d, 1, m) /\ b > 0 => OnlyLines(u, Append(d, b), 0, m)
         /\ \A e : Flight(u, d, 1, b, n) => Flight(u, Append(d, b), 0, e, n)
         /\ Echoed(u, Append(d, b), 0, n) = Echoed(u, d, 1, n)
<1> DEFINE v == Append(d, b)
<1>1. /\ Len(u) \in Nat /\ Len(d) \in Nat /\ Len(v) = Len(d) + 1
      /\ \A k \in 1 .. Len(d) + 1 : v[k] = IF k <= Len(d) THEN d[k] ELSE b
  BY AppendFacts
<1> HIDE DEF v
<1>2. \A m \in Nat : OnlyLines(u, d, 1, m) /\ b > 0 => OnlyLines(u, v, 0, m)
  BY <1>1 DEF OnlyLines
<1>3. Echoed(u, v, 0, n) = Echoed(u, d, 1, n)
  BY <1>1 DEF Echoed
<1>4. ASSUME NEW e, Flight(u, d, 1, b, n) PROVE Flight(u, v, 0, e, n)
  <2>1. Echoed(u, d, 1, n) = n - (Len(u) + Len(d) + 1)
    BY DEF Echoed
  <2>2. ASSUME NEW k \in 1 .. Len(v) PROVE v[k] = Echoed(u, d, 1, n) + k
    <3>1. k \in 1 .. Len(d) + 1
      BY <1>1
    <3>2. CASE k <= Len(d)
      <4>1. k \in 1 .. Len(d)
        BY <1>1, <3>1, <3>2
      <4> QED BY <1>1, <1>4, <3>1, <3>2, <4>1 DEF Flight
    <3>3. CASE ~(k <= Len(d))
      <4>1. k = Len(d) + 1 /\ v[k] = b
        BY <1>1, <3>1, <3>3
      <4> QED BY <1>1, <1>4, <2>1, <4>1 DEF Flight
    <3> QED BY <3>2, <3>3
  <2>3. \A k \in 1 .. Len(u) : u[k] = Echoed(u, d, 1, n) + Len(v) + 0 + k
    BY <1>1, <1>4, <2>1 DEF Flight
  <2> QED BY <1>3, <1>4, <2>2, <2>3 DEF Flight
<1> QED BY <1>2, <1>3, <1>4 DEF v

LEMMA LinesShown ==
  ASSUME NEW u \in Seq(Int), NEW d \in Seq(Int), NEW h \in 0 .. 1, NEW b, NEW n \in Nat,
         NEW m \in 1 .. Len(d), NEW s \in Seq(Int)
  PROVE  LET rest == SubSeq(d, m + 1, Len(d))
             shown == s \o SubSeq(d, 1, m)
             e == Echoed(u, d, h, n)
         IN  /\ rest \in Seq(Int) /\ Len(rest) = Len(d) - m /\ shown \in Seq(Int)
             /\ \A most \in Nat : OnlyLines(u, d, h, most) => OnlyLines(u, rest, h, most)
             /\ OnlyLines(u, d, h, 1) => OnlyLines(u, rest, h, 0)
             /\ Flight(u, d, h, b, n) => Flight(u, rest, h, b, n)
             /\ Flight(u, d, h, b, n) /\ Screen(s, n - 1) => Screen(shown, n)
             /\ Flight(u, d, h, b, n) /\ Punctual(s, n - 1) /\ e = n - 1 =>
                  Punctual(shown, n) /\ Echoed(u, rest, h, n) = n
<1> DEFINE rest == SubSeq(d, m + 1, Len(d))
           first == SubSeq(d, 1, m)
           shown == s \o first
           e == Echoed(u, d, h, n)
<1>0. Len(u) \in Nat /\ Len(d) \in Nat /\ Len(s) \in Nat /\ m \in Nat /\ \A k \in 1 .. Len(d) : d[k] \in Int
  OBVIOUS
<1>1. /\ Len(rest) = Len(d) - m /\ rest \in Seq(Int)
      /\ \A k \in 1 .. Len(d) - m : rest[k] = d[m + k]
  <2>1. \A k \in m + 1 .. Len(d) : d[k] \in Int
    BY <1>0
  <2>2. /\ rest \in Seq(Int) /\ Len(rest) = IF m + 1 <= Len(d) THEN Len(d) - (m + 1) + 1 ELSE 0
        /\ \A k \in 1 .. Len(d) - (m + 1) + 1 : rest[k] = d[(m + 1) + k - 1]
    BY <1>0, <2>1, SubSeqProperties
  <2> HIDE DEF rest
  <2> QED BY <1>0, <2>2
<1>2. /\ Len(first) = m /\ first \in Seq(Int)
      /\ \A k \in 1 .. m : first[k] = d[k]
  <2>1. \A k \in 1 .. m : d[k] \in Int
    BY <1>0
  <2>2. /\ first \in Seq(Int) /\ Len(first) = IF 1 <= m THEN m - 1 + 1 ELSE 0
        /\ \A k \in 1 .. m - 1 + 1 : first[k] = d[1 + k - 1]
    BY <1>0, <2>1, SubSeqProperties
  <2> HIDE DEF first
  <2> QED BY <1>0, <2>2
<1> HIDE DEF rest, first
<1>3. /\ Len(shown) = Len(s) + m /\ shown \in Seq(Int)
      /\ \A k \in 1 .. Len(s) + m : shown[k] = IF k <= Len(s) THEN s[k] ELSE d[k - Len(s)]
  <2>1. /\ shown \in Seq(Int) /\ Len(shown) = Len(s) + Len(first)
        /\ \A k \in 1 .. Len(s) + Len(first) :
             shown[k] = IF k <= Len(s) THEN s[k] ELSE first[k - Len(s)]
    BY <1>2, ConcatProperties
  <2> HIDE DEF shown
  <2>2. ASSUME NEW k \in 1 .. Len(s) + m
        PROVE  shown[k] = IF k <= Len(s) THEN s[k] ELSE d[k - Len(s)]
    <3>1. k \in 1 .. Len(s) + Len(first)
      BY <1>2
    <3>2. CASE k <= Len(s)
      BY <2>1, <3>1, <3>2
    <3>3. CASE ~(k <= Len(s))
      <4>1. k - Len(s) \in 1 .. m
        BY <1>0, <3>3
      <4> QED BY <1>2, <2>1, <3>1, <3>3, <4>1
    <3> QED BY <3>2, <3>3
  <2> QED BY <1>2, <2>1, <2>2
<1> HIDE DEF shown
<1>4. ASSUME NEW most \in Nat, OnlyLines(u, d, h, most) PROVE OnlyLines(u, rest, h, most)
  <2>1. ASSUME NEW k \in 1 .. Len(rest) PROVE rest[k] > 0
    <3>1. m + k \in 1 .. Len(d) /\ rest[k] = d[m + k]
      BY <1>0, <1>1
    <3> QED BY <1>4, <3>1 DEF OnlyLines
  <2> QED BY <1>0, <1>1, <1>4, <2>1 DEF OnlyLines
<1>5. OnlyLines(u, d, h, 1) => OnlyLines(u, rest, h, 0)
  BY <1>0, <1>1 DEF OnlyLines
<1>6. Echoed(u, rest, h, n) = e + m /\ e = n - (Len(u) + Len(d) + h)
  BY <1>0, <1>1 DEF Echoed
<1> HIDE DEF e
<1>7. ASSUME Flight(u, d, h, b, n) PROVE Flight(u, rest, h, b, n)
  <2>1. /\ e >= 0 /\ e \in Int /\ \A k \in 1 .. Len(d) : d[k] = e + k
        /\ h = 1 => b = e + Len(d) + 1
        /\ \A k \in 1 .. Len(u) : u[k] = e + Len(d) + h + k
    BY <1>0, <1>6, <1>7 DEF Flight, e
  <2>2. \A k \in 1 .. Len(rest) : rest[k] = (e + m) + k
    BY <1>0, <1>1, <2>1
  <2>3. \A k \in 1 .. Len(u) : u[k] = (e + m) + Len(rest) + h + k
    BY <1>0, <1>1, <2>1
  <2>4. (e + m) >= 0 /\ (h = 1 => b = (e + m) + Len(rest) + 1)
    BY <1>0, <1>1, <2>1
  <2> QED BY <1>6, <2>2, <2>3, <2>4 DEF Flight
<1>8. Flight(u, d, h, b, n) => /\ e >= 0 /\ e + m <= n /\ \A k \in 1 .. m : d[k] = e + k
  BY <1>0, <1>6 DEF Flight, e
<1>9. ASSUME Flight(u, d, h, b, n), Screen(s, n - 1) PROVE Screen(shown, n)
  <2>1. Len(shown) >= n
    BY <1>0, <1>3, <1>9 DEF Screen
  <2>2. ASSUME NEW k \in 1 .. Len(shown) PROVE shown[k] \in 1 .. k
    <3>1. CASE k <= Len(s)
      <4>1. k \in 1 .. Len(s) /\ k \in 1 .. Len(s) + m
        BY <1>0, <1>3, <3>1
      <4> QED BY <1>3, <1>9, <3>1, <4>1 DEF Screen
    <3>2. CASE k > Len(s)
      <4>1. k - Len(s) \in 1 .. m /\ shown[k] = d[k - Len(s)]
        BY <1>0, <1>3, <3>2
      <4>2. shown[k] = e + (k - Len(s)) /\ e >= 0 /\ e + m <= n /\ e \in Int
        BY <1>0, <1>6, <1>8, <1>9, <4>1
      <4>3. Len(s) >= n - 1
        BY <1>9 DEF Screen
      <4> QED BY <1>0, <4>1, <4>2, <4>3
    <3> QED BY <1>0, <1>3, <3>1, <3>2
  <2> QED BY <2>1, <2>2 DEF Screen
<1>10. ASSUME Flight(u, d, h, b, n), Punctual(s, n - 1), e = n - 1
       PROVE  Punctual(shown, n) /\ Echoed(u, rest, h, n) = n
  <2>1. m = 1 /\ Len(s) = n - 1
    BY <1>0, <1>8, <1>10 DEF Punctual
  <2>2. ASSUME NEW k \in 1 .. Len(shown) PROVE shown[k] = k
    <3>1. CASE k <= Len(s)
      <4>1. k \in 1 .. Len(s) /\ k \in 1 .. Len(s) + m
        BY <1>0, <1>3, <3>1
      <4> QED BY <1>3, <1>10, <3>1, <4>1 DEF Punctual
    <3>2. CASE k = n
      BY <1>0, <1>3, <1>8, <1>10, <2>1, <3>2
    <3> QED BY <1>0, <1>3, <2>1, <3>1, <3>2
  <2> QED BY <1>0, <1>3, <1>6, <1>10, <2>1, <2>2 DEF Punctual
<1> QED BY <1>1, <1>3, <1>4, <1>5, <1>7, <1>9, <1>10 DEF rest, first, shown, e

-----------------------------------------------------------------------------
(* What a step leaves alone *)

\* Its child is where it was, or has just been forked or reaped.
ChildSame(c) == \/ child'[c] = child[c]
                \/ child[c] = "none" /\ child'[c] = "read"
                \/ child[c] = "zombie" /\ child'[c] = "reaped"

\* Nothing that concerns the connection of client c has changed.
Same(c) == /\ cpc'[c] = cpc[c] /\ typed'[c] = typed[c] /\ printed'[c] = printed[c]
           /\ (c \in late' <=> c \in late) /\ (c \in garbled' <=> c \in garbled)
           /\ up'[c] = up[c] /\ down'[c] = down[c]
           /\ ChildSame(c) /\ buffer'[c] = buffer[c]
           /\ Connected(c)' <=> Connected(c)

LEMMA SameLoad == ASSUME NEW c \in Clients, Load(c), Same(c) PROVE Load(c)'
BY DEF Same, ChildSame, Load, Held, Most, Ended

LEMMA SameServed ==
  ASSUME NEW c \in Clients, Served(c), Same(c), hit \subseteq hit'
  PROVE  Served(c)'
<1>1. Held(c)' = Held(c) /\ Answered(c)' = Answered(c)
  BY DEF Same, ChildSame, Held, Answered
<1>3. (Shown(c)' <=> Shown(c)) /\ (Ended(c)' <=> Ended(c))
  BY DEF Same, Shown, Ended
<1>4. Unharmed(c)' => Unharmed(c)
  BY DEF Unharmed
<1> QED BY <1>1, <1>3, <1>4 DEF Served, Same, ChildSame

LEMMA SameConnected == ASSUME NEW c \in Clients, UNCHANGED <<open, backlog>>
                       PROVE  Connected(c)' <=> Connected(c)
BY DEF Connected

\* A step of client c: what remains to be shown is about c alone.
LEMMA ClientStep ==
  ASSUME IndInv, NEW c \in Clients, NEW from, NEW to, ClientGoto(c, from, to),
         to \in {"typing", "reply", "exit0", "failed", "killed"},
         typed' \in [Clients -> 0 .. Lines], printed' \in [Clients -> Seq(Int)], late' \subseteq Timed,
         garbled' \subseteq Clients, up' \in [Clients -> Seq(Int)], down' \in [Clients -> Seq(Int)],
         hit \subseteq hit', hit' \subseteq Servers, backlog' = backlog,
         \A d \in Clients \ {c} : /\ typed'[d] = typed[d] /\ printed'[d] = printed[d]
                                  /\ (d \in late' <=> d \in late)
                                  /\ (d \in garbled' <=> d \in garbled)
                                  /\ up'[d] = up[d] /\ down'[d] = down[d],
         Load(c)', Served(c)'
  PROVE  IndInv'
<1> USE DEF IndInv
<1>1. /\ cpc' = [cpc EXCEPT ![c] = to] /\ cpc'[c] = to
      /\ \A d \in Clients \ {c} : cpc'[d] = cpc[d]
      /\ UNCHANGED <<ppc, connectfd, handling, child, buffer, open, pending>>
  BY DEF ClientGoto, parentVars, BaseOK
<1>2. BaseOK'
  BY <1>1 DEF BaseOK
<1>3. SocketsOK'
  BY <1>1, NamesApart DEF SocketsOK, Isolated, BaseOK
<1>4. BacklogOK'
  <2>1. \A k \in 1 .. Len(backlog) : backlog[k] \in Clients
    BY DEF BaseOK
  <2>2. \A k \in 1 .. Len(backlog) : cpc'[backlog[k]] # "off"
    BY <1>1, <2>1 DEF BacklogOK
  <2> QED BY <1>1, <2>2 DEF BacklogOK
<1>5. FreshOK'
  BY <1>1 DEF FreshOK
<1>6. \A d \in Clients \ {c} : Same(d)
  BY <1>1, SameConnected DEF Same, ChildSame
<1>7. LoadOK'
  BY <1>6, SameLoad DEF LoadOK
<1>8. ServedOK'
  BY <1>6, SameServed DEF ServedOK
<1> QED BY <1>2, <1>3, <1>4, <1>5, <1>7, <1>8

\* A step of the server that touches no client's own state.
LEMMA ServerStep ==
  ASSUME IndInv, UNCHANGED clientVars, hit \subseteq hit',
         BaseOK', SocketsOK', BacklogOK', FreshOK',
         \A c \in Clients : Same(c) \/ (Load(c)' /\ Served(c)')
  PROVE  IndInv'
<1>1. LoadOK'
  BY SameLoad DEF IndInv, LoadOK
<1>2. ServedOK'
  BY SameServed DEF IndInv, ServedOK
<1> QED BY <1>1, <1>2 DEF IndInv

-----------------------------------------------------------------------------
(* The client's steps *)

\* What the invariant says of one client.
LEMMA OneClient ==
  ASSUME IndInv, NEW c \in Clients
  PROVE  /\ Load(c) /\ Served(c) /\ (Attached(c) <=> Connected(c))
         /\ cpc[c] \in {"off", "typing", "reply", "exit0", "failed", "killed"}
         /\ typed[c] \in 0 .. Lines /\ Lines \in Nat /\ printed[c] \in Seq(Int)
         /\ up[c] \in Seq(Int) /\ down[c] \in Seq(Int) /\ Held(c) \in 0 .. 1
         /\ child[c] \in {"none", "read", "write", "zombie", "reaped"} /\ buffer[c] \in Int
         /\ (c \notin Timed => c \notin late)
<1>1. Load(c) /\ Served(c) /\ (Attached(c) <=> Connected(c))
  BY AttachedConnected DEF IndInv, LoadOK, ServedOK, SocketsOK
<1> QED BY <1>1, NamesApart, SizesAssumption DEF IndInv, BaseOK, Held

LEMMA ConnectInd == ASSUME IndInv, NEW c \in Clients, connect(c) PROVE IndInv'
<1> USE DEF IndInv
<1>0. /\ cpc[c] = "off" /\ cpc' = [cpc EXCEPT ![c] = "typing"] /\ backlog' = Append(backlog, c)
      /\ UNCHANGED <<typed, printed, late, garbled, up, down, hit, ppc, connectfd, handling>>
      /\ UNCHANGED <<child, buffer, open, pending>>
  BY DEF connect, ClientGoto, parentVars
<1>1. /\ backlog \in Seq(Clients) /\ backlog' \in Seq(Clients) /\ Len(backlog') = Len(backlog) + 1
      /\ \A k \in 1 .. Len(backlog) : backlog[k] \in Clients /\ backlog'[k] = backlog[k]
      /\ backlog'[Len(backlog) + 1] = c
      /\ \A k \in 1 .. Len(backlog') : k \in 1 .. Len(backlog) \/ k = Len(backlog) + 1
      /\ Len(backlog) \in Nat
  <2>1. backlog \in Seq(Clients)
    BY DEF BaseOK
  <2> HIDE DEF IndInv
  <2> QED BY <1>0, <2>1
<1>2. /\ cpc'[c] = "typing" /\ \A d \in Clients \ {c} : cpc'[d] = cpc[d]
  BY <1>0 DEF BaseOK
<1>3. BaseOK'
  BY <1>0, <1>1 DEF BaseOK
<1>4. SocketsOK'
  BY <1>0, <1>2, NamesApart DEF SocketsOK, Isolated, BaseOK
<1>5. child[c] = "none" /\ c \notin open[Parent]
  BY <1>0 DEF FreshOK
<1>6. BacklogOK'
  <2>1. \A k \in 1 .. Len(backlog) : backlog[k] # c
    BY <1>0 DEF BacklogOK
  <2>2. \A j, k \in 1 .. Len(backlog') : backlog'[j] = backlog'[k] => j = k
    BY <1>1, <2>1 DEF BacklogOK
  <2>3. \A k \in 1 .. Len(backlog') : /\ child'[backlog'[k]] = "none" /\ cpc'[backlog'[k]] # "off"
                                      /\ backlog'[k] \notin open'[Parent]
    BY <1>0, <1>1, <1>2, <1>5 DEF BacklogOK
  <2> QED BY <2>2, <2>3 DEF BacklogOK
<1>7. FreshOK'
  BY <1>0, <1>2 DEF FreshOK
<1>8. ASSUME NEW d \in Clients \ {c} PROVE Same(d)
  <2>1. Connected(d)' <=> Connected(d)
    BY <1>0, <1>1 DEF Connected
  <2> QED BY <1>0, <1>2, <2>1 DEF Same, ChildSame
<1>9. /\ typed[c] = 0 /\ printed[c] = <<>> /\ up[c] = <<>> /\ down[c] = <<>> /\ Held(c)' = 0
      /\ c \notin garbled /\ Connected(c)' /\ Most(c)' = 0 /\ Answered(c)' = 0
  <2>1. Connected(c)'
    BY <1>1 DEF Connected
  <2> QED BY <1>0, <1>2, <1>5, <2>1 DEF FreshOK, Held, Most, Answered
<1>10. Load(c)'
  BY <1>0, <1>2, <1>9, NothingSent DEF Load, Ended
<1>11. Served(c)'
  BY <1>0, <1>2, <1>5, <1>9, NothingSent DEF Served, Ended
<1>12. LoadOK'
  BY <1>8, <1>10, SameLoad DEF LoadOK
<1>13. ServedOK'
  <2>1. hit \subseteq hit'
    BY <1>0
  <2> QED BY <1>8, <1>11, <2>1, SameServed DEF ServedOK
<1> QED BY <1>3, <1>4, <1>6, <1>7, <1>12, <1>13

LEMMA ConnectRefusedInd == ASSUME IndInv, NEW c \in Clients, ConnectRefused(c) PROVE IndInv'
<1>0. /\ cpc[c] = "off" /\ cpc' = [cpc EXCEPT ![c] = "failed"]
      /\ UNCHANGED <<typed, printed, late, garbled, up, down, hit, backlog, open, child>>
      /\ Listen \notin OpenIn(open)
  BY DEF ConnectRefused, ClientGoto
<1>1. cpc'[c] = "failed"
  BY <1>0 DEF IndInv, BaseOK
<1>2. up[c] = <<>> /\ down[c] = <<>>
  BY <1>0 DEF IndInv, FreshOK
<1>3. Load(c)'
  BY <1>0, <1>1, <1>2, SizesAssumption DEF Load, Ended
<1>4. ~Unharmed(c)
  <2>1. Listen \notin open[Parent]
    BY <1>0, NamesApart DEF OpenIn
  <2> QED BY <2>1 DEF IndInv, SocketsOK, Unharmed
<1>5. Served(c)'
  BY <1>0, <1>4 DEF Served, Unharmed
<1>6. ClientGoto(c, "off", "failed")
  BY DEF ConnectRefused
<1> QED BY <1>0, <1>3, <1>5, <1>6, ClientStep DEF IndInv, BaseOK

LEMMA ConnectTimeoutInd == ASSUME IndInv, NEW c \in Clients, ConnectTimeout(c) PROVE IndInv'
<1>0. /\ cpc[c] = "off" /\ cpc' = [cpc EXCEPT ![c] = "killed"]
      /\ UNCHANGED <<typed, printed, late, garbled, up, down, backlog, open, child>>
      /\ hit' = hit \cup {c} /\ c \in Servers
  BY NamesApart DEF ConnectTimeout, ClientGoto, Fault
<1>1. cpc'[c] = "killed"
  BY <1>0 DEF IndInv, BaseOK
<1>2. up[c] = <<>> /\ down[c] = <<>>
  BY <1>0 DEF IndInv, FreshOK
<1>3. Load(c)'
  BY <1>0, <1>1, <1>2, SizesAssumption DEF Load, Ended
<1>4. Served(c)'
  BY <1>0 DEF Served, Unharmed
<1>5. ClientGoto(c, "off", "killed")
  BY DEF ConnectTimeout
<1> QED BY <1>0, <1>3, <1>4, <1>5, ClientStep DEF IndInv, BaseOK

LEMMA SendLineInd == ASSUME IndInv, NEW c \in Clients, SendLine(c) PROVE IndInv'
<1>0. /\ cpc[c] = "typing" /\ typed[c] < Lines
      /\ cpc' = [cpc EXCEPT ![c] = "reply"] /\ typed' = [typed EXCEPT ![c] = @ + 1]
      /\ up' = [up EXCEPT ![c] = IF Attached(c) THEN Append(@, typed[c] + 1) ELSE @]
      /\ UNCHANGED <<printed, late, garbled, down, backlog, hit, child, buffer, open>>
  BY DEF SendLine, ClientGoto
<1>1. /\ cpc'[c] = "reply" /\ typed'[c] = typed[c] + 1 /\ down'[c] = down[c]
      /\ up'[c] = IF Connected(c) THEN Append(up[c], typed[c] + 1) ELSE up[c]
      /\ \A d \in Clients \ {c} : typed'[d] = typed[d] /\ up'[d] = up[d]
      /\ typed' \in [Clients -> 0 .. Lines] /\ up' \in [Clients -> Seq(Int)]
  BY <1>0, OneClient DEF IndInv, BaseOK
<1>2. /\ Connected(c)' <=> Connected(c)
      /\ Held(c)' = Held(c) /\ ~Ended(c) /\ ~Ended(c)'
  BY <1>0, <1>1 DEF Connected, Held, Ended
<1>3. /\ up[c] \in Seq(Int) /\ down[c] \in Seq(Int) /\ Held(c) \in 0 .. 1 /\ typed[c] \in Nat
      /\ Load(c) /\ Served(c) /\ Len(down[c]) \in Nat
  BY OneClient
<1>4. Load(c)'
  <2>1. Most(c) < Most(c)' /\ Most(c) \in Nat /\ Most(c)' \in Nat
    BY <1>0, <1>1, <1>3 DEF Most
  <2>2. CASE Connected(c)
    BY <1>1, <1>2, <1>3, <2>1, <2>2, LineSent DEF Load
  <2>3. CASE ~Connected(c)
    BY <1>1, <1>2, <1>3, <2>1, <2>3 DEF Load
  <2> QED BY <2>2, <2>3
<1>5. Served(c)'
  <2> SUFFICES ASSUME Unharmed(c) PROVE Served(c)'
    BY <1>0 DEF Served, Unharmed
  <2>1. Connected(c) /\ up'[c] = Append(up[c], typed[c] + 1)
    BY <1>0, <1>1, <1>3 DEF Served
  <2>2. Answered(c)' = Answered(c)
    BY <1>0, <1>1, <1>3 DEF Answered
  <2> QED BY <1>0, <1>1, <1>2, <1>3, <2>1, <2>2, LineSent DEF Served
<1>6. ClientGoto(c, "typing", "reply")
  BY DEF SendLine
<1> QED BY <1>0, <1>1, <1>4, <1>5, <1>6, ClientStep DEF IndInv, BaseOK

LEMMA SendFailsInd == ASSUME IndInv, NEW c \in Clients, SendFails(c) PROVE IndInv'
<1>0. /\ cpc[c] = "typing" /\ ~Attached(c)
      /\ cpc' = [cpc EXCEPT ![c] = "failed"] /\ down' = [down EXCEPT ![c] = <<>>]
      /\ UNCHANGED <<typed, printed, late, garbled, up, backlog, hit, child, buffer, open>>
  BY DEF SendFails, ClientGoto
<1>1. /\ cpc'[c] = "failed" /\ down'[c] = <<>>
      /\ \A d \in Clients \ {c} : down'[d] = down[d]
      /\ down' \in [Clients -> Seq(Int)]
  BY <1>0, OneClient DEF IndInv, BaseOK
<1>2. up[c] = <<>>
  BY <1>0, OneClient DEF Load, Ended
<1>3. Load(c)'
  BY <1>0, <1>1, <1>2, OneClient DEF Load, Ended
<1>4. Served(c)'
  BY <1>0, OneClient DEF Served, Unharmed
<1>5. ClientGoto(c, "typing", "failed")
  BY DEF SendFails
<1> QED BY <1>0, <1>1, <1>3, <1>4, <1>5, ClientStep DEF IndInv, BaseOK

LEMMA ShowEchoInd == ASSUME IndInv, NEW c \in Clients, ShowEcho(c) PROVE IndInv'
<1>0. /\ cpc[c] = "reply" /\ cpc' = [cpc EXCEPT ![c] = "typing"]
      /\ UNCHANGED <<typed, late, up, backlog, hit, child, buffer, open>>
  BY DEF ShowEcho, ClientGoto
<1>1. PICK m \in 1 .. Len(down[c]) :
        /\ printed' = [printed EXCEPT ![c] = @ \o SubSeq(down[c], 1, m)]
        /\ down' = [down EXCEPT ![c] = SubSeq(@, m + 1, Len(@))]
        /\ garbled' \in IF m = 1 /\ down[c][1] = typed[c] THEN {garbled}
                        ELSE {garbled, garbled \cup {c}}
  BY DEF ShowEcho, Echoes
<1>2. /\ up[c] \in Seq(Int) /\ down[c] \in Seq(Int) /\ Held(c) \in 0 .. 1 /\ typed[c] \in Nat
      /\ Load(c) /\ Served(c) /\ Len(down[c]) \in Nat /\ printed[c] \in Seq(Int)
      /\ (c \notin Timed => c \notin late)
  BY OneClient
<1>3. /\ cpc'[c] = "typing" /\ typed'[c] = typed[c] /\ up'[c] = up[c]
      /\ printed'[c] = printed[c] \o SubSeq(down[c], 1, m)
      /\ down'[c] = SubSeq(down[c], m + 1, Len(down[c]))
      /\ \A d \in Clients \ {c} : /\ printed'[d] = printed[d] /\ down'[d] = down[d]
                                  /\ (d \in garbled' <=> d \in garbled)
      /\ printed' \in [Clients -> Seq(Int)] /\ down' \in [Clients -> Seq(Int)]
      /\ garbled' \subseteq Clients
  <2>1. /\ SubSeq(down[c], m + 1, Len(down[c])) \in Seq(Int)
        /\ printed[c] \o SubSeq(down[c], 1, m) \in Seq(Int)
    BY <1>2, LinesShown
  <2> QED BY <1>0, <1>1, <2>1 DEF IndInv, BaseOK
<1>4. /\ Connected(c)' <=> Connected(c)
      /\ Held(c)' = Held(c) /\ ~Ended(c) /\ ~Ended(c)'
  BY <1>0, <1>3 DEF Connected, Held, Ended
<1> DEFINE rest == SubSeq(down[c], m + 1, Len(down[c]))
           shown == printed[c] \o SubSeq(down[c], 1, m)
           flight == Flight(up[c], down[c], Held(c), buffer[c], typed[c])
<1>a. /\ \A most \in Nat : OnlyLines(up[c], down[c], Held(c), most) => OnlyLines(up[c], rest, Held(c), most)
      /\ OnlyLines(up[c], down[c], Held(c), 1) => OnlyLines(up[c], rest, Held(c), 0)
      /\ Len(rest) = Len(down[c]) - m
  BY <1>2, LinesShown
<1>b. /\ flight => Flight(up[c], rest, Held(c), buffer[c], typed[c])
      /\ flight /\ Screen(printed[c], typed[c] - 1) => Screen(shown, typed[c])
  BY <1>2, LinesShown
<1>d. /\ flight /\ Punctual(printed[c], typed[c] - 1)
      /\ Echoed(up[c], down[c], Held(c), typed[c]) = typed[c] - 1
      => Punctual(shown, typed[c]) /\ Echoed(up[c], rest, Held(c), typed[c]) = typed[c]
  BY <1>2, LinesShown
<1>c. rest = down'[c] /\ shown = printed'[c]
  BY <1>3
<1>e. Punctual(printed[c], typed[c] - 1) /\ Punctual(shown, typed[c])
      => (c \in garbled' <=> c \in garbled)
  <2> SUFFICES ASSUME Punctual(printed[c], typed[c] - 1), Punctual(shown, typed[c])
               PROVE  m = 1 /\ down[c][1] = typed[c]
    BY <1>1
  <2> DEFINE s == printed[c]
             t == SubSeq(down[c], 1, m)
  <2>1. t \in Seq(Int) /\ Len(t) = m /\ t[1] = down[c][1]
    BY <1>2, SubSeqProperties
  <2>2. s \in Seq(Int) /\ Len(s) \in Nat /\ Len(s) = typed[c] - 1
    BY <1>2 DEF Punctual
  <2>3. Len(s \o t) = typed[c] /\ \A k \in 1 .. Len(s \o t) : (s \o t)[k] = k
    BY DEF Punctual
  <2> HIDE DEF s, t
  <2>4. Len(s \o t) = Len(s) + m /\ (s \o t)[Len(s) + 1] = t[1]
    <3>1. Len(s \o t) = Len(s) + Len(t)
          /\ \A k \in 1 .. Len(s) + Len(t) :
               (s \o t)[k] = IF k <= Len(s) THEN s[k] ELSE t[k - Len(s)]
      BY <2>1, <2>2, ConcatProperties
    <3>2. m \in Nat /\ m >= 1
      BY <1>2
    <3>3. \A x, y \in Nat : y >= 1 => x + 1 \in 1 .. x + y /\ ~(x + 1 <= x) /\ (x + 1) - x = 1
      OBVIOUS
    <3>4. Len(s) + 1 \in 1 .. Len(s) + Len(t) /\ ~(Len(s) + 1 <= Len(s)) /\ (Len(s) + 1) - Len(s) = 1
      BY <2>1, <2>2, <3>2, <3>3
    <3> QED BY <2>1, <3>1, <3>4
  <2>5. m = 1
    BY <1>2, <2>2, <2>3, <2>4
  <2>6. Len(s) + 1 \in 1 .. Len(s \o t) /\ Len(s) + 1 = typed[c]
    BY <1>2, <2>2, <2>3
  <2> QED BY <2>1, <2>3, <2>4, <2>5, <2>6
<1> HIDE DEF rest, shown
<1>5. Load(c)'
  <2>1. CASE c \in Timed
    <3>1. Most(c) = typed[c] /\ Most(c)' = typed[c]
      BY <1>3, <2>1 DEF Most
    <3>2. CASE Connected(c)
      BY <1>2, <1>3, <1>4, <1>a, <1>c, <3>1, <3>2 DEF Load
    <3>3. CASE ~Connected(c)
      BY <1>2, <1>3, <1>4, <1>a, <1>c, <3>1, <3>3 DEF Load
    <3> QED BY <3>2, <3>3
  <2>2. CASE c \notin Timed
    <3>1. Most(c) = 1 /\ Most(c)' = 0
      BY <1>0, <1>3, <2>2 DEF Most
    <3>2. CASE Connected(c)
      BY <1>2, <1>3, <1>4, <1>a, <1>c, <3>1, <3>2 DEF Load
    <3>3. CASE ~Connected(c)
      BY <1>2, <1>3, <1>4, <1>a, <1>c, <3>1, <3>3 DEF Load
    <3> QED BY <3>2, <3>3
  <2> QED BY <2>1, <2>2
<1>6. Served(c)'
  <2> SUFFICES ASSUME Unharmed(c) PROVE Served(c)'
    BY <1>0 DEF Served, Unharmed
  <2>1. Answered(c) = typed[c] - 1 /\ Answered(c)' = typed[c]
    BY <1>0, <1>3 DEF Answered
  <2>2. /\ Connected(c) /\ child[c] \in {"none", "read", "write"}
        /\ Flight(up[c], down[c], Held(c), buffer[c], typed[c])
        /\ Screen(printed[c], typed[c] - 1)
        /\ c \notin late => /\ Punctual(printed[c], typed[c] - 1) /\ c \notin garbled
                            /\ Echoed(up[c], down[c], Held(c), typed[c]) = typed[c] - 1
    BY <1>0, <1>2, <2>1 DEF Served
  <2>3. /\ Flight(up[c], down'[c], Held(c), buffer[c], typed[c])
        /\ Screen(printed'[c], typed[c])
        /\ c \notin late => /\ Punctual(printed'[c], typed[c]) /\ c \notin garbled'
                            /\ Echoed(up[c], down'[c], Held(c), typed[c]) = typed[c]
    BY <1>b, <1>c, <1>d, <1>e, <2>2
  <2> QED BY <1>0, <1>3, <1>4, <2>1, <2>2, <2>3 DEF Served
<1>7. ClientGoto(c, "reply", "typing")
  BY DEF ShowEcho
<1> QED BY <1>0, <1>3, <1>5, <1>6, <1>7, ClientStep DEF IndInv, BaseOK

LEMMA TimeOutInd == ASSUME IndInv, NEW c \in Clients, TimeOut(c) PROVE IndInv'
<1>0. /\ cpc[c] = "reply" /\ cpc' = [cpc EXCEPT ![c] = "typing"] /\ c \in Timed
      /\ printed' = [printed EXCEPT ![c] = Append(@, typed[c])] /\ late' = late \cup {c}
      /\ UNCHANGED <<typed, garbled, up, down, backlog, hit, child, buffer, open>>
  BY DEF TimeOut, ClientGoto
<1>1. /\ typed[c] \in 0 .. Lines /\ Lines \in Nat /\ printed[c] \in Seq(Int) /\ Len(printed[c]) \in Nat
      /\ Load(c) /\ Served(c)
  BY OneClient
<1>2. /\ cpc'[c] = "typing" /\ typed'[c] = typed[c] /\ up'[c] = up[c] /\ down'[c] = down[c]
      /\ printed'[c] = Append(printed[c], typed[c])
      /\ \A d \in Clients \ {c} : printed'[d] = printed[d] /\ (d \in late' <=> d \in late)
      /\ printed' \in [Clients -> Seq(Int)] /\ late' \subseteq Timed
  BY <1>0, <1>1 DEF IndInv, BaseOK
<1>3. /\ Connected(c)' <=> Connected(c)
      /\ Held(c)' = Held(c) /\ ~Ended(c) /\ ~Ended(c)' /\ Most(c)' = Most(c)
  BY <1>0, <1>2 DEF Connected, Held, Ended, Most
<1>4. Load(c)'
  BY <1>1, <1>2, <1>3 DEF Load
<1>5. Served(c)'
  <2> SUFFICES ASSUME Unharmed(c) PROVE Served(c)'
    BY <1>0 DEF Served, Unharmed
  <2>1. Answered(c) = typed[c] - 1 /\ Answered(c)' = typed[c]
    BY <1>0, <1>2 DEF Answered
  <2>2. /\ Connected(c) /\ child[c] \in {"none", "read", "write"}
        /\ Flight(up[c], down[c], Held(c), buffer[c], typed[c])
        /\ Screen(printed[c], typed[c] - 1)
    BY <1>0, <1>1, <2>1 DEF Served
  <2>3. Screen(printed'[c], typed[c])
    <3> DEFINE s == printed[c]
               v == Append(s, typed[c])
    <3>1. /\ Len(v) = Len(s) + 1
          /\ \A k \in 1 .. Len(s) + 1 : v[k] = IF k <= Len(s) THEN s[k] ELSE typed[c]
      BY <1>1, AppendFacts
    <3>2. typed[c] \in 1 .. Len(s) + 1
      BY <1>1, <2>2 DEF Screen
    <3> HIDE DEF v
    <3>3. ASSUME NEW k \in 1 .. Len(v) PROVE v[k] \in 1 .. k
      <4>1. CASE k <= Len(s)
        <5>1. k \in 1 .. Len(s) /\ k \in 1 .. Len(s) + 1
          BY <1>1, <3>1, <4>1
        <5> QED BY <2>2, <3>1, <4>1, <5>1 DEF Screen
      <4>2. CASE ~(k <= Len(s))
        <5>1. k = Len(s) + 1 /\ k \in 1 .. Len(s) + 1
          BY <1>1, <3>1, <4>2
        <5> QED BY <3>1, <3>2, <4>2, <5>1
      <4> QED BY <4>1, <4>2
    <3>4. Len(v) >= typed[c] /\ typed[c] >= 0
      BY <1>1, <3>1, <3>2
    <3>5. Screen(v, typed[c])
      BY <3>3, <3>4 DEF Screen
    <3> QED BY <1>2, <3>5 DEF v
  <2>4. c \in late'
    BY <1>0
  <2> QED BY <1>0, <1>2, <1>3, <2>1, <2>2, <2>3, <2>4 DEF Served
<1>6. ClientGoto(c, "reply", "typing")
  BY DEF TimeOut
<1> QED BY <1>0, <1>2, <1>4, <1>5, <1>6, ClientStep DEF IndInv, BaseOK

LEMMA ReadFailsInd == ASSUME IndInv, NEW c \in Clients, ReadFails(c) PROVE IndInv'
<1>0. /\ cpc[c] = "reply" /\ down[c] # <<>> /\ Head(down[c]) <= 0
      /\ cpc' = [cpc EXCEPT ![c] = "failed"] /\ down' = [down EXCEPT ![c] = <<>>]
      /\ UNCHANGED <<typed, printed, late, garbled, up, backlog, hit, child, buffer, open>>
  BY DEF ReadFails, ClientGoto
<1>1. /\ cpc'[c] = "failed" /\ down'[c] = <<>> /\ ~Ended(c)
      /\ \A d \in Clients \ {c} : down'[d] = down[d]
      /\ down' \in [Clients -> Seq(Int)]
  BY <1>0 DEF IndInv, BaseOK, Ended
<1>2. ~Connected(c)
  <2> SUFFICES ASSUME Connected(c) PROVE FALSE
    OBVIOUS
  <2>1. \A k \in 1 .. Len(down[c]) : down[c][k] > 0
    BY <1>1, OneClient DEF Load, OnlyLines
  <2>2. 1 \in 1 .. Len(down[c]) /\ Head(down[c]) = down[c][1] /\ Head(down[c]) \in Int
    BY <1>0, OneClient, EmptySeq, HeadTailProperties
  <2>3. Head(down[c]) > 0
    BY <2>1, <2>2
  <2> QED BY <1>0, <2>2, <2>3
<1>3. up[c] = <<>>
  BY <1>1, <1>2, OneClient DEF Load
<1>4. Load(c)'
  BY <1>0, <1>1, <1>3, OneClient DEF Load, Ended
<1>5. Served(c)'
  BY <1>0, <1>2, OneClient DEF Served, Unharmed
<1>6. ClientGoto(c, "reply", "failed")
  BY DEF ReadFails
<1> QED BY <1>0, <1>1, <1>4, <1>5, <1>6, ClientStep DEF IndInv, BaseOK

\* Leave adds one mark to what is on its way up, and drops what was on its way down.
LEMMA LeaveLoad ==
  ASSUME IndInv, NEW c \in Clients, cpc[c] \in {"typing", "reply"}, Leave(c), Ended(c)'
  PROVE  /\ up' \in [Clients -> Seq(Int)] /\ down' \in [Clients -> Seq(Int)]
         /\ \A d \in Clients \ {c} : up'[d] = up[d] /\ down'[d] = down[d]
         /\ UNCHANGED <<typed, printed, late, garbled, backlog>>
         /\ Load(c)'
<1>0. /\ up' = [up EXCEPT ![c] = IF Attached(c)
                                   THEN Append(@, IF down[c] = <<>> THEN EOF ELSE RST) ELSE @]
      /\ down' = [down EXCEPT ![c] = <<>>]
      /\ UNCHANGED <<typed, printed, late, garbled, backlog>>
  BY DEF Leave
<1>1. /\ up[c] \in Seq(Int) /\ down[c] \in Seq(Int) /\ Held(c) \in 0 .. 1 /\ typed[c] \in 0 .. Lines
      /\ Load(c) /\ Len(down[c]) \in Nat /\ Len(up[c]) \in Nat /\ Lines \in Nat
      /\ (Attached(c) <=> Connected(c))
  BY OneClient
<1>2. PICK e \in Int : up'[c] = IF Connected(c) THEN Append(up[c], e) ELSE up[c]
  BY <1>0, <1>1 DEF IndInv, BaseOK, EOF, RST
<1>3. /\ up' \in [Clients -> Seq(Int)] /\ down' \in [Clients -> Seq(Int)]
      /\ \A d \in Clients \ {c} : up'[d] = up[d] /\ down'[d] = down[d]
      /\ down'[c] = <<>>
  BY <1>0 DEF IndInv, BaseOK, EOF, RST
<1>4. Most(c) \in Nat /\ Most(c) <= IF c \in Timed THEN Lines ELSE 1
  BY <1>1 DEF Most
<1>5. Len(up'[c]) <= (IF c \in Timed THEN Lines ELSE 1) + 1
  <2>0. ~Ended(c)
    BY DEF Ended
  <2>1. CASE Connected(c)
    <3>1. Len(up[c]) <= Most(c)
      <4>1. OnlyLines(up[c], down[c], Held(c), Most(c))
        BY <1>1, <2>0, <2>1 DEF Load
      <4> QED BY <1>1, <1>4, <4>1, FewLines
    <3>2. Len(up'[c]) = Len(up[c]) + 1
      BY <1>1, <1>2, <2>1, AppendFacts
    <3> QED BY <1>1, <1>4, <3>1, <3>2
  <2>2. CASE ~Connected(c)
    <3>1. up'[c] = <<>>
      BY <1>1, <1>2, <2>0, <2>2 DEF Load
    <3>2. Len(up'[c]) = 0
      BY <3>1, EmptySeq
    <3> QED BY <1>1, <3>2
  <2> QED BY <2>1, <2>2
<1>6. Load(c)'
  BY <1>3, <1>5 DEF Load
<1> QED BY <1>0, <1>3, <1>6

LEMMA EndOfInputInd == ASSUME IndInv, NEW c \in Clients, EndOfInput(c) PROVE IndInv'
<1>0. /\ cpc[c] = "typing" /\ typed[c] = Lines /\ Leave(c)
      /\ cpc' = [cpc EXCEPT ![c] = "exit0"]
      /\ UNCHANGED <<hit, child, buffer, open>>
  BY DEF EndOfInput, ClientGoto
<1>1. cpc'[c] = "exit0" /\ Ended(c)'
  BY <1>0 DEF IndInv, BaseOK, Ended
<1>2. /\ up' \in [Clients -> Seq(Int)] /\ down' \in [Clients -> Seq(Int)]
      /\ \A d \in Clients \ {c} : up'[d] = up[d] /\ down'[d] = down[d]
      /\ UNCHANGED <<typed, printed, late, garbled, backlog>>
      /\ Load(c)'
  BY <1>0, <1>1, LeaveLoad
<1>3. Served(c)'
  <2> SUFFICES ASSUME Unharmed(c) PROVE Served(c)'
    BY <1>0 DEF Served, Unharmed
  <2>1. Answered(c) = Lines
    BY <1>0 DEF Answered
  <2>2. /\ Screen(printed[c], Lines) /\ (c \notin late => Punctual(printed[c], Lines) /\ c \notin garbled)
    BY <1>0, <2>1, OneClient DEF Served
  <2>3. printed[c] \in Seq(Int) /\ DOMAIN printed[c] = 1 .. Len(printed[c]) /\ Lines \in Nat
    BY OneClient
  <2>4. Punctual(printed[c], Lines) => printed[c] = [k \in 1 .. Lines |-> k]
    BY <2>3 DEF Punctual
  <2>5. Shown(c)
    BY <2>2, <2>3, <2>4 DEF Shown, Screen
  <2>6. Shown(c)'
    BY <1>2, <2>5 DEF Shown
  <2> QED BY <1>1, <2>6 DEF Served
<1>4. ClientGoto(c, "typing", "exit0")
  BY DEF EndOfInput
<1> QED BY <1>0, <1>2, <1>3, <1>4, ClientStep DEF IndInv, BaseOK

LEMMA KillClientInd == ASSUME IndInv, NEW c \in Clients, KillClient(c) PROVE IndInv'
<1>0. PICK at \in {"typing", "reply"} : ClientGoto(c, at, "killed")
  BY DEF KillClient
<1>1. /\ cpc[c] \in {"typing", "reply"} /\ cpc' = [cpc EXCEPT ![c] = "killed"] /\ Leave(c)
      /\ hit' = hit \cup {c} /\ c \in Servers
  BY <1>0, NamesApart DEF KillClient, ClientGoto, Fault
<1>2. cpc'[c] = "killed" /\ Ended(c)'
  BY <1>1 DEF IndInv, BaseOK, Ended
<1>3. /\ up' \in [Clients -> Seq(Int)] /\ down' \in [Clients -> Seq(Int)]
      /\ \A d \in Clients \ {c} : up'[d] = up[d] /\ down'[d] = down[d]
      /\ UNCHANGED <<typed, printed, late, garbled, backlog>>
      /\ Load(c)'
  BY <1>1, <1>2, LeaveLoad
<1>4. Served(c)'
  BY <1>1 DEF Served, Unharmed
<1> QED BY <1>0, <1>1, <1>3, <1>4, ClientStep DEF IndInv, BaseOK

-----------------------------------------------------------------------------
(* The server's steps *)

LEMMA OffNotConnected ==
  ASSUME IndInv, NEW c \in Clients, cpc[c] = "off"
  PROVE  ~Connected(c) /\ child[c] = "none"
<1>1. child[c] = "none" /\ c \notin open[Parent]
  BY DEF IndInv, FreshOK
<1>2. c \notin open[c]
  BY <1>1, NamesApart DEF IndInv, SocketsOK
<1>3. \A k \in 1 .. Len(backlog) : backlog[k] # c
  BY DEF IndInv, BacklogOK
<1> QED BY <1>1, <1>2, <1>3 DEF Connected

LEMMA AcceptInd == ASSUME IndInv, accept PROVE IndInv'
<1> USE DEF IndInv
<1>0. /\ ppc = "accept" /\ ppc' = "fork" /\ backlog # <<>>
      /\ connectfd' = Head(backlog) /\ backlog' = Tail(backlog)
      /\ open' = [open EXCEPT ![Parent] = @ \cup {Head(backlog)}]
      /\ UNCHANGED <<cpc, typed, printed, late, garbled, buffer, pending, handling, up, down, child, hit>>
  BY DEF accept, ParentGoto, clientVars
<1> DEFINE h == Head(backlog)
<1>1. /\ backlog \in Seq(Clients) /\ backlog' \in Seq(Clients) /\ Len(backlog) \in Nat \ {0}
      /\ Len(backlog') = Len(backlog) - 1
      /\ \A k \in 1 .. Len(backlog') : backlog'[k] = backlog[k + 1]
      /\ h = backlog[1]
  BY <1>0, HeadTailProperties, EmptySeq DEF BaseOK
<1>2. h \in Clients /\ child[h] = "none" /\ cpc[h] # "off" /\ h \notin open[Parent]
  BY <1>1 DEF BacklogOK
<1> HIDE DEF h
<1>3. /\ \A p \in Children : open'[p] = open[p]
      /\ open'[Parent] = open[Parent] \cup {h}
      /\ open' \in [Servers -> SUBSET (Clients \cup {Listen})]
  BY <1>0, <1>2, NamesApart DEF BaseOK, h
<1>4. BaseOK'
  BY <1>0, <1>1, <1>2, <1>3 DEF BaseOK, h
<1>5. SocketsOK'
  <2>1. Isolated'
    BY <1>0, <1>3, NamesApart DEF SocketsOK, Isolated, h
  <2> QED BY <1>0, <1>2, <1>3, <2>1, NamesApart DEF SocketsOK, h
<1>6. BacklogOK'
  <2>1. ASSUME NEW k \in 1 .. Len(backlog')
        PROVE  /\ k + 1 \in 1 .. Len(backlog) /\ backlog'[k] = backlog[k + 1]
               /\ backlog'[k] # h /\ backlog'[k] \notin open[Parent]
    BY <1>1 DEF BacklogOK
  <2>2. \A k \in 1 .. Len(backlog') : /\ child'[backlog'[k]] = "none" /\ cpc'[backlog'[k]] # "off"
                                      /\ backlog'[k] \notin open'[Parent]
    BY <1>0, <1>3, <2>1 DEF BacklogOK
  <2>3. \A j, k \in 1 .. Len(backlog') : backlog'[j] = backlog'[k] => j = k
    BY <1>1, <2>1 DEF BacklogOK
  <2> QED BY <2>2, <2>3 DEF BacklogOK
<1>7. FreshOK'
  BY <1>0, <1>2, <1>3 DEF FreshOK
<1>8. ASSUME NEW c \in Clients PROVE Same(c)
  <2>1. c # h => ((\E k \in 1 .. Len(backlog') : backlog'[k] = c)
                    <=> \E k \in 1 .. Len(backlog) : backlog[k] = c)
    <3>1. ASSUME NEW k \in 1 .. Len(backlog), backlog[k] = c, c # h
          PROVE  k - 1 \in 1 .. Len(backlog') /\ backlog'[k - 1] = c
      BY <1>1, <3>1
    <3>2. ASSUME NEW k \in 1 .. Len(backlog'), backlog'[k] = c
          PROVE  k + 1 \in 1 .. Len(backlog) /\ backlog[k + 1] = c
      BY <1>1, <3>2
    <3> QED BY <3>1, <3>2
  <2>2. Connected(c)' <=> Connected(c)
    <3>1. CASE c = h
      <4>1. Connected(c)'
        BY <1>3, <3>1 DEF Connected
      <4>2. 1 \in 1 .. Len(backlog)
        BY <1>1
      <4> QED BY <1>1, <3>1, <4>1, <4>2 DEF Connected
    <3>2. CASE c # h
      BY <1>3, <2>1, <3>2, NamesApart DEF Connected
    <3> QED BY <3>1, <3>2
  <2> QED BY <1>0, <2>2 DEF Same, ChildSame
<1>9. UNCHANGED clientVars /\ hit \subseteq hit'
  BY <1>0 DEF clientVars
<1> HIDE DEF IndInv
<1> QED BY <1>4, <1>5, <1>6, <1>7, <1>8, <1>9, ServerStep

LEMMA AcceptFailsInd == ASSUME IndInv, AcceptFails PROVE IndInv'
<1> USE DEF IndInv
<1>0. /\ ppc = "accept" /\ ppc' = "fork" /\ connectfd' = NoFd
      /\ UNCHANGED <<cpc, typed, printed, late, garbled, buffer, pending, handling>>
      /\ UNCHANGED <<up, down, backlog, child, open>>
  BY DEF AcceptFails, ParentGoto, clientVars
<1>1. hit \subseteq hit' /\ hit' \subseteq Servers
  BY NamesApart DEF AcceptFails, Fault, BaseOK
<1>2. BaseOK'
  BY <1>0, <1>1 DEF BaseOK
<1>3. SocketsOK'
  BY <1>0, <1>1, NamesApart DEF SocketsOK, Isolated
<1>4. BacklogOK' /\ FreshOK'
  BY <1>0 DEF BacklogOK, FreshOK
<1>5. \A c \in Clients : Same(c)
  BY <1>0, SameConnected DEF Same, ChildSame
<1>9. UNCHANGED clientVars /\ hit \subseteq hit'
  BY <1>0, <1>1 DEF clientVars
<1> HIDE DEF IndInv
<1> QED BY <1>2, <1>3, <1>4, <1>5, <1>9, ServerStep

LEMMA ForkInd == ASSUME IndInv, fork PROVE IndInv'
<1> USE DEF IndInv
<1>0. /\ ppc = "fork" /\ ppc' = "close"
      /\ UNCHANGED <<cpc, typed, printed, late, garbled, buffer, pending, handling>>
      /\ UNCHANGED <<connectfd, up, down, backlog, hit>>
  BY DEF fork, ParentGoto, clientVars
<1>1. PICK p \in Children :
        /\ child[p] = "none" /\ (IF connectfd = NoFd THEN p \in Strays ELSE p = connectfd)
        /\ child' = [child EXCEPT ![p] = "read"]
        /\ open' = [open EXCEPT ![p] = open[Parent]]
  BY DEF fork
<1>2. p \in Clients => p = connectfd /\ connectfd # NoFd
  BY <1>1, NamesApart
<1>3. /\ child'[p] = "read" /\ open'[p] = open[Parent] /\ p \in Servers /\ p # Parent
      /\ \A q \in Children \ {p} : child'[q] = child[q]
      /\ \A q \in Servers \ {p} : open'[q] = open[q]
      /\ open'[Parent] = open[Parent]
  BY <1>1, NamesApart DEF BaseOK
<1>4. BaseOK'
  BY <1>0, <1>1, <1>3, NamesApart DEF BaseOK
<1>5. SocketsOK'
  <2>1. Isolated'
    BY <1>0, <1>1, <1>3, NamesApart DEF SocketsOK, Isolated
  <2> QED BY <1>0, <1>1, <1>2, <1>3, <2>1, NamesApart DEF SocketsOK
<1>6. BacklogOK'
  <2>1. \A k \in 1 .. Len(backlog) : backlog[k] \in Clients
    BY DEF BaseOK
  <2>2. \A k \in 1 .. Len(backlog) : backlog[k] # p
    BY <1>0, <1>2, <2>1 DEF BacklogOK, SocketsOK
  <2>3. \A k \in 1 .. Len(backlog) : child'[backlog[k]] = "none"
    BY <1>3, <2>1, <2>2, NamesApart DEF BacklogOK
  <2> QED BY <1>0, <1>3, <2>3 DEF BacklogOK
<1>7. FreshOK'
  BY <1>0, <1>2, <1>3, NamesApart DEF FreshOK, SocketsOK
<1>8. ASSUME NEW c \in Clients PROVE Same(c)
  <2>1. Connected(c)' <=> Connected(c)
    BY <1>0, <1>2, <1>3, NamesApart DEF Connected, SocketsOK
  <2>2. ChildSame(c)
    BY <1>1, <1>3, NamesApart DEF ChildSame
  <2> QED BY <1>0, <2>1, <2>2 DEF Same
<1>9. UNCHANGED clientVars /\ hit \subseteq hit'
  BY <1>0 DEF clientVars
<1> HIDE DEF IndInv
<1> QED BY <1>4, <1>5, <1>6, <1>7, <1>8, <1>9, ServerStep

\* A step that closes sockets: a client that loses its connection or its child by
\* it has ended before, or has met a fault.
LEMMA CloseStep ==
  ASSUME IndInv, NEW p \in Servers, NEW sockets, Close(p, sockets),
         UNCHANGED clientVars, UNCHANGED buffer, hit \subseteq hit',
         BaseOK', SocketsOK', BacklogOK', FreshOK',
         \A c \in Clients : Connected(c) /\ ~Connected(c)' /\ Unharmed(c)' => Ended(c),
         \A c \in Clients : \/ ChildSame(c)
                            \/ child'[c] \in {"zombie", "reaped"} /\ (Unharmed(c)' => Ended(c))
  PROVE  IndInv'
<1>1. ASSUME NEW c \in Clients PROVE Same(c) \/ (Load(c)' /\ Served(c)')
  <2>0. /\ cpc'[c] = cpc[c] /\ typed'[c] = typed[c] /\ printed'[c] = printed[c] /\ late' = late
        /\ garbled' = garbled /\ buffer'[c] = buffer[c]
    BY DEF clientVars
  <2>1. \/ /\ Connected(c)' <=> Connected(c)
           /\ up'[c] = up[c] /\ down'[c] = down[c]
        \/ /\ Connected(c) /\ ~Connected(c)'
           /\ up'[c] = <<>>
           /\ \/ Ended(c) /\ down'[c] = down[c]
              \/ ~Ended(c) /\ \E e \in {EOF, RST} : down'[c] = Append(down[c], e)
    BY CloseEffect DEF IndInv
  <2>2. CASE ChildSame(c) /\ (Connected(c)' <=> Connected(c))
    BY <2>0, <2>1, <2>2 DEF Same
  <2>3. CASE ~(ChildSame(c) /\ (Connected(c)' <=> Connected(c)))
    <3>0. Unharmed(c)' => Ended(c)
      BY <2>1, <2>3
    <3>1. (Ended(c)' <=> Ended(c)) /\ (Shown(c)' <=> Shown(c)) /\ (Unharmed(c)' => Unharmed(c))
      BY <2>0 DEF Ended, Shown, Unharmed
    <3>2. /\ Load(c) /\ Served(c) /\ up[c] \in Seq(Int) /\ down[c] \in Seq(Int)
          /\ Len(up[c]) \in Nat /\ Len(down[c]) \in Nat /\ Held(c) \in 0 .. 1
          /\ typed[c] \in Nat /\ Lines \in Nat
      BY OneClient
    <3>3. Served(c)'
      BY <2>0, <3>0, <3>1, <3>2 DEF Served, Ended
    <3>4. Most(c)' = Most(c) /\ Most(c) \in Nat /\ Held(c)' \in 0 .. 1 /\ Held(c)' <= Held(c)
      BY <2>0, <3>2 DEF Most, Held, ChildSame
    <3>5. CASE Connected(c)' <=> Connected(c)
      <4>1. up'[c] = up[c] /\ down'[c] = down[c]
        BY <2>1, <3>5
      <4>2. OnlyLines(up[c], down[c], Held(c), Most(c)) => OnlyLines(up[c], down[c], Held(c)', Most(c))
        BY <3>2, <3>4, FewLines
      <4>3. Load(c)'
        BY <3>1, <3>2, <3>4, <3>5, <4>1, <4>2 DEF Load
      <4> QED BY <3>3, <4>3
    <3>6. CASE ~(Connected(c)' <=> Connected(c))
      <4>1. Connected(c) /\ ~Connected(c)' /\ up'[c] = <<>>
        BY <2>1, <3>6
      <4>2. Len(up'[c]) = 0
        BY <4>1, EmptySeq
      <4>3. CASE Ended(c)
        BY <2>1, <3>1, <3>2, <3>3, <3>6, <4>1, <4>2, <4>3 DEF Load
      <4>4. CASE ~Ended(c)
        <5>1. PICK e \in {EOF, RST} : down'[c] = Append(down[c], e)
          BY <2>1, <3>6, <4>4
        <5>2. Len(down'[c]) = Len(down[c]) + 1
          BY <3>2, <5>1, AppendFacts DEF EOF, RST
        <5>3. OnlyLines(up[c], down[c], Held(c), Most(c))
          BY <3>2, <4>1, <4>4 DEF Load
        <5>4. Len(down[c]) <= Most(c)
          BY <3>2, <3>4, <5>3, FewLines
        <5>5. Len(down'[c]) <= Most(c) + 1
          BY <3>2, <3>4, <5>2, <5>4
        <5>6. Load(c)'
          BY <3>1, <3>4, <4>1, <4>4, <5>5 DEF Load
        <5> QED BY <3>3, <5>6
      <4> QED BY <4>3, <4>4
    <3> QED BY <3>5, <3>6
  <2> QED BY <2>2, <2>3
<1> QED BY <1>1, ServerStep

\* Nothing is cut off a client that has not started.
LEMMA CloseFresh ==
  ASSUME IndInv, NEW p \in Servers, NEW sockets, Close(p, sockets), UNCHANGED clientVars,
         \A c \in Clients : child[c] = "none" => child'[c] = "none"
  PROVE  FreshOK'
<1> SUFFICES ASSUME NEW c \in Clients, cpc'[c] = "off"
             PROVE  /\ typed'[c] = 0 /\ printed'[c] = <<>> /\ up'[c] = <<>> /\ down'[c] = <<>>
                    /\ c \notin garbled' /\ child'[c] = "none" /\ c \notin open'[Parent]
  BY DEF FreshOK
<1>1. cpc[c] = "off" /\ typed'[c] = typed[c] /\ printed'[c] = printed[c] /\ garbled' = garbled
  BY DEF clientVars
<1>2. /\ typed[c] = 0 /\ printed[c] = <<>> /\ up[c] = <<>> /\ down[c] = <<>>
      /\ c \notin garbled /\ child[c] = "none" /\ c \notin open[Parent] /\ ~Connected(c)
  BY <1>1, OffNotConnected DEF IndInv, FreshOK
<1>3. up'[c] = up[c] /\ down'[c] = down[c]
  BY <1>2, CloseEffect DEF IndInv
<1>4. c \notin open'[Parent]
  <2>1. open' = [open EXCEPT ![p] = @ \ sockets]
    BY CloseEffect DEF IndInv
  <2> QED BY <1>2, <2>1, NamesApart DEF IndInv, BaseOK
<1> QED BY <1>1, <1>2, <1>3, <1>4

LEMMA CloseBacklog ==
  ASSUME IndInv, NEW p \in Servers, NEW sockets, Close(p, sockets), UNCHANGED clientVars,
         \A c \in Clients : child[c] = "none" => child'[c] = "none"
  PROVE  BacklogOK' /\ backlog' \in Seq(Clients)
<1>1. /\ open' = [open EXCEPT ![p] = @ \ sockets] /\ backlog' \in {backlog, <<>>}
  BY CloseEffect DEF IndInv
<1>2. open'[Parent] \subseteq open[Parent] /\ cpc' = cpc
  BY <1>1, NamesApart DEF IndInv, BaseOK, clientVars
<1>3. backlog \in Seq(Clients) /\ \A k \in 1 .. Len(backlog) : backlog[k] \in Clients
  BY DEF IndInv, BaseOK
<1>4. CASE backlog' = backlog
  BY <1>2, <1>3, <1>4 DEF IndInv, BacklogOK
<1>5. CASE backlog' = <<>>
  <2>1. Len(backlog') = 0
    BY <1>5, EmptySeq
  <2> QED BY <1>5, <2>1, EmptySeq DEF BacklogOK
<1> QED BY <1>1, <1>4, <1>5

LEMMA CloseInd == ASSUME IndInv, close PROVE IndInv'
<1>0. /\ ppc = "close" /\ ppc' = "accept" /\ Close(Parent, {connectfd})
      /\ UNCHANGED <<cpc, typed, printed, late, garbled, buffer, pending, handling>>
      /\ UNCHANGED <<connectfd, child, hit>>
  BY DEF close, ParentGoto, clientVars
<1>1. /\ Parent \in Servers /\ UNCHANGED clientVars
      /\ \A c \in Clients : child[c] = "none" => child'[c] = "none"
  BY <1>0, NamesApart DEF clientVars
<1>2. FreshOK' /\ BacklogOK' /\ backlog' \in Seq(Clients)
  BY <1>0, <1>1, CloseFresh, CloseBacklog
<1>3. /\ open' = [open EXCEPT ![Parent] = @ \ {connectfd}]
      /\ open' \in [Servers -> SUBSET (Clients \cup {Listen})]
      /\ up' \in [Clients -> Seq(Int)] /\ down' \in [Clients -> Seq(Int)]
  BY <1>0, <1>1, CloseEffect DEF IndInv
<1>4. /\ \A p \in Children : open'[p] = open[p]
      /\ open'[Parent] = open[Parent] \ {connectfd}
  BY <1>3, NamesApart DEF IndInv, BaseOK
<1>5. BaseOK'
  BY <1>0, <1>2, <1>3 DEF IndInv, BaseOK
<1>6. SocketsOK'
  <2>1. Isolated'
    BY <1>0, <1>4, NamesApart DEF IndInv, SocketsOK, Isolated
  <2>2. Listen \in open'[Parent]
    BY <1>0, <1>4, NamesApart DEF IndInv, SocketsOK, BaseOK
  <2> QED BY <1>0, <1>4, <2>1, <2>2, NamesApart DEF IndInv, SocketsOK
<1>7. ASSUME NEW c \in Clients, Connected(c), ~Connected(c)', Unharmed(c)' PROVE Ended(c)
  <2>1. c \notin open[c] /\ child[c] \notin {"read", "write"}
    BY <1>4, <1>7, NamesApart DEF Connected, IndInv, SocketsOK
  <2>2. backlog' = backlog
    <3>1. Listen \in open[Parent] /\ Listen \notin {connectfd}
      BY <1>0, NamesApart DEF IndInv, SocketsOK, BaseOK
    <3> QED BY <1>0, <1>1, <3>1, CloseEffect DEF IndInv
  <2>3. c = connectfd /\ connectfd # NoFd
    BY <1>4, <1>7, <2>1, <2>2, NamesApart DEF Connected
  <2>4. child[c] # "none" /\ cpc[c] # "off"
    BY <1>0, <2>3, OffNotConnected DEF IndInv, SocketsOK
  <2>5. Unharmed(c) /\ Served(c)
    BY <1>0, <1>7, OneClient DEF Unharmed
  <2> QED BY <2>1, <2>4, <2>5, OneClient DEF Served, Ended
<1>8. \A c \in Clients : ChildSame(c)
  BY <1>0 DEF ChildSame
<1>9. UNCHANGED buffer /\ hit \subseteq hit'
  BY <1>0
<1> QED BY <1>0, <1>1, <1>2, <1>5, <1>6, <1>7, <1>8, <1>9, CloseStep

LEMMA ParentEndsInd == ASSUME IndInv, ParentEnds PROVE IndInv'
<1>0. /\ ppc' = "gone" /\ hit' = hit \cup {Parent} /\ Close(Parent, open[Parent])
      /\ child' = [p \in Children |-> IF child[p] = "zombie" THEN "reaped" ELSE child[p]]
      /\ handling' = FALSE /\ pending' = FALSE
      /\ UNCHANGED clientVars /\ UNCHANGED <<connectfd, buffer>>
  BY DEF ParentEnds, Fault
<1>1. /\ Parent \in Servers
      /\ \A p \in Children : child'[p] = IF child[p] = "zombie" THEN "reaped" ELSE child[p]
      /\ \A c \in Clients : child[c] = "none" => child'[c] = "none"
  BY <1>0, NamesApart
<1>2. FreshOK' /\ BacklogOK' /\ backlog' \in Seq(Clients)
  BY <1>0, <1>1, CloseFresh, CloseBacklog
<1>3. /\ open' = [open EXCEPT ![Parent] = @ \ open[Parent]]
      /\ open' \in [Servers -> SUBSET (Clients \cup {Listen})]
      /\ up' \in [Clients -> Seq(Int)] /\ down' \in [Clients -> Seq(Int)]
  BY <1>0, <1>1, CloseEffect DEF IndInv
<1>4. /\ \A p \in Children : open'[p] = open[p]
      /\ open'[Parent] = {}
  BY <1>3, NamesApart DEF IndInv, BaseOK
<1>5. BaseOK'
  <2>1. pending' \in BOOLEAN /\ handling' \in BOOLEAN
    BY <1>0
  <2>2. /\ child' \in [Children -> {"none", "read", "write", "zombie", "reaped"}]
        /\ \A c \in Clients : child'[c] = "write" => buffer'[c] > 0
    BY <1>0, <1>1, NamesApart DEF IndInv, BaseOK
  <2> QED BY <1>0, <1>1, <1>2, <1>3, <2>1, <2>2 DEF IndInv, BaseOK, clientVars
<1>6. SocketsOK'
  BY <1>0, <1>1, <1>4, NamesApart DEF IndInv, SocketsOK, Isolated
<1>7. \A c \in Clients : ~Unharmed(c)'
  BY <1>0 DEF Unharmed
<1>8. \A c \in Clients : ChildSame(c)
  BY <1>1, NamesApart DEF ChildSame
<1>9. UNCHANGED buffer /\ hit \subseteq hit'
  BY <1>0
<1> QED BY <1>0, <1>1, <1>2, <1>5, <1>6, <1>7, <1>8, <1>9, CloseStep

\* A child ends that nobody relies on any more.
LEMMA ExitInd ==
  ASSUME IndInv, NEW p \in Children, child[p] \in {"read", "write"}, Exit(p),
         hit \subseteq hit', hit' \subseteq Servers,
         p \in Clients /\ Unharmed(p)' => Ended(p)
  PROVE  IndInv'
<1>0. /\ child' = [child EXCEPT ![p] = IF ParentUp THEN "zombie" ELSE "reaped"]
      /\ pending' = ParentUp /\ Close(p, open[p])
      /\ UNCHANGED clientVars /\ UNCHANGED <<ppc, connectfd, handling, buffer>>
  BY DEF Exit, parentVars
<1>1. /\ p \in Servers /\ p # Parent /\ child'[p] \in {"zombie", "reaped"}
      /\ \A q \in Children \ {p} : child'[q] = child[q]
      /\ \A c \in Clients : child[c] = "none" => child'[c] = "none"
  BY <1>0, NamesApart DEF IndInv, BaseOK
<1>2. FreshOK' /\ BacklogOK' /\ backlog' \in Seq(Clients)
  BY <1>0, <1>1, CloseFresh, CloseBacklog
<1>3. /\ open' = [open EXCEPT ![p] = @ \ open[p]]
      /\ open' \in [Servers -> SUBSET (Clients \cup {Listen})]
      /\ up' \in [Clients -> Seq(Int)] /\ down' \in [Clients -> Seq(Int)]
  BY <1>0, <1>1, CloseEffect DEF IndInv
<1>4. /\ \A q \in Servers \ {p} : open'[q] = open[q]
      /\ open'[p] = {} /\ open'[Parent] = open[Parent]
  BY <1>1, <1>3, NamesApart DEF IndInv, BaseOK
<1>5. BaseOK'
  <2>1. pending' \in BOOLEAN
    BY <1>0 DEF ParentUp
  <2>2. /\ child' \in [Children -> {"none", "read", "write", "zombie", "reaped"}]
        /\ \A c \in Clients : child'[c] = "write" => buffer'[c] > 0
    BY <1>0, <1>1, NamesApart DEF IndInv, BaseOK
  <2> QED BY <1>0, <1>2, <1>3, <2>1, <2>2 DEF IndInv, BaseOK, clientVars
<1>6. SocketsOK'
  <2>1. Isolated'
    BY <1>0, <1>4, NamesApart DEF IndInv, SocketsOK, Isolated
  <2>2. ppc = "fork" /\ connectfd # NoFd => connectfd \in Clients /\ connectfd # p
    BY NamesApart DEF IndInv, SocketsOK, BaseOK
  <2>3. ppc = "close" /\ connectfd # NoFd => child'[connectfd] # "none"
    BY <1>1, NamesApart DEF IndInv, SocketsOK, BaseOK
  <2>4. cpc' = cpc
    BY <1>0 DEF clientVars
  <2>5. /\ \A q \in Children : child'[q] \notin {"read", "write"} => open'[q] = {}
        /\ \A c \in Clients : child'[c] \in {"read", "write"} => c \in open'[c]
    BY <1>1, <1>4, NamesApart DEF IndInv, SocketsOK
  <2>6. ppc' = "fork" /\ connectfd' # NoFd =>
          child'[connectfd'] = "none" /\ connectfd' \in open'[Parent] /\ cpc'[connectfd'] # "off"
    BY <1>0, <1>1, <1>4, <2>2, <2>4, NamesApart DEF IndInv, SocketsOK
  <2> QED BY <1>0, <1>4, <2>1, <2>3, <2>5, <2>6 DEF IndInv, SocketsOK
<1>7. ASSUME NEW c \in Clients, Connected(c), ~Connected(c)', Unharmed(c)' PROVE Ended(c)
  <2>1. CASE c = p
    BY <1>7, <2>1
  <2>2. CASE c # p
    <3>1. ParentUp
      BY <1>7 DEF Unharmed, ParentUp, IndInv, SocketsOK
    <3>2. backlog' = backlog
      <4>1. Listen \in open[Parent] /\ p # Parent
        BY <1>1, <3>1 DEF IndInv, SocketsOK, ParentUp
      <4> QED BY <1>0, <1>1, <4>1, CloseEffect DEF IndInv
    <3> QED BY <1>4, <1>7, <2>2, <3>2, NamesApart DEF Connected
  <2> QED BY <2>1, <2>2
<1>8. ASSUME NEW c \in Clients
      PROVE  \/ ChildSame(c)
             \/ child'[c] \in {"zombie", "reaped"} /\ (Unharmed(c)' => Ended(c))
  BY <1>1, NamesApart DEF ChildSame
<1>9. UNCHANGED buffer
  BY <1>0
<1> QED BY <1>0, <1>1, <1>2, <1>5, <1>6, <1>7, <1>8, <1>9, CloseStep

LEMMA ChildEndsInd ==
  ASSUME IndInv, NEW p \in Children, ChildEnd(p) \/ KillChild(p) \/ (p \in Clients /\ ChildSigpipe(p))
  PROVE  IndInv'
<1>1. CASE ChildEnd(p)
  <2>0. child[p] = "read" /\ Exit(p) /\ hit' = hit /\ hit \subseteq Servers
    BY <1>1 DEF ChildEnd, IndInv, BaseOK
  <2>1. ASSUME p \in Clients PROVE Ended(p)
    <3> SUFFICES ASSUME ~Ended(p) PROVE FALSE
      OBVIOUS
    <3>1. Connected(p)
      BY <2>0, <2>1 DEF IndInv, SocketsOK, Connected
    <3>2. up[p] # <<>> /\ Head(up[p]) <= 0
      BY <1>1, <2>1 DEF ChildEnd
    <3>3. \A k \in 1 .. Len(up[p]) : up[p][k] > 0
      BY <2>1, <3>1, OneClient DEF Load, OnlyLines
    <3>4. 1 \in 1 .. Len(up[p]) /\ Head(up[p]) = up[p][1] /\ Head(up[p]) \in Int
      BY <2>1, <3>2, OneClient, EmptySeq, HeadTailProperties
    <3>5. Head(up[p]) > 0
      BY <3>3, <3>4
    <3> QED BY <3>2, <3>4, <3>5
  <2> QED BY <2>0, <2>1, ExitInd
<1>2. CASE KillChild(p)
  <2>1. /\ child[p] \in {"read", "write"} /\ Exit(p)
        /\ hit \subseteq hit' /\ hit' \subseteq Servers /\ p \in hit'
    BY <1>2, NamesApart DEF KillChild, Fault, IndInv, BaseOK
  <2>2. p \in Clients /\ Unharmed(p)' => Ended(p)
    BY <2>1 DEF Unharmed
  <2> QED BY <2>1, <2>2, ExitInd
<1>3. CASE p \in Clients /\ ChildSigpipe(p)
  <2>1. child[p] = "write" /\ Exit(p) /\ hit' = hit /\ hit \subseteq Servers /\ Ended(p)
    BY <1>3 DEF ChildSigpipe, IndInv, BaseOK
  <2> QED BY <2>1, ExitInd
<1> QED BY <1>1, <1>2, <1>3

\* A step of client c's child that keeps its sockets.
LEMMA ChildStep ==
  ASSUME IndInv, NEW c \in Clients, UNCHANGED clientVars,
         UNCHANGED <<ppc, connectfd, handling, backlog, open, pending, hit>>,
         NEW to \in {"read", "write"}, child[c] \in {"read", "write"}, child' = [child EXCEPT ![c] = to],
         NEW b \in Int, to = "write" => b > 0, buffer' = [buffer EXCEPT ![c] = b],
         up' \in [Clients -> Seq(Int)], down' \in [Clients -> Seq(Int)],
         \A d \in Clients \ {c} : up'[d] = up[d] /\ down'[d] = down[d],
         Load(c)', Served(c)'
  PROVE  IndInv'
<1>1. /\ child'[c] = to /\ buffer'[c] = b
      /\ \A q \in Children \ {c} : child'[q] = child[q] /\ buffer'[q] = buffer[q]
      /\ child' \in [Children -> {"none", "read", "write", "zombie", "reaped"}]
      /\ buffer' \in [Children -> Int]
  BY NamesApart DEF IndInv, BaseOK
<1>2. UNCHANGED <<cpc, typed, printed, late, garbled>>
  BY DEF clientVars
<1>3. BaseOK'
  <2>1. \A d \in Clients : child'[d] = "write" => buffer'[d] > 0
    BY <1>1, NamesApart DEF IndInv, BaseOK
  <2> QED BY <1>1, <1>2, <2>1 DEF IndInv, BaseOK
<1>4. SocketsOK'
  <2>1. Isolated'
    BY DEF IndInv, SocketsOK, Isolated
  <2>2. /\ \A q \in Children : child'[q] \notin {"read", "write"} => open'[q] = {}
        /\ \A d \in Clients : child'[d] \in {"read", "write"} => d \in open'[d]
    BY <1>1, NamesApart DEF IndInv, SocketsOK
  <2>3. connectfd # NoFd => connectfd \in Clients
    BY DEF IndInv, BaseOK
  <2>4. ppc = "fork" /\ connectfd # NoFd => child'[connectfd] = "none"
    BY <1>1, <2>3, NamesApart DEF IndInv, SocketsOK
  <2>5. ppc = "close" /\ connectfd # NoFd => child'[connectfd] # "none"
    BY <1>1, <2>3, NamesApart DEF IndInv, SocketsOK
  <2> QED BY <1>2, <2>1, <2>2, <2>4, <2>5 DEF IndInv, SocketsOK
<1>5. BacklogOK'
  <2>1. \A k \in 1 .. Len(backlog) : backlog[k] \in Clients
    BY DEF IndInv, BaseOK
  <2>2. \A k \in 1 .. Len(backlog) : child'[backlog[k]] = "none"
    BY <1>1, <2>1, NamesApart DEF IndInv, BacklogOK
  <2> QED BY <1>2, <2>2 DEF IndInv, BacklogOK
<1>6. FreshOK'
  BY <1>1, <1>2, NamesApart DEF IndInv, FreshOK
<1>7. ASSUME NEW d \in Clients \ {c} PROVE Same(d)
  <2>1. Connected(d)' <=> Connected(d)
    BY SameConnected
  <2>2. child'[d] = child[d] /\ buffer'[d] = buffer[d]
    BY <1>1, NamesApart
  <2> QED BY <1>2, <2>1, <2>2 DEF Same, ChildSame
<1>8. \A d \in Clients : Same(d) \/ (Load(d)' /\ Served(d)')
  BY <1>7
<1>9. hit \subseteq hit'
  OBVIOUS
<1> QED BY <1>3, <1>4, <1>5, <1>6, <1>8, <1>9, ServerStep

LEMMA ChildReadInd == ASSUME IndInv, NEW c \in Clients, ChildRead(c) PROVE IndInv'
<1>0. /\ child[c] = "read" /\ up[c] # <<>> /\ Head(up[c]) > 0
      /\ child' = [child EXCEPT ![c] = "write"] /\ buffer' = [buffer EXCEPT ![c] = Head(up[c])]
      /\ up' = [up EXCEPT ![c] = Tail(@)]
      /\ UNCHANGED clientVars /\ UNCHANGED <<ppc, connectfd, handling, down, backlog, open, pending, hit>>
  BY DEF ChildRead, parentVars
<1>1. /\ up[c] \in Seq(Int) /\ down[c] \in Seq(Int) /\ typed[c] \in Nat /\ Load(c) /\ Served(c)
      /\ Len(up[c]) \in Nat /\ Lines \in Nat
  BY OneClient
<1>2. Head(up[c]) \in Int /\ Tail(up[c]) \in Seq(Int) /\ Len(Tail(up[c])) = Len(up[c]) - 1
  BY <1>0, <1>1, LineRead, HeadTailProperties
<1>3. /\ up'[c] = Tail(up[c]) /\ down'[c] = down[c] /\ child'[c] = "write"
      /\ buffer'[c] = Head(up[c])
      /\ \A d \in Clients \ {c} : up'[d] = up[d] /\ down'[d] = down[d]
      /\ up' \in [Clients -> Seq(Int)] /\ down' \in [Clients -> Seq(Int)]
  BY <1>0, <1>2, NamesApart DEF IndInv, BaseOK
<1>4. /\ Held(c) = 0 /\ Held(c)' = 1 /\ Connected(c) /\ Connected(c)'
      /\ Most(c)' = Most(c) /\ (Ended(c)' <=> Ended(c)) /\ Answered(c)' = Answered(c)
      /\ typed'[c] = typed[c] /\ printed'[c] = printed[c] /\ late' = late /\ garbled' = garbled /\ cpc'[c] = cpc[c]
  BY <1>0, <1>3 DEF Held, Connected, Most, Ended, Answered, clientVars, IndInv, SocketsOK
<1>5. Most(c) \in Nat
  BY <1>1 DEF Most
<1>6. OnlyLines(up[c], down[c], 0, Most(c)) => OnlyLines(up'[c], down'[c], 1, Most(c))
  BY <1>0, <1>1, <1>3, <1>5, LineRead
<1>7. Load(c)'
  BY <1>1, <1>2, <1>3, <1>4, <1>6 DEF Load
<1>8. /\ Flight(up[c], down[c], 0, buffer[c], typed[c]) =>
           Flight(up'[c], down'[c], 1, buffer'[c], typed[c])
      /\ Echoed(up'[c], down'[c], 1, typed[c]) = Echoed(up[c], down[c], 0, typed[c])
  <2>1. Flight(up[c], down[c], 0, buffer[c], typed[c]) =>
          Flight(Tail(up[c]), down[c], 1, Head(up[c]), typed[c])
    BY <1>0, <1>1, LineRead
  <2>2. Echoed(Tail(up[c]), down[c], 1, typed[c]) = Echoed(up[c], down[c], 0, typed[c])
    BY <1>0, <1>1, LineRead
  <2> HIDE DEF Flight, Echoed
  <2> QED BY <1>3, <2>1, <2>2
<1>9. Shown(c)' <=> Shown(c)
  BY <1>4 DEF Shown
<1>10. Unharmed(c)' <=> Unharmed(c)
  BY <1>0 DEF Unharmed
<1>11. Served(c)'
  BY <1>1, <1>3, <1>4, <1>8, <1>9, <1>10 DEF Served
<1> QED BY <1>0, <1>2, <1>3, <1>7, <1>11, ChildStep

LEMMA ChildWriteInd == ASSUME IndInv, NEW c \in Clients, ChildWrite(c) PROVE IndInv'
<1>0. /\ child[c] = "write" /\ child' = [child EXCEPT ![c] = "read"]
      /\ down' = [down EXCEPT ![c] = IF Ended(c) THEN @ ELSE Append(@, buffer[c])]
      /\ UNCHANGED clientVars
      /\ UNCHANGED <<ppc, connectfd, handling, up, backlog, buffer, open, pending, hit>>
  BY DEF ChildWrite, parentVars
<1>1. /\ up[c] \in Seq(Int) /\ down[c] \in Seq(Int) /\ typed[c] \in Nat /\ Load(c) /\ Served(c)
      /\ buffer[c] \in Int
  BY OneClient
<1>2. buffer[c] > 0 /\ buffer' = [buffer EXCEPT ![c] = buffer[c]]
  BY <1>0, NamesApart DEF IndInv, BaseOK
<1>3. /\ up'[c] = up[c] /\ down'[c] = (IF Ended(c) THEN down[c] ELSE Append(down[c], buffer[c]))
      /\ child'[c] = "read" /\ buffer'[c] = buffer[c]
      /\ \A d \in Clients \ {c} : up'[d] = up[d] /\ down'[d] = down[d]
      /\ up' \in [Clients -> Seq(Int)] /\ down' \in [Clients -> Seq(Int)]
  BY <1>0, <1>1, NamesApart DEF IndInv, BaseOK
<1>4. /\ Held(c) = 1 /\ Held(c)' = 0 /\ Connected(c) /\ Connected(c)'
      /\ Most(c)' = Most(c) /\ (Ended(c)' <=> Ended(c)) /\ Answered(c)' = Answered(c)
      /\ typed'[c] = typed[c] /\ printed'[c] = printed[c] /\ late' = late /\ garbled' = garbled /\ cpc'[c] = cpc[c]
  BY <1>0, <1>3 DEF Held, Connected, Most, Ended, Answered, clientVars, IndInv, SocketsOK
<1>5. Most(c) \in Nat
  BY <1>1 DEF Most
<1>6. ~Ended(c) /\ OnlyLines(up[c], down[c], 1, Most(c)) => OnlyLines(up'[c], down'[c], 0, Most(c))
  BY <1>1, <1>2, <1>3, <1>5, LineWritten
<1>7. Load(c)'
  BY <1>1, <1>3, <1>4, <1>6 DEF Load
<1>8. ~Ended(c) =>
        /\ Flight(up[c], down[c], 1, buffer[c], typed[c]) =>
             Flight(up'[c], down'[c], 0, buffer'[c], typed[c])
        /\ Echoed(up'[c], down'[c], 0, typed[c]) = Echoed(up[c], down[c], 1, typed[c])
  BY <1>1, <1>3, LineWritten
<1>9. (Shown(c)' <=> Shown(c)) /\ (cpc[c] \in {"typing", "reply"} => ~Ended(c))
  BY <1>4 DEF Shown, Ended
<1>10. Unharmed(c)' <=> Unharmed(c)
  BY <1>0 DEF Unharmed
<1>11. Served(c)'
  BY <1>1, <1>3, <1>4, <1>8, <1>9, <1>10 DEF Served
<1> QED BY <1>0, <1>1, <1>2, <1>3, <1>7, <1>11, ChildStep

-----------------------------------------------------------------------------
(* The signal handler, and the whole *)

LEMMA HandlerInd == ASSUME IndInv, sigChildHandler PROVE IndInv'
<1>0. UNCHANGED clientVars /\ UNCHANGED <<ppc, connectfd, up, down, backlog, buffer, open, hit>>
  BY DEF sigChildHandler, EnterHandler, Reap, HandlerReturn, HandlerOnly
<1>1. UNCHANGED <<cpc, typed, printed, late, garbled>>
  BY <1>0 DEF clientVars
<1>2. pending' \in BOOLEAN /\ handling' \in BOOLEAN
  BY Zenon DEF sigChildHandler, EnterHandler, Reap, HandlerReturn, IndInv, BaseOK
<1>3. \/ child' = child
      \/ \E p \in Children : child[p] = "zombie" /\ child' = [child EXCEPT ![p] = "reaped"]
  BY DEF sigChildHandler, EnterHandler, Reap, HandlerReturn
<1>4. /\ child' \in [Children -> {"none", "read", "write", "zombie", "reaped"}]
      /\ \A p \in Children : child'[p] = child[p] \/ (child[p] = "zombie" /\ child'[p] = "reaped")
  BY <1>3 DEF IndInv, BaseOK
<1>5. BaseOK'
  <2>1. \A c \in Clients : child'[c] = "write" => buffer'[c] > 0
    BY <1>0, <1>4, NamesApart DEF IndInv, BaseOK
  <2> QED BY <1>0, <1>1, <1>2, <1>4, <2>1 DEF IndInv, BaseOK
<1>6. SocketsOK'
  <2>1. Isolated'
    BY <1>0 DEF IndInv, SocketsOK, Isolated
  <2>2. connectfd # NoFd => connectfd \in Children
    BY NamesApart DEF IndInv, BaseOK
  <2>3. /\ \A q \in Children : child'[q] \notin {"read", "write"} => open'[q] = {}
        /\ \A d \in Clients : child'[d] \in {"read", "write"} => d \in open'[d]
    BY <1>0, <1>4, NamesApart DEF IndInv, SocketsOK
  <2> QED BY <1>0, <1>1, <1>4, <2>1, <2>2, <2>3 DEF IndInv, SocketsOK
<1>7. BacklogOK'
  <2>1. \A k \in 1 .. Len(backlog) : backlog[k] \in Clients
    BY DEF IndInv, BaseOK
  <2>2. \A k \in 1 .. Len(backlog) : child'[backlog[k]] = "none"
    BY <1>4, <2>1, NamesApart DEF IndInv, BacklogOK
  <2> QED BY <1>0, <1>1, <2>2 DEF IndInv, BacklogOK
<1>8. FreshOK'
  BY <1>0, <1>1, <1>4, NamesApart DEF IndInv, FreshOK
<1>9. ASSUME NEW c \in Clients PROVE Same(c)
  <2>1. Connected(c)' <=> Connected(c)
    BY <1>0, SameConnected
  <2>2. ChildSame(c)
    BY <1>4, NamesApart DEF ChildSame
  <2> QED BY <1>0, <1>1, <2>1, <2>2 DEF Same
<1>10. hit \subseteq hit'
  BY <1>0
<1> QED BY <1>0, <1>5, <1>6, <1>7, <1>8, <1>9, <1>10, ServerStep

LEMMA StutterInd == ASSUME IndInv, UNCHANGED vars PROVE IndInv'
<1>0. /\ UNCHANGED clientVars /\ UNCHANGED <<ppc, connectfd, handling>>
      /\ UNCHANGED <<up, down, backlog, child, buffer, open, pending, hit>>
  BY DEF vars, parentVars
<1>1. UNCHANGED <<cpc, typed, printed, late, garbled>>
  BY <1>0 DEF clientVars
<1>2. BaseOK' /\ FreshOK' /\ BacklogOK'
  BY <1>0, <1>1 DEF IndInv, BaseOK, FreshOK, BacklogOK
<1>3. SocketsOK'
  BY <1>0, <1>1 DEF IndInv, SocketsOK, Isolated
<1>4. \A c \in Clients : Same(c)
  BY <1>0, <1>1, SameConnected DEF Same, ChildSame
<1>5. hit \subseteq hit'
  BY <1>0
<1> QED BY <1>0, <1>2, <1>3, <1>4, <1>5, ServerStep

LEMMA InitInd == Init => IndInv
<1> SUFFICES ASSUME Init PROVE IndInv
  OBVIOUS
<1>0. /\ \A c \in Clients : /\ cpc[c] = "off" /\ typed[c] = 0 /\ printed[c] = <<>> /\ c \notin garbled
                            /\ up[c] = <<>> /\ down[c] = <<>> /\ child[c] = "none" /\ c \in Servers
      /\ \A p \in Children : child[p] = "none" /\ open[p] = {}
      /\ open[Parent] = {Listen} /\ backlog = <<>> /\ ppc = "accept" /\ hit = {}
  BY NamesApart DEF Init
<1>1. BaseOK
  <2>1. pending \in BOOLEAN /\ handling \in BOOLEAN
    BY DEF Init
  <2>2. /\ up \in [Clients -> Seq(Int)] /\ down \in [Clients -> Seq(Int)]
        /\ printed \in [Clients -> Seq(Int)] /\ backlog \in Seq(Clients)
    BY EmptySeq DEF Init
  <2>3. /\ typed \in [Clients -> 0 .. Lines] /\ buffer \in [Children -> Int]
    BY SizesAssumption DEF Init, EOF
  <2>4. open \in [Servers -> SUBSET (Clients \cup {Listen})]
    BY DEF Init
  <2>5. \A c \in Clients : child[c] = "write" => buffer[c] > 0
    BY <1>0
  <2> QED BY <2>1, <2>2, <2>3, <2>4, <2>5 DEF Init, BaseOK
<1>2. SocketsOK
  BY <1>0, NamesApart DEF SocketsOK, Isolated
<1>3. Len(backlog) = 0
  BY <1>0, EmptySeq
<1>4. BacklogOK /\ FreshOK
  BY <1>0, <1>3, NamesApart DEF BacklogOK, FreshOK
<1>5. ASSUME NEW c \in Clients PROVE Load(c) /\ Served(c)
  <2>1. ~Connected(c) /\ ~Ended(c) /\ cpc[c] = "off"
    BY <1>0, <1>3, NamesApart DEF Connected, Ended
  <2>2. Len(down[c]) = 0 /\ Most(c) = 0
    BY <1>0, EmptySeq DEF Most
  <2> QED BY <1>0, <2>1, <2>2 DEF Load, Served
<1> QED BY <1>1, <1>2, <1>4, <1>5 DEF IndInv, LoadOK, ServedOK

LEMMA NextInd == ASSUME IndInv, Next PROVE IndInv'
<1>1. CASE parent \/ AcceptFails \/ ParentEnds \/ sigChildHandler
  BY <1>1, AcceptInd, ForkInd, CloseInd, AcceptFailsInd, ParentEndsInd, HandlerInd DEF parent
<1>2. ASSUME NEW p \in Children, str_serv(p) \/ KillChild(p) PROVE IndInv'
  BY <1>2, ChildEndsInd, ChildReadInd, ChildWriteInd DEF str_serv
<1>3. ASSUME NEW c \in Clients, connect(c) \/ ConnectRefused(c) \/ ConnectTimeout(c) PROVE IndInv'
  BY <1>3, ConnectInd, ConnectRefusedInd, ConnectTimeoutInd
<1>4. ASSUME NEW c \in Clients, str_cli(c) \/ KillClient(c) PROVE IndInv'
  BY <1>4, SendLineInd, SendFailsInd, ShowEchoInd, TimeOutInd, ReadFailsInd, EndOfInputInd,
     KillClientInd DEF str_cli
<1> QED BY <1>1, <1>2, <1>3, <1>4 DEF Next

LEMMA Inductive == Spec => []IndInv
<1>1. IndInv /\ [Next]_vars => IndInv'
  BY NextInd, StutterInd
<1> QED BY <1>1, InitInd, PTL DEF Spec

-----------------------------------------------------------------------------
\* Every variable keeps its type; in particular no client ever has more than one
\* line and the end of the connection on its way, or, if it goes on after a
\* timeout, all of its lines and the end.
THEOREM TypeCorrect == Spec => []TypeOK
<1>1. IndInv => TypeOK
  <2> SUFFICES ASSUME IndInv PROVE TypeOK
    OBVIOUS
  <2>1. ASSUME NEW c \in Clients
        PROVE  Len(up[c]) + Len(down[c]) <= (IF c \in Timed THEN Lines ELSE 1) + 1
    <3>1. /\ up[c] \in Seq(Int) /\ down[c] \in Seq(Int) /\ typed[c] \in 0 .. Lines /\ Lines \in Nat
          /\ Load(c) /\ Len(up[c]) \in Nat /\ Len(down[c]) \in Nat /\ Held(c) \in 0 .. 1
      BY OneClient
    <3>2. Most(c) \in Nat /\ Most(c) <= IF c \in Timed THEN Lines ELSE 1
      BY <3>1 DEF Most
    <3>3. CASE ~Ended(c) /\ Connected(c)
      <4>1. OnlyLines(up[c], down[c], Held(c), Most(c))
        BY <3>1, <3>3 DEF Load
      <4>2. Len(up[c]) + Len(down[c]) <= Most(c)
        BY <3>1, <3>2, <4>1, FewLines
      <4>3. \A x, y, m, k \in Nat : x + y <= m /\ m <= k => x + y <= k + 1
        OBVIOUS
      <4>4. (IF c \in Timed THEN Lines ELSE 1) \in Nat
        BY <3>1
      <4> QED BY <3>1, <3>2, <4>2, <4>3, <4>4
    <3>4. CASE ~Ended(c) /\ ~Connected(c)
      <4>1. Len(up[c]) = 0 /\ Len(down[c]) <= Most(c) + 1
        BY <3>1, <3>4, EmptySeq DEF Load
      <4> QED BY <3>1, <3>2, <4>1
    <3>5. CASE Ended(c)
      <4>1. Len(down[c]) = 0 /\ Len(up[c]) <= (IF c \in Timed THEN Lines ELSE 1) + 1
        BY <3>1, <3>5, EmptySeq DEF Load
      <4> QED BY <3>1, <4>1
    <3> QED BY <3>3, <3>4, <3>5
  <2> QED BY <2>1 DEF IndInv, BaseOK, TypeOK
<1> QED BY <1>1, Inductive, PTL

\* fork hands every open socket to the child, and yet no child ever has another
\* client's connection open, and the parent has at most the one it is about to
\* hand over or to close.
THEOREM ConnectionsIsolated == Spec => []Isolated
<1>1. IndInv => Isolated
  BY DEF IndInv, SocketsOK
<1> QED BY <1>1, Inductive, PTL

\* A client that has ended has exited normally with every line shown, unless it, its
\* own child or the parent met a fault: what happens to all the others is nothing
\* to it.
THEOREM UnharmedAreServed == Spec => []UnharmedServed
<1>1. IndInv => UnharmedServed
  <2> SUFFICES ASSUME IndInv, NEW c \in Clients, Ended(c), {c, Parent} \cap hit = {}
               PROVE  cpc[c] = "exit0" /\ Shown(c)
    BY DEF UnharmedServed
  <2>1. Unharmed(c)
    BY DEF Unharmed
  <2> QED BY <2>1, OneClient DEF Served
<1> QED BY <1>1, Inductive, PTL
=============================================================================
