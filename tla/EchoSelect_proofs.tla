------------------------- MODULE EchoSelect_proofs -------------------------
(***************************************************************************)
(* For any number of clients, of lines, of entries in the server's table   *)
(* and any size of the socket buffers: the select server's table, its set  *)
(* and its descriptors agree, it never blocks in read, and a client that   *)
(* ends normally has shown the echo of every line.                         *)
(***************************************************************************)
EXTENDS EchoSelect, SequenceTheorems, FiniteSetTheorems, WellFoundedInduction, TLAPS

-----------------------------------------------------------------------------
(* The server's table: an inductive invariant *)

Items == [of : Clients, n : Int]

\* The types of the variables, those of the connections' contents included.
BaseOK == /\ cpc \in [Clients -> {"off", "select", "terminal", "exit0", "exit-1", "killed"}]
          /\ typed \in [Clients -> Nat] /\ \A c \in Clients : typed[c] <= Input(c)
          /\ endOfTerminal \in [Clients -> BOOLEAN] /\ printed \in [Clients -> Seq(Items)]
          /\ up \in [Clients -> Seq(Items)] /\ down \in [Clients -> Seq(Items)]
          /\ backlog \in Seq(Clients) /\ buffer \in Seq(Items)
          /\ spc \in {"select", "read", "write", "killed", "sigpipe"}
          /\ conn \in [Fds -> Clients \cup {None}] /\ client \in [Slots -> Fds \cup {-1}]
          /\ allSet \subseteq Fds /\ readSet \subseteq Fds /\ i \in Slots

\* Connections carry what their own client has sent.
OwnOK == \A c \in Clients : \A k \in 1 .. Len(up[c]) : up[c][k].of = c

\* A connection is on one descriptor or waits once in the backlog, and not both.
SocketsOK ==
    ServerUp =>
      /\ conn[sockfd] = None /\ \A s \in Slots : client[s] # sockfd
      /\ \A f, g \in Fds : conn[f] = conn[g] /\ conn[f] # None => f = g
      /\ \A f \in Fds : conn[f] # None => cpc[conn[f]] # "off"
      /\ \A k \in 1 .. Len(backlog) : /\ cpc[backlog[k]] # "off"
                                      /\ \A f \in Fds : conn[f] # backlog[k]
      /\ \A j, k \in 1 .. Len(backlog) : backlog[j] = backlog[k] => j = k

\* What select has reported and the loop has not come to is still there; between
\* read and write the server holds one line of the connection it is at.
PendingOK ==
    /\ spc \in {"read", "write"} =>
         /\ client[i] \in readSet
         /\ \A j \in Slots : client[j] \in readSet /\ (j > i \/ (j = i /\ spc = "read"))
                                => up[conn[client[j]]] # <<>>
    /\ spc = "write" => buffer # <<>> /\ buffer[1].of = Current /\ buffer[1].n > 0
    /\ spc \in {"select", "read"} => buffer = <<>>
    /\ Len(buffer) <= 1

TableInv == BaseOK /\ OwnOK /\ TableConsistent /\ SocketsOK /\ PendingOK

-----------------------------------------------------------------------------
(* Lemmas about the operators *)

LEMMA MinFact ==
  ASSUME NEW S, S \subseteq Nat, S # {}
  PROVE  Min(S) \in S /\ \A y \in S : Min(S) <= y
<1> DEFINE R == OpToRel(<, Nat)
<1>1. IsWellFoundedOn(R, Nat) BY NatLessThanWellFounded
<1>2. \A p \in Nat \X Nat : p[1] < p[2] => p \in R
  BY DEF OpToRel
<1> HIDE DEF R
<1>3. PICK x \in S : \A y \in S : ~ (<<y, x>> \in R)
  BY <1>1, WFMin, Zenon
<1>4. \A y \in S : x <= y
  <2> SUFFICES ASSUME NEW y \in S PROVE x <= y OBVIOUS
  <2>1. <<y, x>> \in Nat \X Nat OBVIOUS
  <2>2. ~ (y < x) BY <1>2, <1>3, <2>1
  <2> QED BY <2>2
<1> QED BY <1>4, Zenon DEF Min

LEMMA Sizes ==
  /\ Cardinality(Clients) \in Nat /\ Fds \subseteq Nat /\ sockfd \in Fds
  /\ Slots \subseteq Nat /\ 0 \in Slots /\ -1 \notin Fds
  /\ \A c \in Clients : Input(c) \in Nat
<1>1. Cardinality(Clients) \in Nat BY ClientsAssumption, FS_CardinalityType
<1>2. MAXCLIENT \in Nat \ {0} /\ Lines \in Nat BY SizesAssumption
<1> QED BY <1>1, <1>2 DEF Fds, Slots, sockfd, Input

\* The loop goes on at a later entry that select has reported, or ends.
LEMMA Serve ==
  ASSUME NEW table, NEW set, NEW s \in Nat, ServeFrom(table, set, s)
  PROVE  \/ spc' = "select" /\ i' = 0
         \/ spc' = "read" /\ i' \in Slots /\ i' >= s /\ table[i'] \in set
<1> DEFINE todo == Todo(table, set, s)
<1>1. CASE todo = {}
  BY <1>1 DEF ServeFrom
<1>2. CASE todo # {}
  <2>1. todo \subseteq s .. MAXCLIENT - 1 /\ \A j \in todo : table[j] \in set
    BY DEF Todo
  <2>2. MAXCLIENT \in Nat BY SizesAssumption
  <2>3. todo \subseteq Nat BY <2>1, <2>2
  <2> HIDE DEF todo
  <2>4. Min(todo) \in todo BY <1>2, <2>3, MinFact
  <2> USE DEF todo
  <2>5. spc' = "read" /\ i' = Min(todo) BY <1>2 DEF ServeFrom
  <2> HIDE DEF todo
  <2>6. i' \in s .. MAXCLIENT - 1 /\ table[i'] \in set BY <2>1, <2>4, <2>5
  <2> QED BY <2>2, <2>5, <2>6 DEF Slots
<1> QED BY <1>1, <1>2

\* There is a descriptor for every connection that waits.
LEMMA FreeFd ==
  ASSUME BaseOK, SocketsOK, ServerUp, backlog # <<>>
  PROVE  \E f \in Fds \ {sockfd} : conn[f] = None
<1> DEFINE N == Cardinality(Clients)
           h == Head(backlog)
           T == Clients \ {h}
           g == [f \in 1 .. N |-> conn[f]]
<1>1. N \in Nat /\ IsFiniteSet(Clients) BY ClientsAssumption, Sizes
<1>2. h \in Clients /\ 1 \in 1 .. Len(backlog) /\ h = backlog[1]
  BY DEF BaseOK
<1>3. IsFiniteSet(T) /\ Cardinality(T) = N - 1
  BY <1>1, <1>2, FS_RemoveElement
<1>4. IsFiniteSet(1 .. N) /\ Cardinality(1 .. N) = N
  BY <1>1, FS_Interval
<1>5. SUFFICES ASSUME \A f \in Fds \ {sockfd} : conn[f] # None PROVE FALSE OBVIOUS
<1>6. \A f \in 1 .. N : f \in Fds /\ conn[f] \in T
  <2> SUFFICES ASSUME NEW f \in 1 .. N PROVE f \in Fds /\ conn[f] \in T OBVIOUS
  <2>1. f \in Fds /\ f # sockfd BY <1>1 DEF Fds, sockfd
  <2>2. conn[f] \in Clients BY <1>5, <2>1 DEF BaseOK
  <2>3. conn[f] # h BY <1>2, <2>1 DEF SocketsOK
  <2> QED BY <2>1, <2>2, <2>3
<1>7. g \in [1 .. N -> T] BY <1>6
<1> HIDE DEF T
<1>8. \E x, y \in 1 .. N : x # y /\ g[x] = g[y]
  <2>1. Cardinality(T) < Cardinality(1 .. N) BY <1>1, <1>3, <1>4
  <2> HIDE DEF g
  <2> QED BY <1>3, <1>4, <1>7, <2>1, FS_PigeonHole
<1> QED BY <1>5, <1>6, <1>8 DEF SocketsOK, Fds, sockfd

LEMMA CurrentFacts ==
  ASSUME TableInv, spc \in {"read", "write"}
  PROVE  /\ ServerUp /\ i \in Slots /\ client[i] \in Fds /\ client[i] # sockfd /\ client[i] # -1
         /\ client[i] \in readSet /\ client[i] \in allSet /\ Current \in Clients
         /\ cpc[Current] # "off"
<1>1. ServerUp BY DEF ServerUp
<1>2. i \in Slots /\ client[i] \in readSet /\ readSet \subseteq Fds
  BY DEF TableInv, BaseOK, PendingOK
<1>3. client[i] \in Fds /\ client[i] # -1 BY <1>2, Sizes
<1>4. client[i] # sockfd BY <1>1, <1>2 DEF TableInv, SocketsOK
<1>5. client[i] \in allSet BY <1>1, <1>2, <1>3 DEF TableInv, TableConsistent
<1>6. conn[client[i]] # None BY <1>1, <1>4, <1>5 DEF TableInv, TableConsistent
<1>7. conn[client[i]] \in Clients BY <1>3, <1>6 DEF TableInv, BaseOK
<1>8. cpc[Current] # "off" BY <1>1, <1>3, <1>6 DEF TableInv, SocketsOK, Current
<1> QED BY <1>1, <1>2, <1>3, <1>4, <1>5, <1>7, <1>8 DEF Current

LEMMA TableInit == Init => TableInv
<1> SUFFICES ASSUME Init PROVE TableInv OBVIOUS
<1> USE DEF Init
<1>1. BaseOK
  <2>1. /\ cpc \in [Clients -> {"off", "select", "terminal", "exit0", "exit-1", "killed"}]
        /\ endOfTerminal \in [Clients -> BOOLEAN]
    OBVIOUS
  <2>2. typed \in [Clients -> Nat] /\ \A c \in Clients : typed[c] <= Input(c)
    BY Sizes
  <2>3. /\ printed \in [Clients -> Seq(Items)] /\ up \in [Clients -> Seq(Items)]
        /\ down \in [Clients -> Seq(Items)] /\ backlog \in Seq(Clients) /\ buffer \in Seq(Items)
    BY EmptySeq
  <2>4. conn \in [Fds -> Clients \cup {None}] /\ client \in [Slots -> Fds \cup {-1}]
    OBVIOUS
  <2> QED BY <2>1, <2>2, <2>3, <2>4, Sizes DEF BaseOK
<1>2. OwnOK BY EmptySeq DEF OwnOK
<1>3. TableConsistent
  BY Sizes DEF TableConsistent, sockfd
<1>4. SocketsOK
  BY Sizes, EmptySeq DEF SocketsOK, sockfd, Fds
<1>5. PendingOK
  BY EmptySeq DEF PendingOK
<1> QED BY <1>1, <1>2, <1>3, <1>4, <1>5 DEF TableInv

-----------------------------------------------------------------------------
(* The table under the clients' steps *)

LEMMA ChunkFacts ==
  ASSUME NEW c \in Clients, NEW k \in Int
  PROVE  Chunk(c, k) \in Items /\ Chunk(c, k).of = c /\ Chunk(c, k).n = k
  BY DEF Chunk, Items

LEMMA EndFacts ==
  ASSUME NEW c \in Clients
  PROVE  /\ EOF(c) \in Items /\ EOF(c).of = c /\ EOF(c).n = 0
         /\ RST(c) \in Items /\ RST(c).of = c /\ RST(c).n = -1
<1>1. 0 \in Int /\ -1 \in Int OBVIOUS
<1> QED BY <1>1, ChunkFacts DEF EOF, RST

\* The entries of the table that select has reported are connections.
LEMMA EntryFacts ==
  ASSUME TableInv, ServerUp, NEW j \in Slots, client[j] # -1
  PROVE  /\ client[j] \in Fds /\ client[j] # sockfd /\ client[j] \in allSet
         /\ conn[client[j]] \in Clients
<1>1. client[j] \in Fds /\ client[j] # sockfd
  BY DEF TableInv, BaseOK, SocketsOK
<1>2. client[j] \in allSet BY <1>1 DEF TableInv, TableConsistent
<1>3. conn[client[j]] # None BY <1>1, <1>2 DEF TableInv, TableConsistent
<1> QED BY <1>1, <1>2, <1>3 DEF TableInv, BaseOK

LEMMA QuietTable ==
  ASSUME TableInv, BaseOK', OwnOK', UNCHANGED <<tableVars, backlog, spc, buffer>>,
         \A c \in Clients : cpc'[c] = "off" => cpc[c] = "off",
         \A c \in Clients : up[c] # <<>> => up'[c] # <<>>
  PROVE  TableInv'
<1>0. UNCHANGED <<conn, client, allSet, readSet, i>> BY DEF tableVars
<1>1. TableConsistent' BY <1>0 DEF TableInv, TableConsistent, ServerUp
<1>2. SocketsOK'
  <2>1. \A f \in Fds : conn[f] # None => conn[f] \in Clients BY DEF TableInv, BaseOK
  <2>2. \A k \in 1 .. Len(backlog) : backlog[k] \in Clients BY DEF TableInv, BaseOK
  <2> QED BY <1>0, <2>1, <2>2 DEF TableInv, SocketsOK, ServerUp
<1>3. PendingOK'
  <2>1. ASSUME spc \in {"read", "write"}, NEW j \in Slots, client[j] \in readSet,
               up[conn[client[j]]] # <<>>
        PROVE  up'[conn[client[j]]] # <<>>
    <3>1. client[j] # -1 BY <2>1, Sizes DEF TableInv, BaseOK
    <3>2. ServerUp BY <2>1 DEF ServerUp
    <3>3. conn[client[j]] \in Clients BY <3>1, <3>2, EntryFacts
    <3> QED BY <2>1, <3>3
  <2> QED BY <1>0, <2>1 DEF TableInv, PendingOK, Current
<1> QED BY <1>1, <1>2, <1>3 DEF TableInv

LEMMA ConnectTable ==
  ASSUME TableInv, NEW c \in Clients, connect(c)
  PROVE  TableInv'
<1> USE DEF connect
<1>0. /\ UNCHANGED <<conn, client, allSet, readSet, i, spc, buffer, up, down, typed, printed, endOfTerminal>>
      /\ ServerUp
  BY DEF tableVars
<1>1. cpc' = [cpc EXCEPT ![c] = "select"] /\ cpc[c] = "off" OBVIOUS
<1>2. backlog' \in Seq(Clients) /\ Len(backlog') = Len(backlog) + 1 /\ Len(backlog) \in Nat
      /\ backlog'[Len(backlog) + 1] = c /\ \A k \in 1 .. Len(backlog) : backlog'[k] = backlog[k]
  BY DEF TableInv, BaseOK
<1>3. BaseOK'
  <2>1. cpc' \in [Clients -> {"off", "select", "terminal", "exit0", "exit-1", "killed"}]
    BY <1>1 DEF TableInv, BaseOK
  <2> QED BY <1>0, <1>2, <2>1 DEF TableInv, BaseOK
<1>4. OwnOK' BY <1>0 DEF TableInv, OwnOK
<1>5. TableConsistent' BY <1>0 DEF TableInv, TableConsistent, ServerUp
<1>6. PendingOK' BY <1>0 DEF TableInv, PendingOK, Current
<1>7. SocketsOK'
  <2> DEFINE n == Len(backlog)
  <2>1. \A d \in Clients : cpc[d] # "off" => cpc'[d] # "off" BY <1>1 DEF TableInv, BaseOK
  <2>2. cpc'[c] # "off" BY <1>1 DEF TableInv, BaseOK
  <2>3. \A k \in 1 .. n : /\ backlog[k] \in Clients /\ cpc[backlog[k]] # "off"
                          /\ \A f \in Fds : conn[f] # backlog[k]
    <3>1. \A k \in 1 .. n : backlog[k] \in Clients BY DEF TableInv, BaseOK
    <3> QED BY <1>0, <3>1 DEF TableInv, SocketsOK
  <2>4. \A f \in Fds : conn[f] # None => cpc[conn[f]] # "off" /\ conn[f] \in Clients
    BY <1>0 DEF TableInv, SocketsOK, BaseOK
  <2>5. \A f \in Fds : conn[f] # c BY <1>1, <2>4, ClientsAssumption
  <2>6. \A k \in 1 .. n + 1 : k \in 1 .. n \/ k = n + 1 BY <1>2
  <2>7. \A k \in 1 .. n + 1 : cpc'[backlog'[k]] # "off" /\ \A f \in Fds : conn[f] # backlog'[k]
    BY <1>2, <2>1, <2>2, <2>3, <2>5, <2>6
  <2>8. \A j, k \in 1 .. n + 1 : backlog'[j] = backlog'[k] => j = k
    <3>1. \A k \in 1 .. n : backlog[k] # c BY <1>1, <2>3
    <3>2. \A j, k \in 1 .. n : backlog[j] = backlog[k] => j = k
      BY <1>0 DEF TableInv, SocketsOK
    <3> QED BY <1>2, <2>6, <3>1, <3>2
  <2>9. \A f \in Fds : conn[f] # None => cpc'[conn[f]] # "off" BY <2>1, <2>4
  <2> QED BY <1>0, <1>2, <2>7, <2>8, <2>9 DEF TableInv, SocketsOK, ServerUp
<1> QED BY <1>3, <1>4, <1>5, <1>6, <1>7 DEF TableInv

\* Only one's own end of a connection is written to, and with one's own items.
LEMMA OwnAppend ==
  ASSUME TableInv, NEW c \in Clients, NEW s \in Seq(Items), \A k \in 1 .. Len(s) : s[k].of = c,
         up' = [up EXCEPT ![c] = up[c] \o s]
  PROVE  /\ up' \in [Clients -> Seq(Items)] /\ OwnOK'
         /\ \A d \in Clients : up[d] # <<>> => up'[d] # <<>>
<1>1. up[c] \in Seq(Items) BY DEF TableInv, BaseOK
<1>2. /\ up[c] \o s \in Seq(Items) /\ Len(up[c] \o s) = Len(up[c]) + Len(s)
      /\ \A k \in 1 .. Len(up[c]) + Len(s) :
           (up[c] \o s)[k] = IF k <= Len(up[c]) THEN up[c][k] ELSE s[k - Len(up[c])]
  BY <1>1
<1>3. up' \in [Clients -> Seq(Items)] /\ up'[c] = up[c] \o s
      /\ \A d \in Clients : d # c => up'[d] = up[d]
  BY <1>2 DEF TableInv, BaseOK
<1>4. Len(up[c]) \in Nat /\ Len(s) \in Nat BY <1>1
<1>5. \A k \in 1 .. Len(up'[c]) : up'[c][k].of = c
  <2> SUFFICES ASSUME NEW k \in 1 .. Len(up[c]) + Len(s) PROVE (up[c] \o s)[k].of = c
    BY <1>2, <1>3
  <2>1. CASE k <= Len(up[c])
    <3>1. k \in 1 .. Len(up[c]) BY <1>4, <2>1
    <3> QED BY <1>2, <2>1, <3>1 DEF TableInv, OwnOK
  <2>2. CASE ~ (k <= Len(up[c]))
    <3>1. k - Len(up[c]) \in 1 .. Len(s) BY <1>4, <2>2
    <3> QED BY <1>2, <2>2, <3>1
  <2> QED BY <2>1, <2>2
<1>6. OwnOK'
  <2> SUFFICES ASSUME NEW d \in Clients, NEW k \in 1 .. Len(up'[d]) PROVE up'[d][k].of = d
    BY DEF OwnOK
  <2>1. CASE d = c BY <1>5, <2>1
  <2>2. CASE d # c BY <1>3, <2>2 DEF TableInv, OwnOK
  <2> QED BY <2>1, <2>2
<1>7. up[c] # <<>> => up'[c] # <<>> BY <1>1, <1>2, <1>3, <1>4
<1> QED BY <1>3, <1>6, <1>7

\* str_cli and the end of a client by a signal
LEMMA ClientTable ==
  ASSUME TableInv, NEW c \in Clients, str_cli(c) \/ KillClient(c)
  PROVE  TableInv'
<1> USE DEF ClientGoto
<1>0. /\ cpc \in [Clients -> {"off", "select", "terminal", "exit0", "exit-1", "killed"}]
      /\ typed \in [Clients -> Nat] /\ typed[c] <= Input(c) /\ Input(c) \in Nat
      /\ endOfTerminal \in [Clients -> BOOLEAN] /\ printed \in [Clients -> Seq(Items)]
      /\ up \in [Clients -> Seq(Items)] /\ down \in [Clients -> Seq(Items)]
  BY Sizes DEF TableInv, BaseOK
<1>1. /\ UNCHANGED <<tableVars, backlog, spc, buffer>>
      /\ cpc[c] # "off" /\ \E to \in {"select", "terminal", "exit0", "exit-1", "killed"} :
                             cpc' = [cpc EXCEPT ![c] = to]
  BY DEF str_cli, TerminalReady, ShowEcho, ServerClosed, SendLine, SendFails, EndOfInput, KillClient
<1>2. /\ cpc' \in [Clients -> {"off", "select", "terminal", "exit0", "exit-1", "killed"}]
      /\ \A d \in Clients : cpc'[d] = "off" => cpc[d] = "off"
  BY <1>0, <1>1
<1>3. typed' \in [Clients -> Nat] /\ \A d \in Clients : typed'[d] <= Input(d)
  <2>1. CASE SendLine(c)
    <3>1. typed' = [typed EXCEPT ![c] = @ + 1] /\ typed[c] < Input(c) BY <2>1 DEF SendLine
    <3>2. typed[c] + 1 \in Nat /\ typed[c] + 1 <= Input(c) BY <1>0, <3>1
    <3> QED BY <1>0, <3>1, <3>2 DEF TableInv, BaseOK
  <2>2. CASE UNCHANGED typed BY <2>2 DEF TableInv, BaseOK
  <2> QED
    BY <2>1, <2>2 DEF str_cli, TerminalReady, ShowEcho, ServerClosed, SendFails, EndOfInput, KillClient
<1>4. endOfTerminal' \in [Clients -> BOOLEAN]
  <2>1. CASE EndOfInput(c) BY <1>0, <2>1 DEF EndOfInput
  <2>2. CASE UNCHANGED endOfTerminal BY <1>0, <2>2
  <2> QED
    BY <2>1, <2>2 DEF str_cli, TerminalReady, ShowEcho, ServerClosed, SendLine, SendFails, KillClient
<1>5. printed' \in [Clients -> Seq(Items)] /\ down' \in [Clients -> Seq(Items)]
  <2>1. CASE ShowEcho(c)
    <3>1. down[c] # <<>> /\ down[c] \in Seq(Items) /\ printed[c] \in Seq(Items)
      BY <1>0, <2>1 DEF ShowEcho
    <3>2. Head(down[c]) \in Items /\ Tail(down[c]) \in Seq(Items) BY <3>1
    <3>3. Append(printed[c], Head(down[c])) \in Seq(Items) BY <3>1, <3>2
    <3> QED BY <1>0, <2>1, <3>2, <3>3 DEF ShowEcho
  <2>2. CASE /\ UNCHANGED printed
             /\ UNCHANGED down \/ down' = [down EXCEPT ![c] = <<>>]
    BY <1>0, <2>2, EmptySeq
  <2> QED
    BY <2>1, <2>2 DEF str_cli, TerminalReady, ServerClosed, SendLine, SendFails, EndOfInput, KillClient
<1>6. \E s \in Seq(Items) : /\ \A k \in 1 .. Len(s) : s[k].of = c
                            /\ up' = [up EXCEPT ![c] = up[c] \o s]
  <2>1. /\ EOF(c) \in Items /\ EOF(c).of = c /\ RST(c) \in Items /\ RST(c).of = c
        /\ Chunk(c, typed[c] + 1) \in Items /\ Chunk(c, typed[c] + 1).of = c
    <3>1. typed[c] + 1 \in Int BY <1>0
    <3> QED BY <3>1, EndFacts, ChunkFacts
  <2> DEFINE Good(s) == s \in Seq(Items) /\ \A k \in 1 .. Len(s) : s[k].of = c
  <2>2. Good(<<>>) BY EmptySeq
  <2>3. ASSUME NEW x \in Items, x.of = c PROVE Good(<<x>>) /\ Append(up[c], x) = up[c] \o <<x>>
    <3>1. up[c] \in Seq(Items) BY <1>0
    <3> QED BY <2>3, <3>1
  <2>4. Good(<<RST(c), EOF(c)>>)
    <3>1. <<RST(c), EOF(c)>> \in Seq(Items) BY <2>1
    <3> QED BY <2>1, <3>1
  <2>5. up[c] \o <<>> = up[c] BY <1>0
  <2>6. up = [up EXCEPT ![c] = up[c]] BY <1>0
  <2>7. SUFFICES ASSUME TRUE PROVE \E s : Good(s) /\ up' = [up EXCEPT ![c] = up[c] \o s] OBVIOUS
  <2>8. CASE UNCHANGED up
    <3>1. up' = [up EXCEPT ![c] = up[c] \o <<>>] BY <2>5, <2>6, <2>8
    <3> QED BY <2>2, <3>1
  <2>9. CASE ServerClosed(c) \/ EndOfInput(c)
    <3>1. CASE UNCHANGED up BY <2>8, <3>1
    <3>2. CASE up' = [up EXCEPT ![c] = Append(up[c], EOF(c))]
      <4>1. up' = [up EXCEPT ![c] = up[c] \o <<EOF(c)>>] BY <2>1, <2>3, <3>2
      <4> QED BY <2>1, <2>3, <4>1
    <3> QED BY <1>0, <2>6, <2>9, <3>1, <3>2 DEF ServerClosed, EndOfInput
  <2>10. CASE SendLine(c)
    <3>1. up' = [up EXCEPT ![c] = up[c] \o <<Chunk(c, typed[c] + 1)>>]
      BY <2>1, <2>3, <2>10 DEF SendLine
    <3> QED BY <2>1, <2>3, <3>1
  <2>11. CASE KillClient(c)
    <3> DEFINE s == CASE ~ServerUp \/ (endOfTerminal[c] /\ down[c] = <<>>) -> <<>>
                      [] ServerUp /\ down[c] # <<>> -> <<RST(c), EOF(c)>>
                      [] OTHER -> <<EOF(c)>>
    <3>1. up' = [up EXCEPT ![c] = up[c] \o s] BY <2>11 DEF KillClient
    <3>2. s = <<>> \/ s = <<RST(c), EOF(c)>> \/ s = <<EOF(c)>> OBVIOUS
    <3> HIDE DEF s
    <3>3. Good(<<EOF(c)>>) BY <2>1, <2>3
    <3>4. Good(s) BY <2>2, <2>4, <3>2, <3>3
    <3> QED BY <3>1, <3>4
  <2> QED BY <2>8, <2>9, <2>10, <2>11 DEF str_cli, TerminalReady, ShowEcho, SendFails
<1>7. /\ up' \in [Clients -> Seq(Items)] /\ OwnOK'
      /\ \A d \in Clients : up[d] # <<>> => up'[d] # <<>>
  BY <1>6, OwnAppend
<1>8. BaseOK'
  BY <1>1, <1>2, <1>3, <1>4, <1>5, <1>7 DEF TableInv, BaseOK, tableVars
<1> QED BY <1>1, <1>2, <1>7, <1>8, QuietTable

-----------------------------------------------------------------------------
(* The table under the server's steps *)

LEMMA AfterServe ==
  ASSUME NEW s \in Nat, ServeFrom(client', readSet', s), buffer' = <<>>,
         \A j \in Slots : j >= s /\ client'[j] \in readSet' => up'[conn'[client'[j]]] # <<>>
  PROVE  PendingOK' /\ i' \in Slots /\ spc' \in {"select", "read"}
<1>1. \/ spc' = "select" /\ i' = 0
      \/ spc' = "read" /\ i' \in Slots /\ i' >= s /\ client'[i'] \in readSet'
  BY Serve
<1>2. Len(buffer') = 0 BY EmptySeq
<1>3. CASE spc' = "select" /\ i' = 0
  BY <1>2, <1>3, Sizes DEF PendingOK
<1>4. CASE spc' = "read" /\ i' \in Slots /\ i' >= s /\ client'[i'] \in readSet'
  <2>1. \A j \in Slots : j > i' \/ j = i' => j >= s
    BY <1>4, Sizes
  <2> QED BY <1>2, <1>4, <2>1 DEF PendingOK
<1> QED BY <1>1, <1>3, <1>4

LEMMA OwnTail ==
  ASSUME TableInv, NEW c \in Clients, up[c] # <<>>, up' = [up EXCEPT ![c] = Tail(@)]
  PROVE  /\ up' \in [Clients -> Seq(Items)] /\ OwnOK' /\ Head(up[c]) \in Items /\ Head(up[c]).of = c
         /\ \A d \in Clients : d # c => up'[d] = up[d]
<1>1. up[c] \in Seq(Items) BY DEF TableInv, BaseOK
<1>2. /\ Tail(up[c]) \in Seq(Items) /\ Len(Tail(up[c])) = Len(up[c]) - 1
      /\ \A k \in 1 .. Len(up[c]) - 1 : Tail(up[c])[k] = up[c][k + 1]
      /\ Head(up[c]) = up[c][1] /\ Len(up[c]) \in Nat /\ Len(up[c]) >= 1 /\ Head(up[c]) \in Items
  BY <1>1
<1>3. up' \in [Clients -> Seq(Items)] /\ up'[c] = Tail(up[c])
      /\ \A d \in Clients : d # c => up'[d] = up[d]
  BY <1>2 DEF TableInv, BaseOK
<1>4. Head(up[c]).of = c
  <2>1. 1 \in 1 .. Len(up[c]) BY <1>2
  <2> QED BY <1>2, <2>1 DEF TableInv, OwnOK
<1>5. OwnOK'
  <2> SUFFICES ASSUME NEW d \in Clients, NEW k \in 1 .. Len(up'[d]) PROVE up'[d][k].of = d
    BY DEF OwnOK
  <2>1. CASE d = c
    <3>1. k \in 1 .. Len(up[c]) - 1 /\ k + 1 \in 1 .. Len(up[c]) BY <1>2, <1>3, <2>1
    <3>2. up'[d][k] = up[c][k + 1] BY <1>2, <1>3, <2>1, <3>1
    <3> QED BY <2>1, <3>1, <3>2 DEF TableInv, OwnOK
  <2>2. CASE d # c BY <1>3, <2>2 DEF TableInv, OwnOK
  <2> QED BY <2>1, <2>2
<1> QED BY <1>2, <1>3, <1>4, <1>5

\* The entry the loop is at is the only one for its connection.
LEMMA OtherEntry ==
  ASSUME TableInv, spc \in {"read", "write"}, NEW j \in Slots, j # i, client[j] # -1
  PROVE  client[j] # client[i] /\ conn[client[j]] # Current /\ conn[client[j]] \in Clients
<1>1. ServerUp /\ i \in Slots /\ client[i] \in Fds /\ Current \in Clients /\ client[i] # -1
  BY CurrentFacts
<1>2. client[j] # client[i] BY <1>1 DEF TableInv, TableConsistent
<1>3. client[j] \in Fds /\ conn[client[j]] \in Clients BY <1>1, EntryFacts
<1>4. conn[client[j]] # None BY <1>3, ClientsAssumption
<1> QED BY <1>1, <1>2, <1>3, <1>4 DEF TableInv, SocketsOK, Current

LEMMA SelectTable ==
  ASSUME TableInv, select \/ AcceptFails
  PROVE  TableInv'
<1>0. /\ UNCHANGED <<cpc, typed, endOfTerminal, printed, up, down, conn, client, allSet, backlog>>
      /\ spc = "select" /\ readSet' = {f \in allSet : Readable(f)} /\ UNCHANGED buffer
      /\ ServerUp /\ (ServeFrom(client, readSet', 0) \/ (spc' = "select" /\ UNCHANGED i))
  BY DEF select, AcceptFails, Select, clientVars, ServerUp
<1>1. buffer' = <<>> BY <1>0 DEF TableInv, PendingOK
<1>2. \A j \in Slots : j >= 0 /\ client'[j] \in readSet' => up'[conn'[client'[j]]] # <<>>
  <2> SUFFICES ASSUME NEW j \in Slots, client[j] \in readSet' PROVE up[conn[client[j]]] # <<>>
    BY <1>0
  <2>1. Readable(client[j]) BY <1>0
  <2>2. client[j] # sockfd BY <1>0 DEF TableInv, SocketsOK
  <2> QED BY <2>1, <2>2 DEF Readable
<1>4. PendingOK' /\ i' \in Slots /\ spc' \in {"select", "read"}
  <2>1. CASE ServeFrom(client, readSet', 0)
    <3>1. ServeFrom(client', readSet', 0) BY <1>0, <2>1
    <3> QED BY <1>1, <1>2, <3>1, AfterServe
  <2>2. CASE spc' = "select" /\ UNCHANGED i
    <3>1. Len(buffer') = 0 BY <1>1, EmptySeq
    <3> QED BY <1>1, <2>2, <3>1 DEF TableInv, BaseOK, PendingOK
  <2> QED BY <1>0, <2>1, <2>2
<1>5. BaseOK'
  <2>1. readSet' \subseteq Fds BY <1>0 DEF TableInv, BaseOK
  <2> QED BY <1>0, <1>4, <2>1 DEF TableInv, BaseOK
<1>6. OwnOK' BY <1>0 DEF TableInv, OwnOK
<1>7. TableConsistent' BY <1>0 DEF TableInv, TableConsistent
<1>8. SocketsOK' BY <1>0 DEF TableInv, SocketsOK
<1> QED BY <1>4, <1>5, <1>6, <1>7, <1>8 DEF TableInv

LEMMA ReadTable ==
  ASSUME TableInv, ReadChunk
  PROVE  TableInv'
<1> DEFINE c == Current
<1>0. /\ UNCHANGED <<cpc, typed, endOfTerminal, printed, down, conn, client, allSet, readSet, backlog>>
      /\ spc = "read" /\ up[c] # <<>> /\ up' = [up EXCEPT ![c] = Tail(@)]
  BY DEF ReadChunk, clientVars
<1>1. /\ ServerUp /\ i \in Slots /\ client[i] \in readSet /\ c \in Clients
  BY <1>0, CurrentFacts
<1>2. /\ up' \in [Clients -> Seq(Items)] /\ OwnOK' /\ Head(up[c]) \in Items /\ Head(up[c]).of = c
      /\ \A d \in Clients : d # c => up'[d] = up[d]
  <2> HIDE DEF c
  <2> QED BY <1>0, <1>1, OwnTail
<1>3. ASSUME NEW j \in Slots, j > i, client[j] \in readSet
      PROVE  up'[conn[client[j]]] # <<>>
  <2>1. client[j] # -1 BY <1>3, Sizes DEF TableInv, BaseOK
  <2>2. j # i BY <1>1, <1>3, Sizes
  <2>3. conn[client[j]] # c /\ conn[client[j]] \in Clients BY <1>0, <2>1, <2>2, OtherEntry
  <2>4. up[conn[client[j]]] # <<>> BY <1>0, <1>3 DEF TableInv, PendingOK
  <2> QED BY <1>2, <2>3, <2>4
<1>4. /\ PendingOK' /\ i' \in Slots /\ spc' \in {"select", "read", "write"} /\ buffer' \in Seq(Items)
  <2>1. CASE Head(up[c]).n > 0
    <3>1. buffer' = <<Head(up[c])>> /\ spc' = "write" /\ i' = i BY <2>1 DEF ReadChunk
    <3>2. buffer' \in Seq(Items) /\ Len(buffer') = 1 /\ buffer'[1] = Head(up[c]) /\ buffer' # <<>>
      BY <1>2, <3>1
    <3>3. Current' = c BY <1>0, <3>1 DEF Current
    <3>4. PendingOK' BY <1>0, <1>1, <1>2, <1>3, <2>1, <3>1, <3>2, <3>3 DEF PendingOK
    <3> QED BY <1>1, <3>1, <3>2, <3>4
  <2>2. CASE ~ (Head(up[c]).n > 0)
    <3>1. ServeFrom(client, readSet, i + 1) /\ UNCHANGED buffer BY <2>2 DEF ReadChunk
    <3>2. buffer' = <<>> BY <1>0, <3>1 DEF TableInv, PendingOK
    <3>3. i + 1 \in Nat /\ \A j \in Slots : j >= i + 1 => j > i BY <1>1, Sizes
    <3>4. \A j \in Slots : j >= i + 1 /\ client'[j] \in readSet' => up'[conn'[client'[j]]] # <<>>
      BY <1>0, <1>3, <3>3
    <3>5. ServeFrom(client', readSet', i + 1) BY <1>0, <3>1
    <3>6. PendingOK' /\ i' \in Slots /\ spc' \in {"select", "read"}
      BY <3>2, <3>3, <3>4, <3>5, AfterServe
    <3> QED BY <3>2, <3>6, EmptySeq
  <2> QED BY <2>1, <2>2
<1>5. BaseOK' BY <1>0, <1>2, <1>4 DEF TableInv, BaseOK
<1>6. TableConsistent' BY <1>0, <1>1 DEF TableInv, TableConsistent
<1>7. SocketsOK' BY <1>0, <1>1 DEF TableInv, SocketsOK
<1> QED BY <1>2, <1>4, <1>5, <1>6, <1>7 DEF TableInv

LEMMA WriteTable ==
  ASSUME TableInv, WriteChunk \/ WriteLost
  PROVE  TableInv'
<1> DEFINE c == Current
<1>0. /\ UNCHANGED <<cpc, typed, endOfTerminal, printed, up, conn, client, allSet, readSet, backlog>>
      /\ spc = "write" /\ buffer' = <<>> /\ ServeFrom(client, readSet, i + 1)
      /\ down' = down \/ down' = [down EXCEPT ![c] = @ \o buffer]
  BY DEF WriteChunk, WriteLost, clientVars
<1>1. ServerUp /\ i \in Slots /\ c \in Clients
  BY <1>0, CurrentFacts
<1>2. down' \in [Clients -> Seq(Items)]
  <2>1. down[c] \o buffer \in Seq(Items) BY <1>1 DEF TableInv, BaseOK
  <2> HIDE DEF c
  <2> QED BY <1>0, <2>1 DEF TableInv, BaseOK
<1>3. i + 1 \in Nat /\ \A j \in Slots : j >= i + 1 => j > i BY <1>1, Sizes
<1>4. \A j \in Slots : j >= i + 1 /\ client'[j] \in readSet' => up'[conn'[client'[j]]] # <<>>
  BY <1>0, <1>3 DEF TableInv, PendingOK
<1>5. ServeFrom(client', readSet', i + 1) BY <1>0
<1>6. PendingOK' /\ i' \in Slots /\ spc' \in {"select", "read"}
  BY <1>0, <1>3, <1>4, <1>5, AfterServe
<1>7. BaseOK' BY <1>0, <1>2, <1>6, EmptySeq DEF TableInv, BaseOK
<1>8. OwnOK' BY <1>0 DEF TableInv, OwnOK
<1>9. TableConsistent' BY <1>0, <1>1 DEF TableInv, TableConsistent
<1>10. SocketsOK' BY <1>0, <1>1 DEF TableInv, SocketsOK
<1> QED BY <1>6, <1>7, <1>8, <1>9, <1>10 DEF TableInv

LEMMA CloseTable ==
  ASSUME TableInv, CloseConnection
  PROVE  TableInv'
<1> DEFINE c == Current
           fd == client[i]
<1>0. /\ UNCHANGED <<cpc, typed, endOfTerminal, printed, readSet, backlog, buffer>>
      /\ spc = "read" /\ up[c] # <<>> /\ up' = [up EXCEPT ![c] = Tail(@)]
      /\ down' = [down EXCEPT ![c] = IF Ended(c) THEN @ ELSE Append(@, EOF(c))]
      /\ conn' = [conn EXCEPT ![fd] = None] /\ allSet' = allSet \ {fd}
      /\ client' = [client EXCEPT ![i] = -1] /\ ServeFrom(client', readSet', i + 1)
  BY DEF CloseConnection, clientVars
<1>1. /\ ServerUp /\ i \in Slots /\ fd \in Fds /\ fd # -1 /\ fd # sockfd /\ c \in Clients
      /\ c = conn[fd]
  BY <1>0, CurrentFacts DEF Current
<1> HIDE DEF c, fd
<1>2. /\ up' \in [Clients -> Seq(Items)] /\ OwnOK' /\ \A d \in Clients : d # c => up'[d] = up[d]
  BY <1>0, <1>1, OwnTail
<1>3. /\ client' \in [Slots -> Fds \cup {-1}] /\ client'[i] = -1
      /\ \A j \in Slots : j # i => client'[j] = client[j]
  BY <1>0, <1>1 DEF TableInv, BaseOK
<1>4. /\ conn' \in [Fds -> Clients \cup {None}] /\ conn'[fd] = None
      /\ \A f \in Fds : f # fd => conn'[f] = conn[f]
  BY <1>0, <1>1 DEF TableInv, BaseOK
<1>5. \A j \in Slots : j # i /\ client[j] # -1 =>
        client[j] \in Fds /\ client[j] # fd /\ conn[client[j]] # c /\ conn[client[j]] \in Clients
  <2> SUFFICES ASSUME NEW j \in Slots, j # i, client[j] # -1
               PROVE  client[j] \in Fds /\ client[j] # fd /\ conn[client[j]] # c
                      /\ conn[client[j]] \in Clients
    OBVIOUS
  <2>1. client[j] \in Fds BY <1>1, EntryFacts
  <2> QED BY <1>0, <2>1, OtherEntry DEF c, fd
<1>6. i + 1 \in Nat /\ \A j \in Slots : j >= i + 1 => j > i /\ j # i BY <1>1, Sizes
<1>7. \A j \in Slots : j >= i + 1 /\ client'[j] \in readSet' => up'[conn'[client'[j]]] # <<>>
  <2> SUFFICES ASSUME NEW j \in Slots, j >= i + 1, client'[j] \in readSet'
               PROVE  up'[conn'[client'[j]]] # <<>>
    OBVIOUS
  <2>1. j # i /\ j > i /\ client'[j] = client[j] /\ client[j] \in readSet BY <1>0, <1>3, <1>6
  <2>2. client[j] # -1 BY <2>1, Sizes DEF TableInv, BaseOK
  <2>3. conn'[client'[j]] = conn[client[j]] /\ conn[client[j]] # c /\ conn[client[j]] \in Clients
    BY <1>4, <1>5, <2>1, <2>2
  <2>4. up[conn[client[j]]] # <<>> BY <1>0, <2>1 DEF TableInv, PendingOK
  <2> QED BY <1>2, <2>3, <2>4
<1>8. buffer' = <<>> BY <1>0 DEF TableInv, PendingOK
<1>9. PendingOK' /\ i' \in Slots /\ spc' \in {"select", "read"}
  BY <1>0, <1>6, <1>7, <1>8, AfterServe
<1>10. down' \in [Clients -> Seq(Items)]
  <2>1. Append(down[c], EOF(c)) \in Seq(Items) /\ down[c] \in Seq(Items)
    BY <1>1, EndFacts DEF TableInv, BaseOK
  <2> QED BY <1>0, <2>1 DEF TableInv, BaseOK
<1>11. BaseOK' BY <1>0, <1>2, <1>3, <1>4, <1>8, <1>9, <1>10, EmptySeq DEF TableInv, BaseOK
<1>12. TableConsistent'
  <2>1. allSet' = {sockfd} \cup ({client'[s] : s \in Slots} \ {-1})
    <3>1. allSet = {sockfd} \cup ({client[s] : s \in Slots} \ {-1})
      BY <1>1 DEF TableInv, TableConsistent
    <3>2. \A x \in allSet' : x = sockfd \/ (x # -1 /\ \E s \in Slots : x = client'[s])
      BY <1>0, <1>3, <3>1 DEF fd
    <3>3. \A s \in Slots : client'[s] # -1 => client'[s] \in allSet'
      BY <1>0, <1>3, <1>5, <3>1
    <3>4. sockfd \in allSet' BY <1>0, <1>1, <3>1
    <3> QED BY <3>2, <3>3, <3>4
  <2>2. \A s, t \in Slots : client'[s] = client'[t] /\ client'[s] # -1 => s = t
    <3>1. \A s, t \in Slots : client[s] = client[t] /\ client[s] # -1 => s = t
      BY <1>1 DEF TableInv, TableConsistent
    <3> QED BY <1>3, <3>1
  <2>3. \A f \in allSet' \ {sockfd} : conn'[f] # None
    <3>1. \A f \in allSet \ {sockfd} : conn[f] # None BY <1>1 DEF TableInv, TableConsistent
    <3>2. \A f \in allSet' : f \in allSet /\ f \in Fds /\ f # fd BY <1>0 DEF TableInv, BaseOK
    <3> QED BY <1>4, <3>1, <3>2
  <2> QED BY <2>1, <2>2, <2>3 DEF TableConsistent
<1>13. SocketsOK'
  <2>1. conn'[sockfd] = None /\ \A s \in Slots : client'[s] # sockfd
    <3>1. conn[sockfd] = None /\ \A s \in Slots : client[s] # sockfd
      BY <1>1 DEF TableInv, SocketsOK
    <3>2. sockfd # -1 BY DEF sockfd
    <3> QED BY <1>1, <1>3, <1>4, <3>1, <3>2, Sizes
  <2>2. \A f, g \in Fds : conn'[f] = conn'[g] /\ conn'[f] # None => f = g
    BY <1>1, <1>4 DEF TableInv, SocketsOK
  <2>3. \A f \in Fds : conn'[f] # None => cpc'[conn'[f]] # "off"
    BY <1>0, <1>1, <1>4 DEF TableInv, SocketsOK
  <2>4. \A k \in 1 .. Len(backlog) : backlog[k] \in Clients /\ backlog[k] # None
    BY ClientsAssumption DEF TableInv, BaseOK
  <2>5. \A k \in 1 .. Len(backlog) : \A f \in Fds : conn'[f] # backlog[k]
    BY <1>1, <1>4, <2>4 DEF TableInv, SocketsOK
  <2> QED BY <1>0, <1>1, <2>1, <2>2, <2>3, <2>5 DEF TableInv, SocketsOK
<1> QED BY <1>2, <1>9, <1>11, <1>12, <1>13 DEF TableInv

LEMMA AcceptTable ==
  ASSUME TableInv, accept
  PROVE  TableInv'
<1> DEFINE F == {f \in Fds \ {sockfd} : conn[f] = None}
           fd == Min(F)
           free == {s \in Slots : client[s] = -1}
           c == Head(backlog)
<1>0. /\ UNCHANGED <<cpc, typed, endOfTerminal, printed, up, down, buffer>>
      /\ spc = "select" /\ readSet' = {f \in allSet : Readable(f)} /\ ServerUp
      /\ backlog # <<>> /\ backlog' = Tail(backlog) /\ conn' = [conn EXCEPT ![fd] = c]
      /\ \/ free = {} /\ spc' = "select" /\ UNCHANGED <<client, allSet, i>>
         \/ /\ free # {} /\ client' = [client EXCEPT ![Min(free)] = fd]
            /\ allSet' = allSet \cup {fd} /\ ServeFrom(client', readSet', 0)
  BY DEF accept, Select, clientVars, ServerUp
<1>1. fd \in Fds /\ fd # sockfd /\ conn[fd] = None
  <2>1. F # {} BY <1>0, FreeFd DEF TableInv
  <2>2. F \subseteq Nat BY Sizes
  <2> HIDE DEF F
  <2>3. fd \in F BY <2>1, <2>2, MinFact
  <2> QED BY <2>3 DEF F
<1> HIDE DEF fd
<1>2. fd \notin allSet BY <1>0, <1>1 DEF TableInv, TableConsistent
<1>3. /\ c \in Clients /\ c # None /\ c = backlog[1] /\ 1 \in 1 .. Len(backlog)
      /\ cpc[c] # "off" /\ \A f \in Fds : conn[f] # c
  <2>1. c \in Clients /\ c = backlog[1] /\ 1 \in 1 .. Len(backlog)
    BY <1>0 DEF TableInv, BaseOK
  <2> QED BY <1>0, <2>1, ClientsAssumption DEF TableInv, SocketsOK
<1>4. /\ backlog' \in Seq(Clients) /\ Len(backlog') = Len(backlog) - 1 /\ Len(backlog) \in Nat
      /\ \A k \in 1 .. Len(backlog') : k + 1 \in 1 .. Len(backlog) /\ backlog'[k] = backlog[k + 1]
  BY <1>0 DEF TableInv, BaseOK
<1> HIDE DEF c
<1>5. /\ conn' \in [Fds -> Clients \cup {None}] /\ conn'[fd] = c
      /\ \A f \in Fds : f # fd => conn'[f] = conn[f]
  BY <1>0, <1>1, <1>3 DEF TableInv, BaseOK
<1>6. OwnOK' BY <1>0 DEF TableInv, OwnOK
<1>7. buffer' = <<>> BY <1>0 DEF TableInv, PendingOK
<1>8. readSet' \subseteq Fds /\ \A f \in readSet' : f \in allSet /\ f # fd /\ Readable(f)
  BY <1>0, <1>2 DEF TableInv, BaseOK
\* What holds of the descriptors does not depend on the table.
<1>9. SUFFICES /\ PendingOK' /\ TableConsistent' /\ spc' \in {"select", "read"} /\ i' \in Slots
               /\ client' \in [Slots -> Fds \cup {-1}] /\ allSet' \subseteq Fds
               /\ \A s \in Slots : client'[s] # sockfd
  <2>1. BaseOK' BY <1>0, <1>4, <1>5, <1>7, <1>8, <1>9, EmptySeq DEF TableInv, BaseOK
  <2>2. SocketsOK'
    <3>1. conn'[sockfd] = None BY <1>0, <1>1, <1>5, Sizes DEF TableInv, SocketsOK
    <3>2. \A f, g \in Fds : conn'[f] = conn'[g] /\ conn'[f] # None => f = g
      <4>1. \A f, g \in Fds : conn[f] = conn[g] /\ conn[f] # None => f = g
        BY <1>0 DEF TableInv, SocketsOK
      <4> QED BY <1>3, <1>5, <4>1
    <3>3. \A f \in Fds : conn'[f] # None => cpc'[conn'[f]] # "off"
      BY <1>0, <1>3, <1>5 DEF TableInv, SocketsOK
    <3>4. \A j, k \in 1 .. Len(backlog) : backlog[j] = backlog[k] => j = k
      BY <1>0 DEF TableInv, SocketsOK
    <3>5. \A k \in 1 .. Len(backlog) : cpc[backlog[k]] # "off" /\ \A f \in Fds : conn[f] # backlog[k]
      BY <1>0 DEF TableInv, SocketsOK
    <3>6. \A k \in 1 .. Len(backlog') : /\ cpc'[backlog'[k]] # "off"
                                        /\ \A f \in Fds : conn'[f] # backlog'[k]
      <4> SUFFICES ASSUME NEW k \in 1 .. Len(backlog')
                   PROVE  cpc'[backlog'[k]] # "off" /\ \A f \in Fds : conn'[f] # backlog'[k]
        OBVIOUS
      <4>1. k + 1 \in 1 .. Len(backlog) /\ backlog'[k] = backlog[k + 1] /\ k + 1 # 1 BY <1>4
      <4>2. backlog[k + 1] # c BY <1>3, <3>4, <4>1
      <4> QED BY <1>0, <1>5, <3>5, <4>1, <4>2
    <3>7. \A j, k \in 1 .. Len(backlog') : backlog'[j] = backlog'[k] => j = k
      <4> SUFFICES ASSUME NEW j \in 1 .. Len(backlog'), NEW k \in 1 .. Len(backlog'),
                          backlog'[j] = backlog'[k]
                   PROVE  j = k
        OBVIOUS
      <4>1. j + 1 = k + 1 BY <1>4, <3>4
      <4> QED BY <4>1
    <3> QED BY <1>9, <3>1, <3>2, <3>3, <3>6, <3>7 DEF SocketsOK
  <2> QED BY <1>6, <1>9, <2>1, <2>2 DEF TableInv
<1>10. /\ allSet = {sockfd} \cup ({client[s] : s \in Slots} \ {-1}) /\ allSet \subseteq Fds
       /\ \A s, t \in Slots : client[s] = client[t] /\ client[s] # -1 => s = t
       /\ \A f \in allSet \ {sockfd} : conn[f] # None
       /\ \A s \in Slots : client[s] # sockfd
       /\ client \in [Slots -> Fds \cup {-1}]
  BY <1>0 DEF TableInv, TableConsistent, SocketsOK, BaseOK
<1>11. CASE free = {} /\ spc' = "select" /\ UNCHANGED <<client, allSet, i>>
  <2>1. PendingOK' BY <1>7, <1>11, EmptySeq DEF PendingOK
  <2>2. \A f \in allSet \ {sockfd} : conn'[f] # None BY <1>2, <1>5, <1>10
  <2>3. TableConsistent' BY <1>10, <1>11, <2>2 DEF TableConsistent
  <2> QED BY <1>10, <1>11, <2>1, <2>3 DEF TableInv, BaseOK
<1>12. CASE /\ free # {} /\ client' = [client EXCEPT ![Min(free)] = fd]
            /\ allSet' = allSet \cup {fd} /\ ServeFrom(client', readSet', 0)
  <2> DEFINE m == Min(free)
  <2>1. m \in Slots /\ client[m] = -1
    <3>1. free \subseteq Nat BY Sizes
    <3> HIDE DEF free
    <3>2. m \in free BY <1>12, <3>1, MinFact
    <3> QED BY <3>2 DEF free
  <2> HIDE DEF m
  <2>2. /\ client' \in [Slots -> Fds \cup {-1}] /\ client'[m] = fd
        /\ \A s \in Slots : s # m => client'[s] = client[s]
    BY <1>1, <1>10, <1>12, <2>1 DEF m
  <2>3. fd # -1 BY <1>1, Sizes
  <2>4. \A j \in Slots : j >= 0 /\ client'[j] \in readSet' => up'[conn'[client'[j]]] # <<>>
    <3> SUFFICES ASSUME NEW j \in Slots, client'[j] \in readSet' PROVE up'[conn'[client'[j]]] # <<>>
      OBVIOUS
    <3>1. client'[j] # fd /\ Readable(client'[j]) /\ client'[j] \in Fds BY <1>8
    <3>2. client'[j] = client[j] BY <2>2, <3>1
    <3>3. client[j] # sockfd BY <1>10
    <3>4. up[conn[client[j]]] # <<>> BY <3>1, <3>2, <3>3 DEF Readable
    <3> QED BY <1>0, <1>5, <3>1, <3>2, <3>4
  <2>5. PendingOK' /\ i' \in Slots /\ spc' \in {"select", "read"}
    BY <1>7, <1>12, <2>4, AfterServe
  <2>6. allSet' = {sockfd} \cup ({client'[s] : s \in Slots} \ {-1})
    <3>1. \A x \in allSet' : x = sockfd \/ (x # -1 /\ \E s \in Slots : x = client'[s])
      BY <1>10, <1>12, <2>1, <2>2, <2>3
    <3>2. \A s \in Slots : client'[s] # -1 => client'[s] \in allSet'
      BY <1>10, <1>12, <2>2
    <3> QED BY <1>10, <1>12, <3>1, <3>2
  <2>7. \A s, t \in Slots : client'[s] = client'[t] /\ client'[s] # -1 => s = t
    <3>1. \A s \in Slots : client[s] # fd BY <1>2, <1>10, <2>3
    <3> QED BY <1>10, <2>2, <3>1
  <2>8. \A f \in allSet' \ {sockfd} : conn'[f] # None
    BY <1>1, <1>2, <1>3, <1>5, <1>10, <1>12
  <2>9. TableConsistent' BY <2>6, <2>7, <2>8 DEF TableConsistent
  <2>10. \A s \in Slots : client'[s] # sockfd BY <1>1, <1>10, <2>2
  <2>11. allSet' \subseteq Fds BY <1>1, <1>10, <1>12
  <2> QED BY <2>2, <2>5, <2>9, <2>10, <2>11
<1> QED BY <1>0, <1>11, <1>12

LEMMA EndTable ==
  ASSUME TableInv, Sigpipe \/ KillServer
  PROVE  TableInv'
<1>0. \E how \in {"killed", "sigpipe"} : ServerEnds(how)
  BY DEF Sigpipe, KillServer
<1>1. spc' \in {"killed", "sigpipe"} /\ ~ServerUp'
  BY <1>0 DEF ServerEnds, ServerUp
<1>2. down' \in [Clients -> Seq(Items)]
  <2>1. \A c \in Clients : Hangup(c) \in Seq(Items)
    BY EndFacts DEF TableInv, BaseOK, Hangup
  <2> QED BY <1>0, <2>1, EmptySeq DEF ServerEnds
<1>3. BaseOK'
  <2>1. up' \in [Clients -> Seq(Items)] /\ backlog' \in Seq(Clients)
    BY <1>0, EmptySeq DEF ServerEnds
  <2>2. /\ conn' \in [Fds -> Clients \cup {None}] /\ client' \in [Slots -> Fds \cup {-1}]
        /\ allSet' \subseteq Fds /\ readSet' \subseteq Fds /\ i' \in Slots
    BY <1>0, Sizes DEF ServerEnds
  <2>3. UNCHANGED <<cpc, typed, endOfTerminal, printed, buffer>>
    BY <1>0 DEF ServerEnds, clientVars
  <2> QED BY <1>1, <1>2, <2>1, <2>2, <2>3 DEF TableInv, BaseOK
<1>4. OwnOK' BY <1>0, EmptySeq DEF ServerEnds, OwnOK
<1>5. PendingOK' BY <1>0, <1>1 DEF ServerEnds, TableInv, PendingOK
<1>6. TableConsistent' /\ SocketsOK' BY <1>1 DEF TableConsistent, SocketsOK
<1> QED BY <1>3, <1>4, <1>5, <1>6 DEF TableInv

LEMMA TableStep == TableInv /\ [Next]_vars => TableInv'
<1> SUFFICES ASSUME TableInv, [Next]_vars PROVE TableInv' OBVIOUS
<1>1. CASE \E c \in Clients : connect(c) \/ str_cli(c) \/ KillClient(c)
  BY <1>1, ConnectTable, ClientTable
<1>2. CASE server
  BY <1>2, SelectTable, AcceptTable, ReadTable, CloseTable, WriteTable, EndTable DEF server
<1>3. CASE KillServer BY <1>3, EndTable
<1>4. CASE AcceptFails BY <1>4, SelectTable
<1>5. CASE UNCHANGED vars
  <2>1. UNCHANGED <<tableVars, backlog, spc, buffer, cpc, typed, endOfTerminal, printed, up, down>>
    BY <1>5 DEF vars, clientVars
  <2>2. BaseOK' /\ OwnOK' BY <2>1 DEF TableInv, BaseOK, OwnOK, tableVars
  <2> QED BY <2>1, <2>2, QuietTable
<1> QED BY <1>1, <1>2, <1>3, <1>4, <1>5 DEF Next

LEMMA TableAlways == Spec => []TableInv
  BY TableInit, TableStep, PTL DEF Spec

-----------------------------------------------------------------------------
(* What follows for the server *)

\* Every variable keeps its type, whatever connections come, go and end.
THEOREM TypeCorrect == Spec => []TypeOK
<1>1. TableInv => TypeOK
  <2> SUFFICES ASSUME TableInv PROVE TypeOK OBVIOUS
  <2>1. \A c \in Clients : typed[c] \in 0 .. Input(c) BY Sizes DEF TableInv, BaseOK
  <2> QED BY <2>1 DEF TableInv, BaseOK, PendingOK, TypeOK
<1> QED BY <1>1, TableAlways, PTL

\* The loop over client[] never reaches a read that blocks, and its table, the
\* set it selects from and the open descriptors agree, for any size of the table.
THEOREM ServerNeverBlocks == Spec => []ReadNeverBlocks
<1>1. TableInv => ReadNeverBlocks
  <2> SUFFICES ASSUME TableInv, spc = "read" PROVE up[Current] # <<>>
    BY DEF TableInv, ReadNeverBlocks
  <2> QED BY CurrentFacts DEF TableInv, PendingOK, Current
<1> QED BY <1>1, TableAlways, PTL

-----------------------------------------------------------------------------
(* What the clients see: an inductive invariant over the connections *)

Live(c) == cpc[c] \in {"select", "terminal"}

\* The server has the connection: it waits in the backlog, or is on a descriptor.
Open(c) == (\E k \in 1 .. Len(backlog) : backlog[k] = c) \/ \E f \in Fds : conn[f] = c

\* Lines of c that the server has read and not written; marks of the end of input
Held(c) == IF buffer # <<>> /\ buffer[1].of = c THEN 1 ELSE 0
Shut(c) == IF endOfTerminal[c] THEN 1 ELSE 0

\* Below, p lines have been shown and n typed, u and d are the contents of the two
\* directions, h says how many lines the server holds, b which, and e how many
\* marks of the end of input have been sent.

\* The lines on their way are the last ones typed, in order: those on their way
\* back, the one the server holds, and those on their way up, with the mark last.
Flight(c, p, u, d, h, b, e, n) ==
    /\ e <= Len(u) /\ p + Len(d) + h + (Len(u) - e) = n
    /\ \A k \in 1 .. Len(d) : d[k] = Chunk(c, p + k)
    /\ h = 1 => b = Chunk(c, p + Len(d) + 1)
    /\ \A k \in 1 .. Len(u) - e : u[k] = Chunk(c, p + Len(d) + h + k)
    /\ e = 1 => u[Len(u)] = EOF(c)

\* After m more lines the client will find the end of the connection.
Ending(c, p, d, m) == /\ m < Len(d) /\ d[m + 1].n <= 0
                      /\ \A k \in 1 .. m : d[k] = Chunk(c, p + k)

\* The server has closed the connection, having written everything back.
Closing(c, p, d, n) == \E m \in Nat : Ending(c, p, d, m) /\ d[m + 1].n = 0 /\ p + m = n

\* The server has ended. If the client finds an end of file, and not an error, only
\* a line that the server held when it was killed is missing.
Dropped(c, p, d, h, b, n, how) ==
    \E m \in Nat : /\ Ending(c, p, d, m)
                   /\ d[m + 1].n = 0 => /\ p + m + h = n
                                        /\ h = 1 => how = "killed" /\ b = Chunk(c, n)

FlowOK(c) ==
    Live(c) =>
      /\ endOfTerminal[c] => typed[c] = Input(c) /\ cpc[c] = "select"
      /\ ServerUp /\ Open(c) =>
           Flight(c, Len(printed[c]), up[c], down[c], Held(c), buffer[1], Shut(c), typed[c])
      /\ ServerUp /\ ~Open(c) =>
           endOfTerminal[c] /\ Closing(c, Len(printed[c]), down[c], typed[c])
      /\ ~ServerUp =>
           Dropped(c, Len(printed[c]), down[c], Held(c), buffer[1], typed[c], spc)

\* A client that has not started has left no trace.
FreshOK(c) == cpc[c] = "off" => /\ typed[c] = 0 /\ printed[c] = <<>> /\ ~endOfTerminal[c]
                                /\ up[c] = <<>> /\ down[c] = <<>>

\* What a client has shown, and what a normal end means.
ShownOK(c) == /\ \A k \in 1 .. Len(printed[c]) : printed[c][k] = Chunk(c, k)
              /\ cpc[c] = "exit0" =>
                   \/ Len(printed[c]) = Input(c)
                   \/ /\ spc = "killed" /\ Len(printed[c]) = Input(c) - 1
                      /\ buffer # <<>> /\ buffer[1] = Chunk(c, Input(c))

ClientOK(c) == FlowOK(c) /\ FreshOK(c) /\ ShownOK(c)
FlowInv == \A c \in Clients : ClientOK(c)

-----------------------------------------------------------------------------
(* Lemmas about the contents of a connection *)

LEMMA FlightSend ==
  ASSUME NEW c \in Clients, NEW p \in Nat, NEW u \in Seq(Items), NEW d \in Seq(Items),
         NEW h \in {0, 1}, NEW b, NEW n \in Nat, Flight(c, p, u, d, h, b, 0, n)
  PROVE  /\ Flight(c, p, Append(u, Chunk(c, n + 1)), d, h, b, 0, n + 1)
         /\ Flight(c, p, Append(u, EOF(c)), d, h, b, 1, n)
<1>1. /\ Len(d) \in Nat /\ Len(u) \in Nat /\ p + Len(d) + h + Len(u) = n
      /\ \A k \in 1 .. Len(u) : u[k] = Chunk(c, p + Len(d) + h + k)
      /\ \A k \in 1 .. Len(d) : d[k] = Chunk(c, p + k)
      /\ h = 1 => b = Chunk(c, p + Len(d) + 1)
  BY DEF Flight
<1>2. ASSUME NEW x
      PROVE  /\ Len(Append(u, x)) = Len(u) + 1 /\ Append(u, x)[Len(u) + 1] = x
             /\ \A k \in 1 .. Len(u) : Append(u, x)[k] = u[k]
  OBVIOUS
<1>3. \A k \in 1 .. Len(u) + 1 : k \in 1 .. Len(u) \/ k = Len(u) + 1 BY <1>1
<1>4. Flight(c, p, Append(u, Chunk(c, n + 1)), d, h, b, 0, n + 1)
  <2> DEFINE v == Append(u, Chunk(c, n + 1))
  <2>1. /\ Len(v) = Len(u) + 1 /\ v[Len(u) + 1] = Chunk(c, n + 1)
        /\ \A k \in 1 .. Len(u) : v[k] = u[k]
    BY <1>2
  <2> HIDE DEF v
  <2>2. n + 1 = p + Len(d) + h + (Len(u) + 1)
    <3>1. h \in Nat /\ Len(d) \in Nat /\ Len(u) \in Nat /\ p + Len(d) + h + Len(u) = n
      BY <1>1
    <3> QED BY <3>1
  <2>3. \A k \in 1 .. Len(u) + 1 : v[k] = Chunk(c, p + Len(d) + h + k) BY <1>1, <1>3, <2>1, <2>2
  <2>4. Len(v) - 0 = Len(u) + 1 /\ 0 <= Len(v) BY <1>1, <2>1
  <2>5. Flight(c, p, v, d, h, b, 0, n + 1) BY <1>1, <2>2, <2>3, <2>4 DEF Flight
  <2> QED BY <2>5 DEF v
<1>5. Flight(c, p, Append(u, EOF(c)), d, h, b, 1, n)
  <2> DEFINE v == Append(u, EOF(c))
  <2>1. /\ Len(v) = Len(u) + 1 /\ v[Len(u) + 1] = EOF(c)
        /\ \A k \in 1 .. Len(u) : v[k] = u[k]
    BY <1>2
  <2> HIDE DEF v
  <2>2. Len(v) - 1 = Len(u) /\ 1 <= Len(v) BY <1>1, <2>1
  <2>3. Flight(c, p, v, d, h, b, 1, n) BY <1>1, <2>1, <2>2 DEF Flight
  <2> QED BY <2>3 DEF v
<1> QED BY <1>4, <1>5

LEMMA TailFacts ==
  ASSUME NEW S, NEW d \in Seq(S), d # <<>>
  PROVE  /\ Head(d) = d[1] /\ Head(d) \in S /\ Tail(d) \in Seq(S) /\ Len(d) \in Nat /\ Len(d) >= 1
         /\ Len(Tail(d)) = Len(d) - 1
         /\ \A k \in 1 .. Len(d) - 1 : Tail(d)[k] = d[k + 1]
  OBVIOUS

LEMMA FlightShow ==
  ASSUME NEW c \in Clients, NEW p \in Nat, NEW u \in Seq(Items), NEW d \in Seq(Items),
         NEW h \in {0, 1}, NEW b, NEW e \in {0, 1}, NEW n \in Nat,
         Flight(c, p, u, d, h, b, e, n), d # <<>>
  PROVE  Head(d) = Chunk(c, p + 1) /\ Flight(c, p + 1, u, Tail(d), h, b, e, n)
<1>1. /\ Len(d) \in Nat /\ Len(u) \in Nat /\ Len(d) >= 1 /\ Head(d) = d[1] /\ Len(Tail(d)) = Len(d) - 1
      /\ \A k \in 1 .. Len(d) - 1 : Tail(d)[k] = d[k + 1]
  BY TailFacts
<1>2. /\ e <= Len(u) /\ p + Len(d) + h + (Len(u) - e) = n
      /\ \A k \in 1 .. Len(d) : d[k] = Chunk(c, p + k)
      /\ h = 1 => b = Chunk(c, p + Len(d) + 1)
      /\ \A k \in 1 .. Len(u) - e : u[k] = Chunk(c, p + Len(d) + h + k)
      /\ e = 1 => u[Len(u)] = EOF(c)
  BY DEF Flight
<1> DEFINE t == Tail(d)
<1> HIDE DEF t
<1>3. Len(t) = Len(d) - 1 /\ p + 1 + Len(t) = p + Len(d) BY <1>1 DEF t
<1>4. \A k \in 1 .. Len(t) : t[k] = Chunk(c, p + 1 + k)
  <2> SUFFICES ASSUME NEW k \in 1 .. Len(d) - 1 PROVE t[k] = Chunk(c, p + 1 + k) BY <1>3
  <2>1. k + 1 \in 1 .. Len(d) /\ p + (k + 1) = p + 1 + k BY <1>1
  <2> QED BY <1>1, <1>2, <2>1 DEF t
<1>5. 1 \in 1 .. Len(d) BY <1>1
<1>6. Flight(c, p + 1, u, t, h, b, e, n) BY <1>2, <1>3, <1>4 DEF Flight
<1> QED BY <1>1, <1>2, <1>5, <1>6 DEF t

\* What the server reads from a client that is alive is the next line, or the end.
LEMMA FlightRead ==
  ASSUME NEW c \in Clients, NEW p \in Nat, NEW u \in Seq(Items), NEW d \in Seq(Items),
         NEW b, NEW e \in {0, 1}, NEW n \in Nat, Flight(c, p, u, d, 0, b, e, n), u # <<>>
  PROVE  /\ Head(u).n >= 0
         /\ Head(u).n > 0 => Flight(c, p, Tail(u), d, 1, Head(u), e, n)
         /\ Head(u).n = 0 => e = 1 /\ p + Len(d) = n
<1>1. /\ Len(d) \in Nat /\ Len(u) \in Nat /\ Len(u) >= 1 /\ Head(u) = u[1] /\ Len(Tail(u)) = Len(u) - 1
      /\ \A k \in 1 .. Len(u) - 1 : Tail(u)[k] = u[k + 1]
  BY TailFacts
<1>2. /\ e <= Len(u) /\ p + Len(d) + (Len(u) - e) = n
      /\ \A k \in 1 .. Len(d) : d[k] = Chunk(c, p + k)
      /\ \A k \in 1 .. Len(u) - e : u[k] = Chunk(c, p + Len(d) + k)
      /\ e = 1 => u[Len(u)] = EOF(c)
  <2>1. p + Len(d) + 0 = p + Len(d) BY <1>1
  <2> QED BY <2>1 DEF Flight
<1>3. CASE Len(u) - e >= 1
  <2>1. 1 \in 1 .. Len(u) - e BY <1>1, <1>3
  <2>2. Head(u) = Chunk(c, p + Len(d) + 1) BY <1>1, <1>2, <2>1
  <2>3. p + Len(d) + 1 \in Int /\ p + Len(d) + 1 > 0 BY <1>1
  <2>4. Head(u).n > 0 BY <2>2, <2>3, ChunkFacts
  <2> DEFINE v == Tail(u)
             x == Head(u)
  <2> HIDE DEF v, x
  <2>5. Len(v) = Len(u) - 1 /\ e <= Len(v) /\ p + Len(d) + 1 + (Len(v) - e) = n
    BY <1>1, <1>2, <1>3 DEF v
  <2>6. \A k \in 1 .. Len(v) - e : v[k] = Chunk(c, p + Len(d) + 1 + k)
    <3> SUFFICES ASSUME NEW k \in 1 .. Len(u) - 1 - e PROVE v[k] = Chunk(c, p + Len(d) + 1 + k)
      BY <2>5
    <3>1. k \in 1 .. Len(u) - 1 /\ k + 1 \in 1 .. Len(u) - e /\ p + Len(d) + (k + 1) = p + Len(d) + 1 + k
      BY <1>1
    <3> QED BY <1>1, <1>2, <3>1 DEF v
  <2>7. e = 1 => v[Len(v)] = EOF(c)
    <3> SUFFICES ASSUME e = 1 PROVE v[Len(v)] = EOF(c) OBVIOUS
    <3>1. Len(v) \in 1 .. Len(u) - 1 /\ Len(v) + 1 = Len(u) BY <1>1, <1>3, <2>5
    <3> QED BY <1>1, <1>2, <3>1 DEF v
  <2>8. Flight(c, p, v, d, 1, x, e, n) BY <1>2, <2>2, <2>5, <2>6, <2>7 DEF Flight, x
  <2>9. Head(u).n >= 0 /\ Head(u).n # 0 BY <2>2, <2>3, ChunkFacts
  <2> QED BY <2>4, <2>8, <2>9 DEF v, x
<1>4. CASE ~ (Len(u) - e >= 1)
  <2>1. e = 1 /\ Len(u) = 1 BY <1>1, <1>2, <1>4
  <2>2. Head(u) = EOF(c) BY <1>1, <1>2, <2>1
  <2>3. Head(u).n = 0 BY <2>2, EndFacts
  <2>4. p + Len(d) = n BY <1>1, <1>2, <2>1
  <2> QED BY <2>1, <2>3, <2>4
<1> QED BY <1>3, <1>4

LEMMA FlightWrite ==
  ASSUME NEW c \in Clients, NEW p \in Nat, NEW u \in Seq(Items), NEW d \in Seq(Items),
         NEW b \in Items, NEW x, NEW e \in {0, 1}, NEW n \in Nat, Flight(c, p, u, d, 1, b, e, n)
  PROVE  Flight(c, p, u, Append(d, b), 0, x, e, n)
<1>1. Len(d) \in Nat /\ Len(u) \in Nat OBVIOUS
<1>2. /\ e <= Len(u) /\ p + Len(d) + 1 + (Len(u) - e) = n
      /\ \A k \in 1 .. Len(d) : d[k] = Chunk(c, p + k)
      /\ b = Chunk(c, p + Len(d) + 1)
      /\ \A k \in 1 .. Len(u) - e : u[k] = Chunk(c, p + Len(d) + 1 + k)
      /\ e = 1 => u[Len(u)] = EOF(c)
  BY DEF Flight
<1> DEFINE v == Append(d, b)
<1>3. Len(v) = Len(d) + 1 /\ v[Len(d) + 1] = b /\ \A k \in 1 .. Len(d) : v[k] = d[k] OBVIOUS
<1> HIDE DEF v
<1>4. p + Len(v) = p + Len(d) + 1 /\ p + Len(v) + 0 = p + Len(d) + 1 /\ p + (Len(d) + 1) = p + Len(d) + 1
  BY <1>1, <1>3
<1>5. \A k \in 1 .. Len(v) : v[k] = Chunk(c, p + k)
  <2>1. \A k \in 1 .. Len(v) : k \in 1 .. Len(d) \/ k = Len(d) + 1 BY <1>1, <1>3
  <2> QED BY <1>2, <1>3, <1>4, <2>1
<1>6. p + Len(v) + 0 + (Len(u) - e) = n /\ 0 # 1
  <2>1. p + Len(d) + 1 + (Len(u) - e) = n BY <1>2
  <2> QED BY <1>4, <2>1
<1>7. \A k \in 1 .. Len(u) - e : u[k] = Chunk(c, p + Len(v) + 0 + k) BY <1>2, <1>4
<1>8. Flight(c, p, u, v, 0, x, e, n) BY <1>2, <1>5, <1>6, <1>7 DEF Flight
<1> QED BY <1>8 DEF v

\* An end of the connection after what is on its way back
LEMMA FlightEnds ==
  ASSUME NEW c \in Clients, NEW p \in Nat, NEW d \in Seq(Items), NEW x \in Items, x.n <= 0,
         \A k \in 1 .. Len(d) : d[k] = Chunk(c, p + k)
  PROVE  Ending(c, p, Append(d, x), Len(d)) /\ Append(d, x)[Len(d) + 1] = x /\ Len(d) \in Nat
  BY DEF Ending

LEMMA EndingStays ==
  ASSUME NEW c \in Clients, NEW p \in Nat, NEW d \in Seq(Items), NEW x \in Items, NEW m \in Nat,
         Ending(c, p, d, m)
  PROVE  Ending(c, p, Append(d, x), m) /\ Append(d, x)[m + 1] = d[m + 1]
<1>1. m < Len(d) /\ Len(d) \in Nat /\ m + 1 \in 1 .. Len(d) BY DEF Ending
<1>2. /\ Len(Append(d, x)) = Len(d) + 1
      /\ \A k \in 1 .. Len(d) : Append(d, x)[k] = d[k]
  OBVIOUS
<1>3. m < Len(d) + 1 /\ \A k \in 1 .. m : k \in 1 .. Len(d) BY <1>1
<1> QED BY <1>1, <1>2, <1>3 DEF Ending

LEMMA EndingShow ==
  ASSUME NEW c \in Clients, NEW p \in Nat, NEW d \in Seq(Items), NEW m \in Nat,
         Ending(c, p, d, m), d # <<>>, Head(d).n > 0
  PROVE  /\ Head(d) = Chunk(c, p + 1) /\ m - 1 \in Nat
         /\ Ending(c, p + 1, Tail(d), m - 1) /\ Tail(d)[(m - 1) + 1] = d[m + 1]
<1>1. /\ Len(d) \in Nat /\ Len(d) >= 1 /\ Head(d) = d[1] /\ Len(Tail(d)) = Len(d) - 1
      /\ \A k \in 1 .. Len(d) - 1 : Tail(d)[k] = d[k + 1]
  BY TailFacts
<1>2. m < Len(d) /\ d[m + 1].n <= 0 /\ \A k \in 1 .. m : d[k] = Chunk(c, p + k) BY DEF Ending
<1>3. m # 0
  <2> SUFFICES ASSUME m = 0 PROVE FALSE OBVIOUS
  <2>1. d[1].n <= 0 /\ d[1].n > 0 /\ d[1] \in Items BY <1>1, <1>2
  <2>2. d[1].n \in Int BY <2>1 DEF Items
  <2> QED BY <2>1, <2>2
<1>4. m - 1 \in Nat /\ 1 \in 1 .. m /\ m \in 1 .. Len(d) - 1 /\ (m - 1) + 1 = m BY <1>1, <1>2, <1>3
<1>5. Head(d) = Chunk(c, p + 1) BY <1>1, <1>2, <1>4
<1>6. Tail(d)[m] = d[m + 1] BY <1>1, <1>4
<1>7. \A k \in 1 .. m - 1 : Tail(d)[k] = Chunk(c, p + 1 + k)
  <2> SUFFICES ASSUME NEW k \in 1 .. m - 1 PROVE Tail(d)[k] = Chunk(c, p + 1 + k) OBVIOUS
  <2>1. k \in 1 .. Len(d) - 1 /\ k + 1 \in 1 .. m /\ p + (k + 1) = p + 1 + k BY <1>1, <1>4
  <2> QED BY <1>1, <1>2, <2>1
<1>8. m - 1 < Len(Tail(d)) BY <1>1, <1>2
<1> QED BY <1>2, <1>4, <1>5, <1>6, <1>7, <1>8 DEF Ending

-----------------------------------------------------------------------------
(* The connections under the clients' steps *)

LEMMA HeldFacts ==
  ASSUME TableInv, NEW c \in Clients
  PROVE  /\ Held(c) \in {0, 1} /\ Shut(c) \in {0, 1}
         /\ ServerUp /\ Held(c) = 1 => spc = "write" /\ c = Current
         /\ spc \in {"select", "read"} => Held(c) = 0
  BY DEF TableInv, BaseOK, PendingOK, Held, Shut, ServerUp

LEMMA CurrentOpen ==
  ASSUME TableInv, spc \in {"read", "write"}
  PROVE  Open(Current)
  BY CurrentFacts DEF Open, Current

LEMMA TypeFacts ==
  ASSUME TableInv, NEW c \in Clients
  PROVE  /\ printed[c] \in Seq(Items) /\ Len(printed[c]) \in Nat /\ up[c] \in Seq(Items)
         /\ down[c] \in Seq(Items) /\ typed[c] \in Nat /\ Input(c) \in Nat /\ typed[c] <= Input(c)
         /\ endOfTerminal[c] \in BOOLEAN
  BY Sizes DEF TableInv, BaseOK

\* A step that concerns others
LEMMA SameClient ==
  ASSUME NEW d \in Clients, ClientOK(d),
         cpc'[d] = cpc[d], typed'[d] = typed[d], endOfTerminal'[d] = endOfTerminal[d],
         printed'[d] = printed[d], up'[d] = up[d], down'[d] = down[d], Open(d)' <=> Open(d),
         \/ UNCHANGED <<spc, buffer>>
         \/ ServerUp /\ ServerUp' /\ Held(d) = 0 /\ Held(d)' = 0
  PROVE  ClientOK(d)'
<1>0. Live(d)' <=> Live(d) BY DEF Live
<1>1. Shut(d)' = Shut(d) BY DEF Shut
<1>2. CASE UNCHANGED <<spc, buffer>>
  <2>1. Held(d)' = Held(d) BY <1>2 DEF Held
  <2>2. ServerUp' <=> ServerUp BY <1>2 DEF ServerUp
  <2>3. FlowOK(d)' BY <1>0, <1>1, <1>2, <2>1, <2>2 DEF ClientOK, FlowOK
  <2>4. FreshOK(d)' /\ ShownOK(d)' BY <1>2 DEF ClientOK, FreshOK, ShownOK
  <2> QED BY <2>3, <2>4 DEF ClientOK
<1>3. CASE ServerUp /\ ServerUp' /\ Held(d) = 0 /\ Held(d)' = 0
  <2>1. ASSUME NEW p, NEW u, NEW v, NEW e, NEW n, NEW b, NEW x, Flight(d, p, u, v, 0, b, e, n)
        PROVE  Flight(d, p, u, v, 0, x, e, n)
    BY <2>1 DEF Flight
  <2>2. FlowOK(d)'
    <3> SUFFICES ASSUME Live(d)'
                 PROVE  /\ endOfTerminal'[d] => typed'[d] = Input(d) /\ cpc'[d] = "select"
                        /\ Open(d)' => Flight(d, Len(printed'[d]), up'[d], down'[d], 0, buffer'[1],
                                              Shut(d)', typed'[d])
                        /\ ~Open(d)' => endOfTerminal'[d]
                                        /\ Closing(d, Len(printed'[d]), down'[d], typed'[d])
      BY <1>3 DEF FlowOK
    <3>1. /\ endOfTerminal[d] => typed[d] = Input(d) /\ cpc[d] = "select"
          /\ Open(d) => Flight(d, Len(printed[d]), up[d], down[d], 0, buffer[1], Shut(d), typed[d])
          /\ ~Open(d) => endOfTerminal[d] /\ Closing(d, Len(printed[d]), down[d], typed[d])
      BY <1>0, <1>3 DEF ClientOK, FlowOK
    <3>2. Open(d) => Flight(d, Len(printed[d]), up[d], down[d], 0, buffer'[1], Shut(d), typed[d])
      BY <2>1, <3>1
    <3> QED BY <1>1, <3>1, <3>2
  <2>3. FreshOK(d)' BY DEF ClientOK, FreshOK
  <2>4. ShownOK(d)' BY <1>3 DEF ClientOK, ShownOK, ServerUp
  <2> QED BY <2>2, <2>3, <2>4 DEF ClientOK
<1> QED BY <1>2, <1>3

LEMMA ConnectFlow ==
  ASSUME TableInv, FlowInv, NEW c \in Clients, connect(c)
  PROVE  FlowInv'
<1>0. /\ UNCHANGED <<conn, spc, buffer, up, down, typed, printed, endOfTerminal>>
      /\ ServerUp /\ cpc[c] = "off" /\ cpc'[c] = "select"
      /\ \A d \in Clients : d # c => cpc'[d] = cpc[d]
      /\ backlog' = Append(backlog, c) /\ backlog \in Seq(Clients)
  BY DEF connect, tableVars, TableInv, BaseOK
<1>1. /\ Len(backlog') = Len(backlog) + 1 /\ Len(backlog) \in Nat
      /\ backlog'[Len(backlog) + 1] = c /\ \A k \in 1 .. Len(backlog) : backlog'[k] = backlog[k]
  BY <1>0
<1>2. SUFFICES ASSUME NEW d \in Clients PROVE ClientOK(d)' BY DEF FlowInv
<1>3. CASE d # c
  <2>1. (\E k \in 1 .. Len(backlog') : backlog'[k] = d) <=> \E k \in 1 .. Len(backlog) : backlog[k] = d
    <3>1. \A k \in 1 .. Len(backlog') : k \in 1 .. Len(backlog) \/ k = Len(backlog) + 1 BY <1>1
    <3>2. \A k \in 1 .. Len(backlog) : k \in 1 .. Len(backlog') BY <1>1
    <3> QED BY <1>1, <1>3, <3>1, <3>2
  <2>2. Open(d)' <=> Open(d) BY <1>0, <2>1 DEF Open
  <2>3. cpc'[d] = cpc[d] BY <1>0, <1>3
  <2>4. ClientOK(d) BY DEF FlowInv
  <2> QED BY <1>0, <2>2, <2>3, <2>4, SameClient
<1>4. CASE d = c
  <2>1. cpc'[c] = "select" BY <1>0
  <2>2. /\ typed[c] = 0 /\ printed[c] = <<>> /\ ~endOfTerminal[c] /\ up[c] = <<>> /\ down[c] = <<>>
    BY <1>0 DEF FlowInv, ClientOK, FreshOK
  <2>3. Open(c)'
    <3>1. Len(backlog) + 1 \in 1 .. Len(backlog') BY <1>1
    <3> QED BY <1>1, <3>1 DEF Open
  <2>4. Held(c) = 0
    <3>1. spc \in {"read", "write"} => cpc[Current] # "off" BY CurrentFacts
    <3> QED BY <1>0, <3>1, HeldFacts
  <2>5. Held(c)' = 0 /\ Shut(c)' = 0 /\ ServerUp' BY <1>0, <2>2, <2>4 DEF Held, Shut, ServerUp
  <2>6. Flight(c, 0, <<>>, <<>>, 0, buffer'[1], 0, 0)
    <3>1. Len(<<>>) = 0 BY EmptySeq
    <3>2. 0 + 0 + 0 + (0 - 0) = 0 /\ 0 # 1 /\ 1 .. 0 = {} /\ 1 .. 0 - 0 = {} /\ 0 <= 0 OBVIOUS
    <3> QED BY <3>1, <3>2 DEF Flight
  <2>7. Len(printed'[c]) = 0 /\ printed'[c] = <<>> BY <1>0, <2>2, EmptySeq
  <2>8. FlowOK(c)'
    BY <1>0, <2>1, <2>2, <2>3, <2>5, <2>6, <2>7 DEF FlowOK
  <2>9. FreshOK(c)' /\ ShownOK(c)' BY <2>1, <2>7 DEF FreshOK, ShownOK
  <2> QED BY <1>4, <2>8, <2>9 DEF ClientOK
<1> QED BY <1>3, <1>4

\* What a step of client c leaves alone
LEMMA OwnStep ==
  ASSUME TableInv, NEW c \in Clients, str_cli(c) \/ KillClient(c)
  PROVE  /\ UNCHANGED <<conn, backlog, spc, buffer>>
         /\ \A d \in Clients \ {c} :
              /\ cpc'[d] = cpc[d] /\ typed'[d] = typed[d] /\ endOfTerminal'[d] = endOfTerminal[d]
              /\ printed'[d] = printed[d] /\ up'[d] = up[d] /\ down'[d] = down[d]
         /\ \A d \in Clients : (Open(d)' <=> Open(d)) /\ Held(d)' = Held(d)
         /\ ServerUp' <=> ServerUp
<1>1. UNCHANGED <<conn, backlog, spc, buffer>>
  BY DEF str_cli, TerminalReady, ShowEcho, ServerClosed, SendLine, SendFails, EndOfInput,
         KillClient, ClientGoto, tableVars
<1>2. ASSUME NEW d \in Clients \ {c} PROVE cpc'[d] = cpc[d]
  BY DEF str_cli, TerminalReady, ShowEcho, ServerClosed, SendLine, SendFails, EndOfInput,
         KillClient, ClientGoto, TableInv, BaseOK
<1>3. ASSUME NEW d \in Clients \ {c}
      PROVE  typed'[d] = typed[d] /\ endOfTerminal'[d] = endOfTerminal[d] /\ printed'[d] = printed[d]
  BY DEF str_cli, TerminalReady, ShowEcho, ServerClosed, SendLine, SendFails, EndOfInput,
         KillClient, TableInv, BaseOK
<1>4. ASSUME NEW d \in Clients \ {c} PROVE up'[d] = up[d] /\ down'[d] = down[d]
  BY DEF str_cli, TerminalReady, ShowEcho, ServerClosed, SendLine, SendFails, EndOfInput,
         KillClient, TableInv, BaseOK
<1>5. \A d \in Clients : (Open(d)' <=> Open(d)) /\ Held(d)' = Held(d) BY <1>1 DEF Open, Held
<1>6. ServerUp' <=> ServerUp BY <1>1 DEF ServerUp
<1> QED BY <1>1, <1>2, <1>3, <1>4, <1>5, <1>6

\* The two sides of FlowOK, for use in the steps below
LEMMA LiveFacts ==
  ASSUME FlowInv, NEW c \in Clients, Live(c)
  PROVE  /\ endOfTerminal[c] => typed[c] = Input(c) /\ cpc[c] = "select"
         /\ ServerUp /\ Open(c) =>
              Flight(c, Len(printed[c]), up[c], down[c], Held(c), buffer[1], Shut(c), typed[c])
         /\ ServerUp /\ ~Open(c) =>
              endOfTerminal[c] /\ Closing(c, Len(printed[c]), down[c], typed[c])
         /\ ~ServerUp =>
              Dropped(c, Len(printed[c]), down[c], Held(c), buffer[1], typed[c], spc)
  BY DEF FlowInv, ClientOK, FlowOK

LEMMA TypingFlow ==
  ASSUME TableInv, FlowInv, NEW c \in Clients, TerminalReady(c) \/ SendLine(c) \/ EndOfInput(c)
  PROVE  ClientOK(c)'
<1>0. /\ UNCHANGED <<conn, backlog, spc, buffer, printed, down>>
      /\ (Open(c)' <=> Open(c)) /\ Held(c)' = Held(c) /\ (ServerUp' <=> ServerUp)
  <2>1. str_cli(c) BY DEF str_cli
  <2> QED BY <2>1, OwnStep DEF TerminalReady, SendLine, EndOfInput
<1>1. /\ cpc[c] \in {"select", "terminal"} /\ cpc'[c] \in {"select", "terminal"}
      /\ cpc'[c] = "terminal" => TerminalReady(c)
  BY DEF TerminalReady, SendLine, EndOfInput, ClientGoto, TableInv, BaseOK
<1>2. Live(c) /\ Live(c)' BY <1>1 DEF Live
<1>3. FreshOK(c)' BY <1>1 DEF FreshOK
<1>4. ShownOK(c)' BY <1>0, <1>1 DEF FlowInv, ClientOK, ShownOK
<1>5. /\ Held(c) \in {0, 1} /\ printed[c] \in Seq(Items) /\ Len(printed[c]) \in Nat
      /\ up[c] \in Seq(Items) /\ down[c] \in Seq(Items) /\ typed[c] \in Nat
  BY HeldFacts, TypeFacts
<1>6. FlowOK(c)'
  <2>1. CASE TerminalReady(c)
    <3>1. UNCHANGED <<typed, endOfTerminal, up>> /\ ~endOfTerminal[c] BY <2>1 DEF TerminalReady
    <3>2. Shut(c)' = Shut(c) BY <3>1 DEF Shut
    <3> QED BY <1>0, <1>2, <3>1, <3>2, LiveFacts DEF FlowOK
  <2>2. CASE SendLine(c)
    <3>1. /\ cpc[c] = "terminal" /\ ServerUp /\ typed'[c] = typed[c] + 1
          /\ UNCHANGED endOfTerminal /\ up'[c] = Append(up[c], Chunk(c, typed[c] + 1))
      BY <2>2 DEF SendLine, ClientGoto, TableInv, BaseOK
    <3>2. ~endOfTerminal[c] BY <1>2, <3>1, LiveFacts
    <3>3. Open(c) BY <1>2, <3>1, <3>2, LiveFacts
    <3>4. Shut(c) = 0 /\ Shut(c)' = 0 BY <3>1, <3>2 DEF Shut
    <3>5. Flight(c, Len(printed[c]), up[c], down[c], Held(c), buffer[1], 0, typed[c])
      BY <1>2, <3>1, <3>3, <3>4, LiveFacts
    <3>6. Flight(c, Len(printed[c]), up'[c], down[c], Held(c), buffer[1], 0, typed'[c])
      BY <1>5, <3>1, <3>5, FlightSend
    <3> QED BY <1>0, <3>1, <3>2, <3>3, <3>4, <3>6 DEF FlowOK
  <2>3. CASE EndOfInput(c)
    <3>1. /\ cpc[c] = "terminal" /\ typed[c] = Input(c) /\ UNCHANGED typed /\ endOfTerminal'[c]
          /\ cpc'[c] = "select"
          /\ ServerUp => up'[c] = Append(up[c], EOF(c))
      BY <2>3 DEF EndOfInput, ClientGoto, TableInv, BaseOK
    <3>2. ~endOfTerminal[c] BY <1>2, <3>1, LiveFacts
    <3>3. Shut(c) = 0 /\ Shut(c)' = 1 BY <3>1, <3>2 DEF Shut
    <3>4. CASE ServerUp
      <4>1. Open(c) BY <1>2, <3>2, <3>4, LiveFacts
      <4>2. Flight(c, Len(printed[c]), up[c], down[c], Held(c), buffer[1], 0, typed[c])
        BY <1>2, <3>3, <3>4, <4>1, LiveFacts
      <4>3. Flight(c, Len(printed[c]), up'[c], down[c], Held(c), buffer[1], 1, typed[c])
        BY <1>5, <3>1, <3>4, <4>2, FlightSend
      <4> QED BY <1>0, <3>1, <3>3, <3>4, <4>1, <4>3 DEF FlowOK
    <3>5. CASE ~ServerUp
      <4>1. Dropped(c, Len(printed[c]), down[c], Held(c), buffer[1], typed[c], spc)
        BY <1>2, <3>5, LiveFacts
      <4> QED BY <1>0, <3>1, <3>5, <4>1 DEF FlowOK
    <3> QED BY <3>4, <3>5
  <2> QED BY <2>1, <2>2, <2>3
<1> QED BY <1>3, <1>4, <1>6 DEF ClientOK

LEMMA ShowFlow ==
  ASSUME TableInv, FlowInv, NEW c \in Clients, ShowEcho(c)
  PROVE  ClientOK(c)'
<1> DEFINE p == Len(printed[c])
           d == down[c]
<1>0. /\ UNCHANGED <<conn, backlog, spc, buffer, typed, endOfTerminal, up>>
      /\ (Open(c)' <=> Open(c)) /\ Held(c)' = Held(c) /\ (ServerUp' <=> ServerUp)
  <2>1. str_cli(c) BY DEF str_cli
  <2> QED BY <2>1, OwnStep DEF ShowEcho
<1>1. /\ cpc[c] = "select" /\ cpc'[c] \in {"select", "terminal"}
      /\ endOfTerminal[c] => cpc'[c] = "select"
  BY DEF ShowEcho, ClientGoto, TableInv, BaseOK
<1>2. Live(c) /\ Live(c)' BY <1>1 DEF Live
<1>3. FreshOK(c)' BY <1>1 DEF FreshOK
<1>4. /\ Held(c) \in {0, 1} /\ Shut(c) \in {0, 1} /\ printed[c] \in Seq(Items) /\ p \in Nat
      /\ up[c] \in Seq(Items) /\ d \in Seq(Items) /\ typed[c] \in Nat
  BY HeldFacts, TypeFacts
<1>5. /\ d # <<>> /\ Head(d).n > 0 /\ printed'[c] = Append(printed[c], Head(d)) /\ down'[c] = Tail(d)
  BY DEF ShowEcho, TableInv, BaseOK
<1> HIDE DEF d
<1>6. /\ Len(printed'[c]) = p + 1 /\ printed'[c][p + 1] = Head(d)
      /\ \A k \in 1 .. p : printed'[c][k] = printed[c][k]
  BY <1>4, <1>5
<1> HIDE DEF p
<1>7. Shut(c)' = Shut(c) BY <1>0 DEF Shut
<1>8. /\ Head(d) = Chunk(c, p + 1)
      /\ ServerUp /\ Open(c) =>
           Flight(c, p + 1, up[c], Tail(d), Held(c), buffer[1], Shut(c), typed[c])
      /\ ServerUp /\ ~Open(c) => endOfTerminal[c] /\ Closing(c, p + 1, Tail(d), typed[c])
      /\ ~ServerUp => Dropped(c, p + 1, Tail(d), Held(c), buffer[1], typed[c], spc)
  <2>1. CASE ServerUp /\ Open(c)
    <3>1. Flight(c, p, up[c], d, Held(c), buffer[1], Shut(c), typed[c])
      BY <1>2, <2>1, LiveFacts DEF p, d
    <3>2. Head(d) = Chunk(c, p + 1) /\ Flight(c, p + 1, up[c], Tail(d), Held(c), buffer[1], Shut(c), typed[c])
      <4>1. d # <<>> BY <1>5
      <4> QED BY <1>4, <3>1, <4>1, FlightShow
    <3> QED BY <2>1, <3>2
  <2>2. CASE ServerUp /\ ~Open(c)
    <3>1. endOfTerminal[c] /\ Closing(c, p, d, typed[c]) BY <1>2, <2>2, LiveFacts DEF p, d
    <3>2. PICK m \in Nat : Ending(c, p, d, m) /\ d[m + 1].n = 0 /\ p + m = typed[c]
      BY <3>1 DEF Closing
    <3>3. /\ Head(d) = Chunk(c, p + 1) /\ m - 1 \in Nat
          /\ Ending(c, p + 1, Tail(d), m - 1) /\ Tail(d)[(m - 1) + 1] = d[m + 1]
      BY <1>4, <1>5, <3>2, EndingShow
    <3>4. p + 1 + (m - 1) = typed[c] BY <1>4, <3>2
    <3>5. Closing(c, p + 1, Tail(d), typed[c]) BY <3>2, <3>3, <3>4 DEF Closing
    <3> QED BY <2>2, <3>1, <3>3, <3>5
  <2>3. CASE ~ServerUp
    <3>1. Dropped(c, p, d, Held(c), buffer[1], typed[c], spc) BY <1>2, <2>3, LiveFacts DEF p, d
    <3>2. PICK m \in Nat : /\ Ending(c, p, d, m)
                           /\ d[m + 1].n = 0 =>
                                /\ p + m + Held(c) = typed[c]
                                /\ Held(c) = 1 => spc = "killed" /\ buffer[1] = Chunk(c, typed[c])
      BY <3>1 DEF Dropped
    <3>3. /\ Head(d) = Chunk(c, p + 1) /\ m - 1 \in Nat
          /\ Ending(c, p + 1, Tail(d), m - 1) /\ Tail(d)[(m - 1) + 1] = d[m + 1]
      <4>1. d # <<>> /\ Head(d).n > 0 /\ Ending(c, p, d, m) BY <1>5, <3>2
      <4>2. p \in Nat /\ d \in Seq(Items) BY <1>4
      <4> QED BY <4>1, <4>2, EndingShow
    <3>4. p + 1 + (m - 1) + Held(c) = p + m + Held(c)
      <4>1. p + 1 + (m - 1) = p + m BY <1>4
      <4> QED BY <4>1
    <3>5. Dropped(c, p + 1, Tail(d), Held(c), buffer[1], typed[c], spc)
      BY <3>2, <3>3, <3>4 DEF Dropped
    <3> QED BY <2>3, <3>3, <3>5
  <2> QED BY <2>1, <2>2, <2>3
<1>9. FlowOK(c)'
  <2>1. endOfTerminal[c] => typed[c] = Input(c) BY <1>2, LiveFacts
  <2> QED BY <1>0, <1>1, <1>5, <1>6, <1>7, <1>8, <2>1 DEF FlowOK
<1>10. ShownOK(c)'
  <2>1. \A k \in 1 .. p : printed[c][k] = Chunk(c, k) BY DEF p, FlowInv, ClientOK, ShownOK
  <2>2. \A k \in 1 .. p + 1 : k \in 1 .. p \/ k = p + 1 BY <1>4
  <2>3. \A k \in 1 .. Len(printed'[c]) : printed'[c][k] = Chunk(c, k)
    BY <1>6, <1>8, <2>1, <2>2
  <2> QED BY <1>1, <2>3 DEF ShownOK
<1> QED BY <1>3, <1>9, <1>10 DEF ClientOK

\* Ways to end
LEMMA LeaveFlow ==
  ASSUME TableInv, FlowInv, NEW c \in Clients, ServerClosed(c) \/ SendFails(c) \/ KillClient(c)
  PROVE  ClientOK(c)'
<1> DEFINE p == Len(printed[c])
           d == down[c]
<1>0. UNCHANGED <<spc, buffer, typed, endOfTerminal, printed>>
  BY DEF ServerClosed, SendFails, KillClient, ClientGoto
<1>1. /\ cpc'[c] \in {"exit0", "exit-1", "killed"}
      /\ cpc'[c] = "exit0" => /\ cpc[c] = "select" /\ d # <<>> /\ Head(d).n = 0
                              /\ endOfTerminal[c]
  BY DEF ServerClosed, SendFails, KillClient, ClientGoto, TableInv, BaseOK
<1>2. FlowOK(c)' /\ FreshOK(c)' BY <1>1 DEF FlowOK, Live, FreshOK
<1>3. ShownOK(c)'
  <2>1. \A k \in 1 .. Len(printed'[c]) : printed'[c][k] = Chunk(c, k)
    BY <1>0 DEF FlowInv, ClientOK, ShownOK
  <2>2. ASSUME cpc'[c] = "exit0"
        PROVE  \/ p = Input(c)
               \/ /\ spc = "killed" /\ p = Input(c) - 1
                  /\ buffer # <<>> /\ buffer[1] = Chunk(c, Input(c))
    <3>1. Live(c) /\ d # <<>> /\ Head(d).n = 0 /\ endOfTerminal[c] BY <1>1, <2>2 DEF Live
    <3>2. typed[c] = Input(c) BY <3>1, LiveFacts
    <3>3. /\ Held(c) \in {0, 1} /\ Shut(c) \in {0, 1} /\ printed[c] \in Seq(Items) /\ p \in Nat
          /\ up[c] \in Seq(Items) /\ d \in Seq(Items) /\ typed[c] \in Nat
      BY HeldFacts, TypeFacts
    <3>4. Head(d) = d[1] /\ 1 \in 1 .. Len(d) BY <3>1, <3>3
    <3>5. ASSUME NEW m \in Nat, Ending(c, p, d, m) PROVE m = 0
      <4> SUFFICES ASSUME m # 0 PROVE FALSE OBVIOUS
      <4>1. 1 \in 1 .. m BY <3>5
      <4>2. d[1] = Chunk(c, p + 1) BY <3>5, <4>1 DEF Ending
      <4>3. p + 1 \in Int /\ p + 1 # 0 BY <3>3
      <4>4. d[1].n # 0 BY <4>2, <4>3, ChunkFacts
      <4> QED BY <3>1, <3>4, <4>4
    <3>6. CASE ServerUp /\ Open(c)
      <4>1. Flight(c, p, up[c], d, Held(c), buffer[1], Shut(c), typed[c]) BY <3>1, <3>6, LiveFacts
      <4> HIDE DEF p, d
      <4>2. Head(d) = Chunk(c, p + 1)
        <5>1. \A k \in 1 .. Len(d) : d[k] = Chunk(c, p + k) BY <4>1 DEF Flight
        <5> QED BY <3>4, <5>1
      <4>3. p + 1 \in Int /\ p + 1 # 0 BY <3>3
      <4> QED BY <3>1, <4>2, <4>3, ChunkFacts
    <3>7. CASE ServerUp /\ ~Open(c)
      <4>1. Closing(c, p, d, typed[c]) BY <3>1, <3>7, LiveFacts
      <4>2. PICK m \in Nat : Ending(c, p, d, m) /\ p + m = typed[c] BY <4>1 DEF Closing
      <4>3. m = 0 BY <3>5, <4>2
      <4> QED BY <3>2, <3>3, <4>2, <4>3
    <3>8. CASE ~ServerUp
      <4>1. Dropped(c, p, d, Held(c), buffer[1], typed[c], spc) BY <3>1, <3>8, LiveFacts
      <4>2. PICK m \in Nat : /\ Ending(c, p, d, m)
                             /\ d[m + 1].n = 0 =>
                                  /\ p + m + Held(c) = typed[c]
                                  /\ Held(c) = 1 => spc = "killed" /\ buffer[1] = Chunk(c, typed[c])
        BY <4>1 DEF Dropped
      <4>3. m = 0 /\ m + 1 = 1 BY <3>5, <4>2
      <4>4. /\ p + 0 + Held(c) = typed[c]
            /\ Held(c) = 1 => spc = "killed" /\ buffer[1] = Chunk(c, typed[c])
        BY <3>1, <3>4, <4>2, <4>3
      <4>5. CASE Held(c) = 0
        <5>1. p = typed[c] BY <3>3, <4>4, <4>5
        <5> QED BY <3>2, <5>1
      <4>6. CASE Held(c) = 1
        <5>1. p = typed[c] - 1 BY <3>3, <4>4, <4>6
        <5>2. buffer # <<>> BY <4>6 DEF Held
        <5> QED BY <3>2, <4>4, <4>6, <5>1, <5>2
      <4> QED BY <3>3, <4>5, <4>6
    <3> QED BY <3>6, <3>7, <3>8
  <2> QED BY <1>0, <2>1, <2>2 DEF ShownOK
<1> QED BY <1>2, <1>3 DEF ClientOK

LEMMA ClientFlow ==
  ASSUME TableInv, FlowInv, NEW c \in Clients, str_cli(c) \/ KillClient(c)
  PROVE  FlowInv'
<1> SUFFICES ASSUME NEW d \in Clients PROVE ClientOK(d)' BY DEF FlowInv
<1>1. CASE d = c BY <1>1, TypingFlow, ShowFlow, LeaveFlow DEF str_cli
<1>2. CASE d # c
  <2>1. /\ UNCHANGED <<spc, buffer>> /\ (Open(d)' <=> Open(d))
        /\ cpc'[d] = cpc[d] /\ typed'[d] = typed[d] /\ endOfTerminal'[d] = endOfTerminal[d]
        /\ printed'[d] = printed[d] /\ up'[d] = up[d] /\ down'[d] = down[d]
    BY <1>2, OwnStep
  <2>2. ClientOK(d) BY DEF FlowInv
  <2> QED BY <2>1, <2>2, SameClient
<1> QED BY <1>1, <1>2

-----------------------------------------------------------------------------
(* The connections under the server's steps *)

LEMMA SelectFlow ==
  ASSUME TableInv, TableInv', FlowInv, select \/ accept \/ AcceptFails
  PROVE  FlowInv'
<1>0. /\ UNCHANGED <<cpc, typed, endOfTerminal, printed, up, down, buffer>> /\ spc = "select"
  BY DEF select, accept, AcceptFails, Select, clientVars
<1>1. spc' \in {"select", "read"}
  BY DEF select, accept, AcceptFails, ServeFrom
<1>2. buffer = <<>> /\ buffer' = <<>> /\ ServerUp /\ ServerUp'
  BY <1>0, <1>1 DEF TableInv, PendingOK, ServerUp
<1> SUFFICES ASSUME NEW d \in Clients PROVE ClientOK(d)' BY DEF FlowInv
<1>3. Held(d) = 0 /\ Held(d)' = 0 BY <1>2 DEF Held
<1>4. Open(d)' <=> Open(d)
  <2>1. CASE select \/ AcceptFails BY <2>1 DEF select, AcceptFails, Open
  <2>2. CASE accept
    <3> DEFINE F == {f \in Fds \ {sockfd} : conn[f] = None}
               fd == Min(F)
               c == Head(backlog)
    <3>1. backlog # <<>> /\ backlog' = Tail(backlog) /\ conn' = [conn EXCEPT ![fd] = c]
      BY <2>2 DEF accept
    <3>2. fd \in Fds /\ conn[fd] = None
      <4>1. F # {} BY <1>2, <3>1, FreeFd DEF TableInv
      <4>2. F \subseteq Nat BY Sizes
      <4> HIDE DEF F
      <4>3. fd \in F BY <4>1, <4>2, MinFact
      <4> QED BY <4>3 DEF F
    <3> HIDE DEF fd
    <3>3. /\ c = backlog[1] /\ Len(backlog) \in Nat /\ Len(backlog) >= 1
          /\ Len(backlog') = Len(backlog) - 1
          /\ \A k \in 1 .. Len(backlog) - 1 : backlog'[k] = backlog[k + 1]
      <4>1. backlog \in Seq(Clients) BY DEF TableInv, BaseOK
      <4> QED BY <3>1, <4>1, TailFacts
    <3> HIDE DEF c
    <3>4. conn'[fd] = c /\ \A f \in Fds : f # fd => conn'[f] = conn[f]
      BY <3>1, <3>2 DEF TableInv, BaseOK
    <3>5. d # None BY ClientsAssumption
    <3>6. (\E f \in Fds : conn'[f] = d) <=> d = c \/ \E f \in Fds : conn[f] = d
      BY <3>2, <3>4, <3>5
    <3>7. (\E k \in 1 .. Len(backlog) : backlog[k] = d) <=>
            d = c \/ \E k \in 1 .. Len(backlog') : backlog'[k] = d
      <4>1. 1 \in 1 .. Len(backlog) BY <3>3
      <4>2. \A k \in 1 .. Len(backlog) : k = 1 \/ k - 1 \in 1 .. Len(backlog') BY <3>3
      <4>3. \A k \in 1 .. Len(backlog) : k = 1 \/ backlog[k] = backlog'[k - 1]
        <5> SUFFICES ASSUME NEW k \in 1 .. Len(backlog), k # 1 PROVE backlog[k] = backlog'[k - 1]
          OBVIOUS
        <5>1. k - 1 \in 1 .. Len(backlog) - 1 /\ (k - 1) + 1 = k BY <3>3
        <5>2. backlog'[k - 1] = backlog[(k - 1) + 1] BY <3>3, <5>1
        <5> QED BY <5>1, <5>2
      <4>4. \A k \in 1 .. Len(backlog') : k + 1 \in 1 .. Len(backlog) /\ backlog'[k] = backlog[k + 1]
        BY <3>3
      <4>5. ASSUME NEW k \in 1 .. Len(backlog), backlog[k] = d
            PROVE  d = c \/ \E j \in 1 .. Len(backlog') : backlog'[j] = d
        BY <3>3, <4>2, <4>3, <4>5
      <4>6. d = c => \E k \in 1 .. Len(backlog) : backlog[k] = d BY <3>3, <4>1
      <4>7. ASSUME NEW k \in 1 .. Len(backlog'), backlog'[k] = d
            PROVE  \E j \in 1 .. Len(backlog) : backlog[j] = d
        BY <4>4, <4>7
      <4> QED BY <4>5, <4>6, <4>7
    <3> QED BY <3>6, <3>7 DEF Open
  <2> QED BY <2>1, <2>2
<1>5. ClientOK(d) BY DEF FlowInv
<1> QED BY <1>0, <1>2, <1>3, <1>4, <1>5, SameClient

\* A step of the loop for the connection it is at, seen by the other clients
LEMMA OthersFlow ==
  ASSUME TableInv, TableInv', FlowInv, spc \in {"read", "write"}, NEW c \in Clients, c = Current,
         ServerUp', UNCHANGED <<cpc, typed, endOfTerminal, printed, backlog>>,
         \A e \in Clients : e # c => up'[e] = up[e] /\ down'[e] = down[e],
         \A e \in Clients : e # c => ((\E f \in Fds : conn'[f] = e) <=> \E f \in Fds : conn[f] = e),
         buffer' = <<>> \/ (buffer' # <<>> /\ buffer'[1].of = c),
         ClientOK(c)'
  PROVE  FlowInv'
<1> SUFFICES ASSUME NEW d \in Clients, d # c PROVE ClientOK(d)' BY DEF FlowInv
<1>1. Held(d) = 0 /\ ServerUp
  <2>1. ServerUp BY DEF ServerUp
  <2> QED BY <2>1, HeldFacts
<1>2. Held(d)' = 0 BY DEF Held
<1>3. Open(d)' <=> Open(d) BY DEF Open
<1>4. ClientOK(d) BY DEF FlowInv
<1> QED BY <1>1, <1>2, <1>3, <1>4, SameClient

LEMMA ReadFlow ==
  ASSUME TableInv, TableInv', FlowInv, ReadChunk
  PROVE  FlowInv'
<1>0. PICK c \in Clients : c = Current
  BY CurrentFacts DEF ReadChunk
<1>1. /\ UNCHANGED <<cpc, typed, endOfTerminal, printed, down, conn, backlog>>
      /\ spc = "read" /\ up[c] # <<>> /\ up' = [up EXCEPT ![c] = Tail(@)] /\ Head(up[c]).n # 0
      /\ \/ Head(up[c]).n > 0 /\ buffer' = <<Head(up[c])>> /\ spc' = "write"
         \/ ~ (Head(up[c]).n > 0) /\ UNCHANGED buffer /\ spc' \in {"select", "read"}
  BY <1>0 DEF ReadChunk, clientVars, ServeFrom
<1>2. up'[c] = Tail(up[c]) /\ \A e \in Clients : e # c => up'[e] = up[e]
  BY <1>1 DEF TableInv, BaseOK
<1>3. buffer = <<>> /\ ServerUp /\ ServerUp' /\ Held(c) = 0
  BY <1>1 DEF TableInv, PendingOK, ServerUp, Held
<1>4. Head(up[c]).of = c /\ Head(up[c]) \in Items
  BY <1>1, OwnTail
<1>5. Head(up[c]).n > 0 => buffer' # <<>> /\ buffer'[1] = Head(up[c]) /\ Held(c)' = 1
  <2> SUFFICES ASSUME Head(up[c]).n > 0 PROVE buffer' # <<>> /\ buffer'[1] = Head(up[c]) /\ Held(c)' = 1
    OBVIOUS
  <2>1. buffer' = <<Head(up[c])>> BY <1>1
  <2>2. buffer' # <<>> /\ buffer'[1] = Head(up[c]) BY <2>1
  <2> QED BY <1>4, <2>2 DEF Held
<1>6. Open(c) /\ Open(c)'
  <2>1. Open(c) BY <1>0, <1>1, CurrentOpen
  <2> QED BY <1>1, <2>1 DEF Open
<1>7. Shut(c)' = Shut(c) BY <1>1 DEF Shut
<1>8. FlowOK(c)'
  <2> SUFFICES ASSUME Live(c)'
               PROVE  /\ endOfTerminal[c] => typed[c] = Input(c) /\ cpc[c] = "select"
                      /\ Flight(c, Len(printed[c]), Tail(up[c]), down[c], Held(c)', buffer'[1],
                                Shut(c), typed[c])
    BY <1>1, <1>2, <1>3, <1>6, <1>7 DEF FlowOK
  <2>1. Live(c) BY <1>1 DEF Live
  <2>2. endOfTerminal[c] => typed[c] = Input(c) /\ cpc[c] = "select" BY <2>1, LiveFacts
  <2>3. Flight(c, Len(printed[c]), up[c], down[c], 0, buffer[1], Shut(c), typed[c])
    BY <1>3, <1>6, <2>1, LiveFacts
  <2>4. /\ Len(printed[c]) \in Nat /\ up[c] \in Seq(Items) /\ down[c] \in Seq(Items)
        /\ Shut(c) \in {0, 1} /\ typed[c] \in Nat
    BY HeldFacts, TypeFacts
  <2>5. /\ Head(up[c]).n >= 0
        /\ Head(up[c]).n > 0 =>
             Flight(c, Len(printed[c]), Tail(up[c]), down[c], 1, Head(up[c]), Shut(c), typed[c])
    <3> DEFINE u == up[c]
               d == down[c]
               p == Len(printed[c])
               e == Shut(c)
               n == typed[c]
               b == buffer[1]
    <3>1. u # <<>> /\ Flight(c, p, u, d, 0, b, e, n) BY <1>1, <2>3
    <3>2. p \in Nat /\ u \in Seq(Items) /\ d \in Seq(Items) /\ e \in {0, 1} /\ n \in Nat BY <2>4
    <3> HIDE DEF u, d, p, e, n, b
    <3>3. Head(u).n >= 0 /\ (Head(u).n > 0 => Flight(c, p, Tail(u), d, 1, Head(u), e, n))
      BY <3>1, <3>2, FlightRead
    <3> QED BY <3>3 DEF u, d, p, e, n
  <2>6. Head(up[c]).n > 0
    <3>1. Head(up[c]).n \in Int /\ Head(up[c]).n # 0 BY <1>1, <1>4 DEF Items
    <3>2. Head(up[c]).n >= 0 BY <2>5
    <3> QED BY <3>1, <3>2
  <2> QED BY <1>5, <2>2, <2>5, <2>6
<1>9. ClientOK(c)'
  <2>1. FreshOK(c)'
    <3>1. cpc[c] # "off" BY <1>0, <1>1, CurrentFacts
    <3> QED BY <1>1, <3>1 DEF FreshOK
  <2>2. ShownOK(c)'
    <3>1. spc # "killed" BY <1>1
    <3> QED BY <1>1, <3>1 DEF FlowInv, ClientOK, ShownOK
  <2> QED BY <1>8, <2>1, <2>2 DEF ClientOK
<1>10. buffer' = <<>> \/ (buffer' # <<>> /\ buffer'[1].of = c) BY <1>1, <1>3, <1>4, <1>5
<1> QED BY <1>0, <1>1, <1>2, <1>3, <1>9, <1>10, OthersFlow

LEMMA WriteFlow ==
  ASSUME TableInv, TableInv', FlowInv, WriteChunk \/ WriteLost
  PROVE  FlowInv'
<1>0. PICK c \in Clients : c = Current
  BY CurrentFacts DEF WriteChunk, WriteLost
<1>1. /\ UNCHANGED <<cpc, typed, endOfTerminal, printed, up, conn, backlog>>
      /\ spc = "write" /\ buffer' = <<>> /\ spc' \in {"select", "read"}
      /\ \/ ~Ended(c) /\ down' = [down EXCEPT ![c] = @ \o buffer]
         \/ Ended(c) /\ UNCHANGED down
  BY <1>0 DEF WriteChunk, WriteLost, clientVars, ServeFrom
<1>2. \A e \in Clients : e # c => down'[e] = down[e]
  BY <1>1 DEF TableInv, BaseOK
<1>3. ServerUp /\ ServerUp' /\ Held(c)' = 0
  BY <1>1 DEF ServerUp, Held
<1>4. /\ buffer \in Seq(Items) /\ buffer # <<>> /\ Len(buffer) <= 1 /\ buffer[1].of = c
  BY <1>0, <1>1 DEF TableInv, BaseOK, PendingOK
<1>5. buffer[1] \in Items /\ buffer = <<buffer[1]>> /\ Held(c) = 1
  <2>1. Len(buffer) \in Nat /\ Len(buffer) >= 1 BY <1>4, TailFacts
  <2>2. Len(buffer) = 1
    <3> DEFINE l == Len(buffer)
    <3>1. l <= 1 /\ l \in Nat /\ l >= 1 BY <1>4, <2>1
    <3> HIDE DEF l
    <3>2. l = 1 BY <3>1
    <3> QED BY <3>2 DEF l
  <2> QED BY <1>4, <2>2 DEF Held
<1>6. Open(c) /\ Open(c)'
  <2>1. Open(c) BY <1>0, <1>1, CurrentOpen
  <2> QED BY <1>1, <2>1 DEF Open
<1>7. Shut(c)' = Shut(c) BY <1>1 DEF Shut
<1>8. FlowOK(c)'
  <2> SUFFICES ASSUME Live(c)'
               PROVE  /\ endOfTerminal[c] => typed[c] = Input(c) /\ cpc[c] = "select"
                      /\ Flight(c, Len(printed[c]), up[c], down'[c], 0, buffer'[1], Shut(c), typed[c])
    BY <1>1, <1>3, <1>6, <1>7 DEF FlowOK
  <2>1. Live(c) BY <1>1 DEF Live
  <2>2. endOfTerminal[c] => typed[c] = Input(c) /\ cpc[c] = "select" BY <2>1, LiveFacts
  <2>3. Flight(c, Len(printed[c]), up[c], down[c], 1, buffer[1], Shut(c), typed[c])
    BY <1>3, <1>5, <1>6, <2>1, LiveFacts
  <2>4. /\ Len(printed[c]) \in Nat /\ up[c] \in Seq(Items) /\ down[c] \in Seq(Items)
        /\ Shut(c) \in {0, 1} /\ typed[c] \in Nat
    BY HeldFacts, TypeFacts
  <2>5. down'[c] = Append(down[c], buffer[1])
    <3>1. down'[c] = down[c] \o buffer BY <1>1, <2>1 DEF Live, Ended, TableInv, BaseOK
    <3>2. down[c] \o <<buffer[1]>> = Append(down[c], buffer[1]) BY <1>5, <2>4
    <3> QED BY <1>5, <3>1, <3>2
  <2>6. Flight(c, Len(printed[c]), up[c], Append(down[c], buffer[1]), 0, buffer'[1], Shut(c), typed[c])
    <3>1. buffer[1] \in Items BY <1>5
    <3> QED BY <2>3, <2>4, <3>1, FlightWrite
  <2> QED BY <2>2, <2>5, <2>6
<1>9. ClientOK(c)'
  <2>1. FreshOK(c)'
    <3>1. cpc[c] # "off" BY <1>0, <1>1, CurrentFacts
    <3> QED BY <1>1, <3>1 DEF FreshOK
  <2>2. ShownOK(c)'
    <3>1. spc # "killed" BY <1>1
    <3> QED BY <1>1, <3>1 DEF FlowInv, ClientOK, ShownOK
  <2> QED BY <1>8, <2>1, <2>2 DEF ClientOK
<1> QED BY <1>0, <1>1, <1>2, <1>3, <1>9, OthersFlow

LEMMA CloseFlow ==
  ASSUME TableInv, TableInv', FlowInv, CloseConnection
  PROVE  FlowInv'
<1>0. PICK c \in Clients : c = Current
  BY CurrentFacts DEF CloseConnection
<1> DEFINE fd == client[i]
<1>1. /\ UNCHANGED <<cpc, typed, endOfTerminal, printed, backlog, buffer>>
      /\ spc = "read" /\ spc' \in {"select", "read"}
      /\ up[c] # <<>> /\ Head(up[c]).n = 0 /\ up' = [up EXCEPT ![c] = Tail(@)]
      /\ down' = [down EXCEPT ![c] = IF Ended(c) THEN @ ELSE Append(@, EOF(c))]
      /\ conn' = [conn EXCEPT ![fd] = None]
  BY <1>0 DEF CloseConnection, clientVars, ServeFrom
<1>2. /\ \A e \in Clients : e # c => up'[e] = up[e] /\ down'[e] = down[e]
      /\ ~Ended(c) => down'[c] = Append(down[c], EOF(c))
  BY <1>1 DEF TableInv, BaseOK
<1>3. buffer = <<>> /\ buffer' = <<>> /\ ServerUp /\ ServerUp' /\ Held(c) = 0
  BY <1>1 DEF TableInv, PendingOK, ServerUp, Held
<1>4. fd \in Fds /\ conn[fd] = c BY <1>0, <1>1, CurrentFacts DEF Current
<1> HIDE DEF fd
<1>5. conn'[fd] = None /\ \A f \in Fds : f # fd => conn'[f] = conn[f]
  BY <1>1, <1>4 DEF TableInv, BaseOK
<1>6. \A e \in Clients : e # None BY ClientsAssumption
<1>7. \A e \in Clients : e # c => ((\E f \in Fds : conn'[f] = e) <=> \E f \in Fds : conn[f] = e)
  BY <1>4, <1>5, <1>6
<1>8. Open(c) /\ ~Open(c)'
  <2>1. \A f \in Fds : f # fd => conn[f] # c BY <1>3, <1>4, <1>6 DEF TableInv, SocketsOK
  <2>2. \A f \in Fds : conn'[f] # c BY <1>5, <1>6, <2>1
  <2>3. \A k \in 1 .. Len(backlog) : backlog[k] # c BY <1>3, <1>4 DEF TableInv, SocketsOK
  <2> QED BY <1>1, <1>4, <2>2, <2>3 DEF Open
<1>9. FlowOK(c)'
  <2> SUFFICES ASSUME Live(c)'
               PROVE  /\ endOfTerminal[c] => typed[c] = Input(c) /\ cpc[c] = "select"
                      /\ endOfTerminal[c] /\ Closing(c, Len(printed[c]), down'[c], typed[c])
    BY <1>1, <1>3, <1>8 DEF FlowOK
  <2>1. Live(c) BY <1>1 DEF Live
  <2>2. endOfTerminal[c] => typed[c] = Input(c) /\ cpc[c] = "select" BY <2>1, LiveFacts
  <2>3. Flight(c, Len(printed[c]), up[c], down[c], 0, buffer[1], Shut(c), typed[c])
    BY <1>3, <1>8, <2>1, LiveFacts
  <2>4. /\ Len(printed[c]) \in Nat /\ up[c] \in Seq(Items) /\ down[c] \in Seq(Items)
        /\ Shut(c) \in {0, 1} /\ typed[c] \in Nat
    BY HeldFacts, TypeFacts
  <2>5. Head(up[c]).n = 0 => Shut(c) = 1 /\ Len(printed[c]) + Len(down[c]) = typed[c]
    <3> DEFINE u == up[c]
               d == down[c]
               p == Len(printed[c])
               e == Shut(c)
               n == typed[c]
               b == buffer[1]
    <3>1. u # <<>> /\ Flight(c, p, u, d, 0, b, e, n) BY <1>1, <2>3
    <3>2. p \in Nat /\ u \in Seq(Items) /\ d \in Seq(Items) /\ e \in {0, 1} /\ n \in Nat BY <2>4
    <3> HIDE DEF u, d, p, e, n, b
    <3>3. Head(u).n = 0 => e = 1 /\ p + Len(d) = n
      BY <3>1, <3>2, FlightRead
    <3> QED BY <3>3 DEF u, d, p, e, n
  <2>6. endOfTerminal[c]
    <3>1. Shut(c) = 1 BY <1>1, <2>5
    <3> QED BY <3>1 DEF Shut
  <2>7. down'[c] = Append(down[c], EOF(c)) BY <1>2, <2>1 DEF Live, Ended
  <2>8. \A k \in 1 .. Len(down[c]) : down[c][k] = Chunk(c, Len(printed[c]) + k) BY <2>3 DEF Flight
  <2>9. EOF(c) \in Items /\ EOF(c).n <= 0 /\ EOF(c).n = 0 BY EndFacts
  <2>10. /\ Ending(c, Len(printed[c]), down'[c], Len(down[c])) /\ Len(down[c]) \in Nat
         /\ down'[c][Len(down[c]) + 1] = EOF(c)
    <3> DEFINE d == down[c]
               p == Len(printed[c])
    <3>1. p \in Nat /\ d \in Seq(Items) /\ \A k \in 1 .. Len(d) : d[k] = Chunk(c, p + k)
      BY <2>4, <2>8
    <3> HIDE DEF d, p
    <3>2. Ending(c, p, Append(d, EOF(c)), Len(d)) /\ Append(d, EOF(c))[Len(d) + 1] = EOF(c)
          /\ Len(d) \in Nat
      BY <2>9, <3>1, FlightEnds
    <3> QED BY <2>7, <3>2 DEF d, p
  <2>11. Closing(c, Len(printed[c]), down'[c], typed[c])
    BY <1>1, <2>5, <2>9, <2>10 DEF Closing
  <2> QED BY <2>2, <2>6, <2>11
<1>10. ClientOK(c)'
  <2>1. FreshOK(c)'
    <3>1. cpc[c] # "off" BY <1>0, <1>1, CurrentFacts
    <3> QED BY <1>1, <3>1 DEF FreshOK
  <2>2. ShownOK(c)'
    <3>1. spc # "killed" BY <1>1
    <3> QED BY <1>1, <3>1 DEF FlowInv, ClientOK, ShownOK
  <2> QED BY <1>9, <2>1, <2>2 DEF ClientOK
<1> QED BY <1>0, <1>1, <1>2, <1>3, <1>7, <1>10, OthersFlow

LEMMA EndFlow ==
  ASSUME TableInv, FlowInv, Sigpipe \/ KillServer
  PROVE  FlowInv'
<1>0. /\ UNCHANGED <<cpc, typed, endOfTerminal, printed, buffer>> /\ ServerUp /\ ~ServerUp'
      /\ up' = [c \in Clients |-> <<>>]
      /\ down' = [c \in Clients |-> IF cpc[c] = "off" \/ Ended(c) THEN <<>> ELSE Hangup(c)]
      /\ (KillServer /\ spc' = "killed") \/ (Sigpipe /\ spc' = "sigpipe")
  BY DEF Sigpipe, KillServer, ServerEnds, clientVars, ServerUp
<1> SUFFICES ASSUME NEW c \in Clients PROVE ClientOK(c)' BY DEF FlowInv
<1> DEFINE p == Len(printed[c])
           d == down[c]
<1>1. FreshOK(c)' BY <1>0 DEF FlowInv, ClientOK, FreshOK
<1>2. ShownOK(c)'
  <2>1. spc # "killed" BY <1>0 DEF ServerUp
  <2> QED BY <1>0, <2>1 DEF FlowInv, ClientOK, ShownOK
<1>3. FlowOK(c)'
  <2> SUFFICES ASSUME Live(c)
               PROVE  /\ endOfTerminal[c] => typed[c] = Input(c) /\ cpc[c] = "select"
                      /\ Dropped(c, p, down'[c], Held(c), buffer[1], typed[c], spc')
    <3>1. Live(c)' <=> Live(c) BY <1>0 DEF Live
    <3>2. Held(c)' = Held(c) BY <1>0 DEF Held
    <3> QED BY <1>0, <3>1, <3>2 DEF FlowOK
  <2>1. endOfTerminal[c] => typed[c] = Input(c) /\ cpc[c] = "select" BY LiveFacts
  <2>2. /\ p \in Nat /\ up[c] \in Seq(Items) /\ d \in Seq(Items) /\ typed[c] \in Nat
        /\ Held(c) \in {0, 1} /\ Shut(c) \in {0, 1}
    BY HeldFacts, TypeFacts
  <2>3. down'[c] = Hangup(c) BY <1>0 DEF Live, Ended
  <2>4. /\ EOF(c) \in Items /\ EOF(c).n = 0 /\ EOF(c).n <= 0
        /\ RST(c) \in Items /\ RST(c).n # 0 /\ RST(c).n <= 0
    BY EndFacts
  <2>5. CASE Open(c)
    <3>1. Flight(c, p, up[c], d, Held(c), buffer[1], Shut(c), typed[c]) BY <1>0, <2>5, LiveFacts
    <3>2. \A k \in 1 .. Len(d) : d[k] = Chunk(c, p + k) BY <3>1 DEF Flight
    <3>3. CASE Hangup(c) = Append(d, RST(c))
      <4> HIDE DEF p, d
      <4>1. /\ Ending(c, p, Append(d, RST(c)), Len(d)) /\ Len(d) \in Nat
            /\ Append(d, RST(c))[Len(d) + 1] = RST(c)
        BY <2>2, <2>4, <3>2, FlightEnds
      <4> QED BY <2>1, <2>3, <2>4, <3>3, <4>1 DEF Dropped
    <3>4. CASE /\ Hangup(c) = Append(d, EOF(c))
               /\ ~ \E k \in DOMAIN up[c] : up[c][k].n > 0
      <4>1. Len(up[c]) - Shut(c) = 0
        <5>1. Len(up[c]) \in Nat /\ Len(d) \in Nat /\ Shut(c) <= Len(up[c])
              /\ \A k \in 1 .. Len(up[c]) - Shut(c) : up[c][k] = Chunk(c, p + Len(d) + Held(c) + k)
          <6>1. Len(up[c]) \in Nat /\ Len(d) \in Nat BY <2>2
          <6> QED BY <3>1, <6>1 DEF Flight
        <5> SUFFICES ASSUME Len(up[c]) - Shut(c) # 0 PROVE FALSE OBVIOUS
        <5>2. 1 \in 1 .. Len(up[c]) - Shut(c) /\ 1 \in DOMAIN up[c] BY <2>2, <5>1
        <5>3. up[c][1] = Chunk(c, p + Len(d) + Held(c) + 1) BY <5>1, <5>2
        <5>4. p + Len(d) + Held(c) + 1 \in Int /\ p + Len(d) + Held(c) + 1 > 0
          <6>1. p \in Nat /\ Len(d) \in Nat /\ Held(c) \in Nat BY <2>2
          <6> HIDE DEF p, d
          <6> QED BY <6>1
        <5>5. up[c][1].n > 0 BY <5>3, <5>4, ChunkFacts
        <5> QED BY <3>4, <5>2, <5>5
      <4>2. p + Len(d) + Held(c) = typed[c]
        <5>1. p + Len(d) + Held(c) + (Len(up[c]) - Shut(c)) = typed[c] BY <3>1 DEF Flight
        <5>2. p \in Nat /\ Len(d) \in Nat /\ Held(c) \in Nat BY <2>2
        <5>3. p + Len(d) + Held(c) + 0 = typed[c] BY <4>1, <5>1
        <5> HIDE DEF p, d
        <5> QED BY <5>2, <5>3
      <4>3. Held(c) = 1 => spc' = "killed" /\ buffer[1] = Chunk(c, typed[c])
        <5> SUFFICES ASSUME Held(c) = 1 PROVE spc' = "killed" /\ buffer[1] = Chunk(c, typed[c])
          OBVIOUS
        <5>1. buffer[1] = Chunk(c, p + Len(d) + 1) BY <3>1 DEF Flight
        <5>2. p + Len(d) + 1 = typed[c] BY <4>2
        <5>3. c = Current BY <1>0, HeldFacts
        <5>4. ~Sigpipe BY <5>3 DEF Sigpipe, Live, Ended
        <5> QED BY <1>0, <5>1, <5>2, <5>4
      <4> HIDE DEF p, d
      <4>4. /\ Ending(c, p, Append(d, EOF(c)), Len(d)) /\ Len(d) \in Nat
            /\ Append(d, EOF(c))[Len(d) + 1] = EOF(c)
        BY <2>2, <2>4, <3>2, FlightEnds
      <4>5. Dropped(c, p, Append(d, EOF(c)), Held(c), buffer[1], typed[c], spc')
        BY <4>2, <4>3, <4>4 DEF Dropped
      <4> QED BY <2>1, <2>3, <3>4, <4>5
    <3> QED BY <3>3, <3>4 DEF Hangup
  <2>6. CASE ~Open(c)
    <3>1. Closing(c, p, d, typed[c]) BY <1>0, <2>6, LiveFacts
    <3>2. PICK m \in Nat : Ending(c, p, d, m) /\ d[m + 1].n = 0 /\ p + m = typed[c]
      BY <3>1 DEF Closing
    <3>3. PICK x \in Items : Hangup(c) = Append(d, x) BY <2>4 DEF Hangup
    <3>4. Held(c) = 0
      <4>1. Held(c) = 1 => Open(c) BY <1>0, HeldFacts, CurrentOpen
      <4> QED BY <2>2, <2>6, <4>1
    <3> HIDE DEF p, d
    <3>5. Ending(c, p, Append(d, x), m) /\ Append(d, x)[m + 1] = d[m + 1]
      BY <2>2, <3>2, EndingStays
    <3>6. p + m + 0 = typed[c] /\ 0 # 1 BY <2>2, <3>2
    <3>7. Dropped(c, p, Append(d, x), 0, buffer[1], typed[c], spc')
      BY <3>5, <3>6 DEF Dropped
    <3> QED BY <2>1, <2>3, <3>3, <3>4, <3>7
  <2> QED BY <2>5, <2>6
<1> QED BY <1>1, <1>2, <1>3 DEF ClientOK

-----------------------------------------------------------------------------
(* What follows for the clients *)

LEMMA FlowInit == Init => FlowInv
<1> SUFFICES ASSUME Init, NEW c \in Clients PROVE ClientOK(c) BY DEF FlowInv
<1>1. cpc[c] = "off" /\ printed[c] = <<>> /\ Len(printed[c]) = 0 BY EmptySeq DEF Init
<1>2. FlowOK(c) BY <1>1 DEF FlowOK, Live
<1>3. FreshOK(c) BY DEF Init, FreshOK
<1>4. ShownOK(c) BY <1>1 DEF ShownOK
<1> QED BY <1>2, <1>3, <1>4 DEF ClientOK

LEMMA FlowStep == TableInv /\ TableInv' /\ FlowInv /\ [Next]_vars => FlowInv'
<1> SUFFICES ASSUME TableInv, TableInv', FlowInv, [Next]_vars PROVE FlowInv' OBVIOUS
<1>1. CASE \E c \in Clients : connect(c) \/ str_cli(c) \/ KillClient(c)
  BY <1>1, ConnectFlow, ClientFlow
<1>2. CASE server
  BY <1>2, SelectFlow, ReadFlow, CloseFlow, WriteFlow, EndFlow DEF server
<1>3. CASE KillServer BY <1>3, EndFlow
<1>4. CASE AcceptFails BY <1>4, SelectFlow
<1>5. CASE UNCHANGED vars
  <2> SUFFICES ASSUME NEW d \in Clients PROVE ClientOK(d)' BY DEF FlowInv
  <2>1. UNCHANGED <<cpc, typed, endOfTerminal, printed, up, down, spc, buffer, conn, backlog>>
    BY <1>5 DEF vars, clientVars, tableVars
  <2>2. Open(d)' <=> Open(d) BY <2>1 DEF Open
  <2>3. ClientOK(d) BY DEF FlowInv
  <2> QED BY <2>1, <2>2, <2>3, SameClient
<1> QED BY <1>1, <1>2, <1>3, <1>4, <1>5 DEF Next

LEMMA FlowAlways == Spec => []FlowInv
<1>1. Init => FlowInv BY FlowInit
<1>2. TableInv /\ TableInv' /\ FlowInv /\ [Next]_vars => FlowInv' BY FlowStep
<1> QED BY <1>1, <1>2, TableAlways, PTL DEF Spec

\* A client that returns from str_cli has shown the echo of every line it typed,
\* each once and in order, whatever the other clients do and however small the
\* socket buffers are; only a line in the hands of a server that was killed can
\* be missing.
THEOREM NormalEndsAreComplete == Spec => []NormalEndIsComplete
<1>1. TableInv /\ FlowInv => NormalEndIsComplete
  <2> SUFFICES ASSUME TableInv, FlowInv, NEW c \in Clients
               PROVE  /\ printed[c] = [k \in 1 .. Len(printed[c]) |-> Chunk(c, k)]
                      /\ cpc[c] = "exit0" =>
                           \/ Len(printed[c]) = Input(c)
                           \/ /\ spc = "killed" /\ Len(printed[c]) = Input(c) - 1
                              /\ buffer = <<Chunk(c, Input(c))>>
    BY DEF NormalEndIsComplete
  <2>1. printed[c] \in Seq(Items) BY TypeFacts
  <2>2. /\ \A k \in 1 .. Len(printed[c]) : printed[c][k] = Chunk(c, k)
        /\ cpc[c] = "exit0" =>
             \/ Len(printed[c]) = Input(c)
             \/ /\ spc = "killed" /\ Len(printed[c]) = Input(c) - 1
                /\ buffer # <<>> /\ buffer[1] = Chunk(c, Input(c))
    BY DEF FlowInv, ClientOK, ShownOK
  <2>3. printed[c] = [k \in 1 .. Len(printed[c]) |-> Chunk(c, k)]
    <3> DEFINE s == printed[c]
    <3>1. s \in [1 .. Len(s) -> Items] BY <2>1
    <3> HIDE DEF s
    <3>2. s = [k \in 1 .. Len(s) |-> s[k]] BY <3>1
    <3>3. \A k \in 1 .. Len(s) : s[k] = Chunk(c, k) BY <2>2 DEF s
    <3>4. s = [k \in 1 .. Len(s) |-> Chunk(c, k)] BY <3>2, <3>3
    <3> QED BY <3>4 DEF s
  <2>4. buffer # <<>> => buffer = <<buffer[1]>>
    <3>1. buffer \in Seq(Items) /\ Len(buffer) <= 1 BY DEF TableInv, BaseOK, PendingOK
    <3>2. buffer # <<>> => Len(buffer) \in Nat /\ Len(buffer) >= 1 BY <3>1, TailFacts
    <3>3. buffer # <<>> => Len(buffer) = 1
      <4> DEFINE l == Len(buffer)
      <4>1. l <= 1 /\ (buffer # <<>> => l \in Nat /\ l >= 1) BY <3>1, <3>2
      <4> HIDE DEF l
      <4>2. buffer # <<>> => l = 1 BY <4>1
      <4> QED BY <4>2 DEF l
    <3> QED BY <3>1, <3>3
  <2> QED BY <2>2, <2>3, <2>4
<1> QED BY <1>1, TableAlways, FlowAlways, PTL
=============================================================================
