-------------------------- MODULE MsgQueue_proofs --------------------------
(***************************************************************************)
(* However many clients and servers share the two queues, however large    *)
(* the queues are and whoever removes them when: every message has its     *)
(* type, and a client prints the reply to its own path, in order, without  *)
(* a gap, and all of it if it ends with the message of length 0.           *)
(***************************************************************************)
EXTENDS MsgQueue, SequenceTheorems, TLAPS

-----------------------------------------------------------------------------
(* The inductive invariant *)

\* How many data messages the reply to p takes, and the j-th message of the
\* answer to p, the last of which is the one of length 0.
Size(p) == IF p = "unreadable" THEN 1 ELSE Chunks
Part(p, j) == IF j <= Size(p) THEN <<p, j>> ELSE EOF

\* The place of a message in the answer to p.
Place(p, data) == IF data = EOF THEN Size(p) + 1 ELSE data[2]

Messages == [type : Clients, data : Paths \cup (Paths \X Nat) \cup {EOF}]

\* What is in the queue that a key names now.
Q(k) == IF key[k] = NoQueue THEN <<>> ELSE queue[key[k]]

\* Identifiers that a process holds: each was once given out, and if a key still
\* names the queue, it is the key that it was asked for with.
Holds(held, names, given) == /\ \A k \in Keys : held[k] <= given
                             /\ held["key1"] = names["key2"] => held["key1"] = NoQueue
                             /\ held["key2"] = names["key1"] => held["key2"] = NoQueue

KernelOK == /\ key \in [Keys -> Nat] /\ queue \in Seq(Seq(Messages))
            /\ \A id \in 1 .. Len(queue) : Len(queue[id]) <= QBytes
            /\ Holds(key, key, Len(queue))

BaseOK == /\ cpc \in [Clients -> {"off", "get2", "send", "receive", "rmid2", "rmid1", "exit"}]
          /\ ids \in [Clients -> [Keys -> Nat]] /\ path \in [Clients -> Paths]
          /\ printed \in [Clients -> Seq(Paths \X Nat)]
          /\ ended \in [Clients -> {"no", "EOF", "error"}]
          /\ spc \in {"off", "get2", "receive", "send", "exit"}
          /\ sids \in [Keys -> Nat]
          /\ offset \in 0 .. Chunks + 1 /\ servers \in 0 .. MaxServers

\* Only a client that has left its loop removes a queue.
ClientIds(c) == /\ Holds(ids[c], key, Len(queue))
                /\ cpc[c] # "off" => ids[c]["key1"] # NoQueue
                /\ cpc[c] \notin {"off", "get2"} => ids[c]["key2"] # NoQueue
                /\ ended[c] # "no" <=> cpc[c] \in {"rmid2", "rmid1", "exit"}
ServerIds == /\ Holds(sids, key, Len(queue))
             /\ spc # "off" => sids["key1"] # NoQueue
             /\ spc \notin {"off", "get2"} => sids["key2"] # NoQueue
RemovedOK == \A id \in 1 .. Len(queue) : Removed(id) => \E d \in Clients : ended[d] # "no"
IdsOK == ServerIds /\ RemovedOK /\ \A c \in Clients : ClientIds(c)

\* Queue q has a message for c, or from c.
Has(q, c) == \E n \in 1 .. Len(q) : q[n].type = c

\* The server answers c; c has not sent its path; its request has not been taken.
Serving(c) == spc = "send" /\ msg.type = c
Unsent(c) == cpc[c] \in {"off", "get2", "send"}
Fresh(c) == Unsent(c) \/ Has(Q("key1"), c)

\* There is at most one request of each client, with its path, and it is either
\* in the queue or with the server.
RequestsOK ==
    /\ \A n \in 1 .. Len(Q("key1")) : LET r == Q("key1")[n] IN ~Unsent(r.type) /\ r.data = path[r.type]
    /\ \A m, n \in 1 .. Len(Q("key1")) : Q("key1")[m].type = Q("key1")[n].type => m = n
ServingOK ==
    /\ spc = "send" => /\ msg \in Messages /\ ~Fresh(msg.type)
                       /\ msg.data = path[msg.type] /\ offset <= Size(msg.data)
    /\ spc \in {"get2", "receive"} => offset = 0

\* Nothing has been done for a client whose request has not been taken.
FreshOK(c) == Fresh(c) => printed[c] = <<>> /\ ~Has(Q("key2"), c)

\* The messages for c in q are the parts lo to hi of the answer to p, in order.
Covers(q, c, p, lo, hi) ==
    /\ \A n \in 1 .. Len(q) : q[n].type = c => /\ Place(p, q[n].data) \in lo .. hi
                                               /\ q[n].data = Part(p, Place(p, q[n].data))
    /\ \A j \in lo .. hi : \E n \in 1 .. Len(q) : q[n].type = c /\ Place(p, q[n].data) = j
    /\ \A m, n \in 1 .. Len(q) : q[m].type = c /\ q[n].type = c /\ m < n =>
           Place(p, q[m].data) < Place(p, q[n].data)

\* What a client finds in its queue goes on where it has stopped printing, up to
\* what the server has sent.
Attached(c) == key["key2"] # NoQueue /\ ids[c]["key2"] = key["key2"]
Flows(c, hi) == /\ Len(printed[c]) <= hi /\ hi <= Size(path[c]) + 1
                /\ Covers(Q("key2"), c, path[c], Len(printed[c]) + 1, hi)
                /\ Serving(c) /\ sids["key2"] = key["key2"] => hi = offset
FlowOK(c) == Attached(c) => \E hi \in Nat : Flows(c, hi)

\* What c has printed, and how it has ended.
OutputOK(c) == /\ Len(printed[c]) <= Size(path[c])
               /\ \A k \in 1 .. Len(printed[c]) : printed[c][k] = <<path[c], k>>
               /\ ended[c] = "EOF" => Len(printed[c]) = Size(path[c])
               /\ ended[c] = "error" => \E d \in Clients \ {c} : ended[d] # "no"

IndInv == /\ KernelOK /\ BaseOK /\ IdsOK /\ RequestsOK /\ ServingOK
          /\ \A c \in Clients : FreshOK(c) /\ FlowOK(c) /\ OutputOK(c)

-----------------------------------------------------------------------------
(* Sequences, and the parts of an answer *)

LEMMA RemoveFacts ==
  ASSUME NEW S, NEW q \in Seq(S), NEW n \in 1 .. Len(q)
  PROVE  /\ RemoveAt(q, n) \in Seq(S) /\ Len(RemoveAt(q, n)) = Len(q) - 1 /\ Len(q) \in Nat \ {0}
         /\ \A k \in 1 .. Len(q) - 1 : RemoveAt(q, n)[k] = IF k < n THEN q[k] ELSE q[k + 1]
<1> DEFINE a == SubSeq(q, 1, n - 1)
           b == SubSeq(q, n + 1, Len(q))
<1>1. Len(q) \in Nat \ {0} /\ n \in Nat /\ n >= 1 /\ n <= Len(q)
  OBVIOUS
<1>2. a \in Seq(S) /\ Len(a) = n - 1 /\ \A k \in 1 .. n - 1 : a[k] = q[k]
  BY <1>1
<1>3. b \in Seq(S) /\ Len(b) = Len(q) - n /\ \A k \in 1 .. Len(q) - n : b[k] = q[k + n]
  BY <1>1
<1>4. RemoveAt(q, n) = a \o b
  BY DEF RemoveAt
<1> HIDE DEF a, b
<1>5. /\ a \o b \in Seq(S) /\ Len(a \o b) = Len(a) + Len(b)
      /\ \A k \in 1 .. Len(a) + Len(b) : (a \o b)[k] = IF k <= Len(a) THEN a[k] ELSE b[k - Len(a)]
  BY <1>2, <1>3, ConcatProperties
<1>6. ASSUME NEW k \in 1 .. Len(q) - 1 PROVE (a \o b)[k] = IF k < n THEN q[k] ELSE q[k + 1]
  <2>1. (a \o b)[k] = IF k <= Len(a) THEN a[k] ELSE b[k - Len(a)]
    BY <1>1, <1>2, <1>3, <1>5
  <2>2. CASE k < n
    <3>1. k \in 1 .. n - 1 /\ k <= Len(a)
      BY <1>1, <1>2, <2>2
    <3> QED BY <1>2, <2>1, <2>2, <3>1
  <2>3. CASE ~(k < n)
    <3>1. ~(k <= Len(a)) /\ k - Len(a) \in 1 .. Len(q) - n /\ k - Len(a) + n = k + 1
      BY <1>1, <1>2, <2>3
    <3>2. b[k - Len(a)] = q[k + 1]
      BY <1>3, <3>1
    <3> QED BY <2>1, <2>3, <3>1, <3>2
  <2> QED BY <2>2, <2>3
<1>7. Len(a) + Len(b) = Len(q) - 1
  BY <1>1, <1>2, <1>3
<1> QED BY <1>1, <1>4, <1>5, <1>6, <1>7

LEMMA AppendFacts ==
  ASSUME NEW S, NEW q \in Seq(S), NEW x \in S
  PROVE  /\ Append(q, x) \in Seq(S) /\ Len(Append(q, x)) = Len(q) + 1 /\ Len(q) \in Nat
         /\ \A k \in 1 .. Len(q) : Append(q, x)[k] = q[k]
         /\ Append(q, x)[Len(q) + 1] = x
OBVIOUS

LEMMA SizeNat == ASSUME NEW p PROVE Size(p) \in Nat
BY SizesAssumption DEF Size

LEMMA PlaceOfPart ==
  ASSUME NEW p, NEW j \in 1 .. Size(p) + 1
  PROVE  Place(p, Part(p, j)) = j
<1>1. Size(p) \in Nat
  BY SizeNat
<1>2. <<p, j>> # <<>>
  <2>1. Len(<<p, j>>) = 2 /\ Len(<<>>) = 0
    OBVIOUS
  <2> QED BY <2>1
<1>3. CASE j <= Size(p)
  BY <1>1, <1>2, <1>3 DEF Place, Part, EOF
<1>4. CASE j = Size(p) + 1
  BY <1>1, <1>4 DEF Place, Part
<1> QED BY <1>1, <1>3, <1>4

\* A message for somebody else, added or taken out, makes no difference.
LEMMA CoversOther ==
  ASSUME NEW q \in Seq(Messages), NEW c, NEW p, NEW lo \in Nat, NEW hi \in Nat,
         Covers(q, c, p, lo, hi)
  PROVE  /\ \A x \in Messages : x.type # c => Covers(Append(q, x), c, p, lo, hi)
         /\ \A n \in 1 .. Len(q) : q[n].type # c => Covers(RemoveAt(q, n), c, p, lo, hi)
<1>1. ASSUME NEW x \in Messages, x.type # c PROVE Covers(Append(q, x), c, p, lo, hi)
  <2> DEFINE r == Append(q, x)
  <2>1. /\ Len(r) = Len(q) + 1 /\ Len(q) \in Nat /\ \A k \in 1 .. Len(q) : r[k] = q[k]
        /\ r[Len(q) + 1] = x
    BY AppendFacts
  <2> HIDE DEF r
  <2>2. \A k \in 1 .. Len(r) : r[k].type = c => k \in 1 .. Len(q) /\ r[k] = q[k]
    BY <1>1, <2>1
  <2>3. \A k \in 1 .. Len(q) : k \in 1 .. Len(r) /\ r[k] = q[k]
    BY <2>1
  <2>4. Covers(r, c, p, lo, hi)
    BY <2>2, <2>3 DEF Covers
  <2> QED BY <2>4 DEF r
<1>2. ASSUME NEW n \in 1 .. Len(q), q[n].type # c PROVE Covers(RemoveAt(q, n), c, p, lo, hi)
  <2> DEFINE r == RemoveAt(q, n)
             old(k) == IF k < n THEN k ELSE k + 1
  <2>1. /\ Len(r) = Len(q) - 1 /\ Len(q) \in Nat \ {0}
        /\ \A k \in 1 .. Len(q) - 1 : r[k] = IF k < n THEN q[k] ELSE q[k + 1]
    BY RemoveFacts
  <2> HIDE DEF r
  <2>2. \A k \in 1 .. Len(r) : old(k) \in 1 .. Len(q) /\ r[k] = q[old(k)]
    BY <2>1
  <2>3. \A k, m \in 1 .. Len(r) : k < m => old(k) < old(m)
    BY <2>1
  <2>4. \A m \in 1 .. Len(q) : m # n => \E k \in 1 .. Len(r) : old(k) = m
    <3> TAKE m \in 1 .. Len(q)
    <3>1. CASE m < n
      BY <2>1, <3>1
    <3>2. CASE m > n
      <4>1. m - 1 \in 1 .. Len(r) /\ old(m - 1) = m
        BY <2>1, <3>2
      <4> QED BY <4>1
    <3> QED BY <2>1, <3>1, <3>2
  <2> HIDE DEF old
  <2>5. Covers(r, c, p, lo, hi)
    <3>1. ASSUME NEW k \in 1 .. Len(r), r[k].type = c
          PROVE  Place(p, r[k].data) \in lo .. hi /\ r[k].data = Part(p, Place(p, r[k].data))
      BY <2>2, <3>1 DEF Covers
    <3>2. ASSUME NEW j \in lo .. hi PROVE \E k \in 1 .. Len(r) : r[k].type = c /\ Place(p, r[k].data) = j
      <4>1. PICK m \in 1 .. Len(q) : q[m].type = c /\ Place(p, q[m].data) = j
        BY DEF Covers
      <4>2. m # n
        BY <1>2, <4>1
      <4>3. PICK k \in 1 .. Len(r) : old(k) = m
        BY <2>4, <4>2
      <4> QED BY <2>2, <4>1, <4>3
    <3>3. ASSUME NEW k \in 1 .. Len(r), NEW m \in 1 .. Len(r), r[k].type = c, r[m].type = c, k < m
          PROVE  Place(p, r[k].data) < Place(p, r[m].data)
      <4>1. old(k) \in 1 .. Len(q) /\ old(m) \in 1 .. Len(q) /\ old(k) < old(m)
        BY <2>2, <2>3, <3>3
      <4> QED BY <2>2, <3>3, <4>1 DEF Covers
    <3> QED BY <3>1, <3>2, <3>3 DEF Covers
  <2> QED BY <2>5 DEF r
<1> QED BY <1>1, <1>2

\* The server sends the next part.
LEMMA CoversNext ==
  ASSUME NEW q \in Seq(Messages), NEW c \in Clients, NEW p, NEW lo \in Nat \ {0}, NEW hi \in Nat,
         lo <= hi + 1, hi <= Size(p), Covers(q, c, p, lo, hi),
         NEW x \in Messages, x.type = c, x.data = Part(p, hi + 1)
  PROVE  Covers(Append(q, x), c, p, lo, hi + 1)
<1> DEFINE r == Append(q, x)
           place(k) == Place(p, r[k].data)
<1>1. /\ Len(r) = Len(q) + 1 /\ Len(q) \in Nat /\ \A k \in 1 .. Len(q) : r[k] = q[k]
      /\ r[Len(q) + 1] = x
  BY AppendFacts
<1>2. Size(p) \in Nat
  BY SizeNat
<1>3. place(Len(q) + 1) = hi + 1
  <2>1. hi + 1 \in 1 .. Size(p) + 1
    BY <1>2
  <2> QED BY <1>1, <2>1, PlaceOfPart
<1> HIDE DEF r
<1>4. \A k \in 1 .. Len(q) : r[k].type = c =>
         place(k) \in lo .. hi /\ r[k].data = Part(p, place(k))
  BY <1>1 DEF Covers
<1>5. \A j \in lo .. hi : \E k \in 1 .. Len(q) : r[k].type = c /\ place(k) = j
  BY <1>1 DEF Covers
<1>6. \A k, m \in 1 .. Len(q) : r[k].type = c /\ r[m].type = c /\ k < m => place(k) < place(m)
  BY <1>1 DEF Covers
<1>7. r[Len(q) + 1].data = Part(p, place(Len(q) + 1)) /\ r[Len(q) + 1].type = c
  BY <1>1, <1>3
<1> HIDE DEF place
<1>8. ASSUME NEW k \in 1 .. Len(r), r[k].type = c
      PROVE  place(k) \in lo .. hi + 1 /\ r[k].data = Part(p, place(k))
  <2>1. CASE k \in 1 .. Len(q)
    BY <1>4, <1>8, <2>1
  <2>2. CASE k = Len(q) + 1
    BY <1>3, <1>7, <2>2
  <2> QED BY <1>1, <2>1, <2>2
<1>9. ASSUME NEW j \in lo .. hi + 1 PROVE \E k \in 1 .. Len(r) : r[k].type = c /\ place(k) = j
  <2>1. CASE j \in lo .. hi
    BY <1>1, <1>5, <2>1
  <2>2. CASE j = hi + 1
    <3>1. Len(q) + 1 \in 1 .. Len(r)
      BY <1>1
    <3> QED BY <1>3, <1>7, <2>2, <3>1
  <2> QED BY <2>1, <2>2
<1>10. ASSUME NEW k \in 1 .. Len(r), NEW m \in 1 .. Len(r), r[k].type = c, r[m].type = c, k < m
       PROVE  place(k) < place(m)
  <2>1. k \in 1 .. Len(q)
    BY <1>1, <1>10
  <2>2. CASE m \in 1 .. Len(q)
    BY <1>6, <1>10, <2>1, <2>2
  <2>3. CASE m = Len(q) + 1
    <3>1. place(k) \in lo .. hi /\ place(m) = hi + 1
      BY <1>3, <1>4, <1>10, <2>1, <2>3
    <3> QED BY <3>1
  <2> QED BY <1>1, <2>2, <2>3
<1>11. Covers(r, c, p, lo, hi + 1)
  BY <1>8, <1>9, <1>10 DEF Covers, place
<1> QED BY <1>11 DEF r

\* The first message for c is at position n.
IsFirst(q, n, c) == q[n].type = c /\ \A m \in 1 .. n - 1 : q[m].type # c

\* The client takes its first message, which is the part it is waiting for.
LEMMA CoversFirst ==
  ASSUME NEW q \in Seq(Messages), NEW c, NEW p, NEW lo \in Nat \ {0}, NEW hi \in Nat,
         Covers(q, c, p, lo, hi), NEW n \in 1 .. Len(q), IsFirst(q, n, c)
  PROVE  /\ lo <= hi /\ Place(p, q[n].data) = lo /\ q[n].data = Part(p, lo)
         /\ Covers(RemoveAt(q, n), c, p, lo + 1, hi)
<1> DEFINE r == RemoveAt(q, n)
           old(k) == IF k < n THEN k ELSE k + 1
           place(k) == Place(p, q[k].data)
<1>0. q[n].type = c /\ \A m \in 1 .. n - 1 : q[m].type # c
  BY DEF IsFirst
<1>1. /\ Len(r) = Len(q) - 1 /\ Len(q) \in Nat \ {0}
      /\ \A k \in 1 .. Len(q) - 1 : r[k] = IF k < n THEN q[k] ELSE q[k + 1]
  BY RemoveFacts
<1>2. \A k \in 1 .. Len(q) : q[k].type = c => place(k) \in lo .. hi /\ q[k].data = Part(p, place(k))
  BY DEF Covers
<1>3. \A j \in lo .. hi : \E k \in 1 .. Len(q) : q[k].type = c /\ place(k) = j
  BY DEF Covers
<1>4. \A k, m \in 1 .. Len(q) : q[k].type = c /\ q[m].type = c /\ k < m => place(k) < place(m)
  BY DEF Covers
<1> HIDE DEF r, place
<1>5. lo <= hi /\ place(n) = lo /\ q[n].data = Part(p, lo)
  <2>1. place(n) \in lo .. hi /\ q[n].data = Part(p, place(n))
    BY <1>0, <1>2
  <2>2. PICK k \in 1 .. Len(q) : q[k].type = c /\ place(k) = lo
    BY <1>3, <2>1
  <2>3. ~(k < n)
    BY <1>0, <1>1, <2>2
  <2>4. ~(n < k)
    BY <1>0, <1>4, <2>1, <2>2
  <2>5. k = n
    BY <1>1, <2>3, <2>4
  <2> QED BY <2>1, <2>2, <2>5
<1>6. \A k \in 1 .. Len(r) : old(k) \in 1 .. Len(q) /\ r[k] = q[old(k)] /\ old(k) # n
  BY <1>1
<1>7. \A k, m \in 1 .. Len(r) : k < m => old(k) < old(m)
  BY <1>1
<1>8. \A m \in 1 .. Len(q) : m # n => \E k \in 1 .. Len(r) : old(k) = m
  <2> TAKE m \in 1 .. Len(q)
  <2>1. CASE m < n
    BY <1>1, <2>1
  <2>2. CASE m > n
    <3>1. m - 1 \in 1 .. Len(r) /\ old(m - 1) = m
      BY <1>1, <2>2
    <3> QED BY <3>1
  <2> QED BY <1>1, <2>1, <2>2
<1>9. \A k \in 1 .. Len(q) : q[k].type = c /\ k # n => place(k) \in lo + 1 .. hi
  <2> SUFFICES ASSUME NEW k \in 1 .. Len(q), q[k].type = c, k # n PROVE place(k) \in lo + 1 .. hi
    OBVIOUS
  <2>1. n < k
    BY <1>0, <1>1
  <2>2. place(n) < place(k) /\ place(k) \in lo .. hi
    BY <1>0, <1>2, <1>4, <2>1
  <2> QED BY <1>5, <2>2
<1> HIDE DEF old
<1>10. ASSUME NEW k \in 1 .. Len(r), r[k].type = c
       PROVE  place(old(k)) \in lo + 1 .. hi /\ r[k].data = Part(p, place(old(k)))
  BY <1>2, <1>6, <1>9, <1>10
<1>11. ASSUME NEW j \in lo + 1 .. hi PROVE \E k \in 1 .. Len(r) : r[k].type = c /\ place(old(k)) = j
  <2>1. j \in lo .. hi /\ j # lo
    OBVIOUS
  <2>2. PICK m \in 1 .. Len(q) : q[m].type = c /\ place(m) = j
    BY <1>3, <2>1
  <2>3. m # n
    BY <1>5, <2>1, <2>2
  <2>4. PICK k \in 1 .. Len(r) : old(k) = m
    BY <1>8, <2>3
  <2> QED BY <1>6, <2>2, <2>4
<1>12. ASSUME NEW k \in 1 .. Len(r), NEW m \in 1 .. Len(r), r[k].type = c, r[m].type = c, k < m
       PROVE  place(old(k)) < place(old(m))
  BY <1>4, <1>6, <1>7, <1>12
<1>13. \A k \in 1 .. Len(r) : place(old(k)) = Place(p, r[k].data)
  BY <1>6 DEF place
<1>14. Covers(r, c, p, lo + 1, hi)
  BY <1>10, <1>11, <1>12, <1>13 DEF Covers
<1> QED BY <1>5, <1>14 DEF r, place

-----------------------------------------------------------------------------
(* What the kernel's operations do to the queues that the keys name *)

LEMMA KernelFacts ==
  ASSUME KernelOK
  PROVE  /\ Len(queue) \in Nat
         /\ \A id \in 1 .. Len(queue) : queue[id] \in Seq(Messages) /\ Len(queue[id]) <= QBytes
         /\ \A k \in Keys : /\ key[k] \in Nat /\ key[k] <= Len(queue)
                            /\ Q(k) \in Seq(Messages)
                            /\ \A j \in Keys \ {k} : key[j] = key[k] => key[k] = NoQueue
<1>1. /\ Len(queue) \in Nat
      /\ \A id \in 1 .. Len(queue) : queue[id] \in Seq(Messages) /\ Len(queue[id]) <= QBytes
  BY DEF KernelOK
<1>2. \A k \in Keys : /\ key[k] \in Nat /\ key[k] <= Len(queue)
                      /\ \A j \in Keys \ {k} : key[j] = key[k] => key[k] = NoQueue
  BY DEF KernelOK, Holds, Keys
<1>3. \A k \in Keys : Q(k) \in Seq(Messages)
  BY <1>1, <1>2, EmptySeq DEF Q, NoQueue
<1> QED BY <1>1, <1>2, <1>3

\* msgget
LEMMA GetStep ==
  ASSUME KernelOK, NEW k \in Keys, msgget(k)
  PROVE  /\ KernelOK'
         /\ Len(queue) \in Nat /\ Len(queue') \in Nat /\ Len(queue) <= Len(queue')
         /\ \A j \in Keys : Q(j)' = Q(j)
         /\ Id(k) \in Nat \ {0} /\ key'[k] = Id(k) /\ \A j \in Keys \ {k} : key'[j] = key[j]
         /\ key[k] # NoQueue => key' = key
         /\ key[k] = NoQueue => Id(k) > Len(queue)
         /\ \A held \in [Keys -> Nat] : Holds(held, key, Len(queue)) =>
              /\ Holds(held, key', Len(queue'))
              /\ Holds([held EXCEPT ![k] = Id(k)], key', Len(queue'))
         /\ \A id \in 1 .. Len(queue') : Removed(id)' => id \in 1 .. Len(queue) /\ Removed(id)
<1>0. /\ key \in [Keys -> Nat] /\ key' = [key EXCEPT ![k] = Id(k)]
      /\ queue' = IF key[k] = NoQueue THEN Append(queue, <<>>) ELSE queue
      /\ queue \in Seq(Seq(Messages))
  BY DEF KernelOK, msgget
<1>1. /\ Len(queue) \in Nat
      /\ \A id \in 1 .. Len(queue) : queue[id] \in Seq(Messages) /\ Len(queue[id]) <= QBytes
      /\ \A j \in Keys : /\ key[j] \in Nat /\ key[j] <= Len(queue)
                         /\ \A i \in Keys \ {j} : key[i] = key[j] => key[j] = NoQueue
  BY KernelFacts
<1>2. CASE key[k] # NoQueue
  <2>1. key' = key /\ queue' = queue /\ Id(k) = key[k]
    BY <1>0, <1>2 DEF Id
  <2>2. KernelOK'
    BY <2>1 DEF KernelOK
  <2>3. \A j \in Keys : Q(j)' = Q(j)
    BY <2>1 DEF Q
  <2>4. ASSUME NEW held \in [Keys -> Nat], Holds(held, key, Len(queue))
        PROVE  Holds([held EXCEPT ![k] = Id(k)], key', Len(queue'))
    <3>1. \A j \in Keys : [held EXCEPT ![k] = Id(k)][j] = IF j = k THEN key[k] ELSE held[j]
      BY <2>1
    <3> QED BY <1>1, <2>1, <2>4, <3>1 DEF Holds, Keys
  <2>5. \A id \in 1 .. Len(queue') : Removed(id)' => id \in 1 .. Len(queue) /\ Removed(id)
    BY <2>1 DEF Removed
  <2>6. /\ Len(queue') \in Nat /\ Len(queue) <= Len(queue') /\ Id(k) \in Nat \ {0}
    BY <1>1, <1>2, <2>1 DEF NoQueue
  <2>7. \A held \in [Keys -> Nat] : Holds(held, key, Len(queue)) => Holds(held, key', Len(queue'))
    BY <2>1
  <2> QED BY <1>1, <1>2, <2>1, <2>2, <2>3, <2>4, <2>5, <2>6, <2>7
<1>3. CASE key[k] = NoQueue
  <2> DEFINE new == Len(queue) + 1
  <2>1. /\ Id(k) = new /\ queue' = Append(queue, <<>>) /\ new \in Nat \ {0} /\ new > Len(queue)
        /\ <<>> \in Seq(Messages)
    BY <1>0, <1>1, <1>3 DEF Id
  <2>2. /\ queue' \in Seq(Seq(Messages)) /\ Len(queue') = new
        /\ \A id \in 1 .. Len(queue) : queue'[id] = queue[id]
        /\ queue'[new] = <<>>
    BY <1>0, <2>1, AppendFacts
  <2>3. \A j \in Keys : key'[j] = IF j = k THEN new ELSE key[j]
    BY <1>0, <2>1
  <2> HIDE DEF new
  <2>4. ASSUME NEW j \in Keys PROVE Q(j)' = Q(j)
    <3>1. CASE j = k
      BY <1>3, <2>1, <2>2, <2>3, <3>1 DEF Q, NoQueue
    <3>2. CASE j # k
      BY <1>1, <2>2, <2>3, <3>2 DEF Q, NoQueue
    <3> QED BY <3>1, <3>2
  <2>5. ASSUME NEW held \in [Keys -> Nat], Holds(held, key, Len(queue))
        PROVE  /\ Holds(held, key', Len(queue'))
               /\ Holds([held EXCEPT ![k] = Id(k)], key', Len(queue'))
    <3>1. \A j \in Keys : [held EXCEPT ![k] = Id(k)][j] = IF j = k THEN new ELSE held[j]
      BY <2>1
    <3>2. \A j \in Keys : held[j] \in Nat /\ held[j] <= Len(queue)
      BY <2>5 DEF Holds
    <3>3. Holds(held, key', Len(queue'))
      BY <1>1, <2>1, <2>2, <2>3, <2>5, <3>2 DEF Holds, Keys
    <3>4. Holds([held EXCEPT ![k] = Id(k)], key', Len(queue'))
      BY <1>1, <2>1, <2>2, <2>3, <2>5, <3>1, <3>2 DEF Holds, Keys
    <3> QED BY <3>3, <3>4
  <2>6. KernelOK'
    <3>1. key' = [key EXCEPT ![k] = Id(k)] /\ key' \in [Keys -> Nat]
      BY <1>0, <2>1
    <3>2. Holds(key, key, Len(queue))
      BY DEF KernelOK
    <3>3. Holds(key', key', Len(queue'))
      BY <1>0, <2>5, <3>1, <3>2
    <3>4. Len(<<>>) <= QBytes
      BY SizesAssumption
    <3>5. \A id \in 1 .. Len(queue') : Len(queue'[id]) <= QBytes
      BY <1>1, <2>1, <2>2, <3>4 DEF new
    <3> QED BY <2>2, <3>1, <3>3, <3>5 DEF KernelOK
  <2>7. \A id \in 1 .. Len(queue') : Removed(id)' => id \in 1 .. Len(queue) /\ Removed(id)
    <3> SUFFICES ASSUME NEW id \in 1 .. Len(queue'), Removed(id)'
                 PROVE  id \in 1 .. Len(queue) /\ Removed(id)
      OBVIOUS
    <3>1. id # new
      BY <2>3 DEF Removed
    <3>2. id \in 1 .. Len(queue) /\ id # NoQueue
      BY <1>1, <2>2, <3>1 DEF new, NoQueue
    <3>3. \A j \in Keys : key[j] # id
      BY <1>3, <2>3, <3>2 DEF Removed
    <3> QED BY <3>2, <3>3 DEF Removed
  <2>8. /\ Len(queue') \in Nat /\ Len(queue) <= Len(queue') /\ Id(k) \in Nat \ {0}
        /\ Id(k) > Len(queue) /\ key'[k] = Id(k) /\ \A j \in Keys \ {k} : key'[j] = key[j]
    BY <1>1, <2>1, <2>2, <2>3
  <2> QED BY <1>1, <1>3, <2>4, <2>5, <2>6, <2>7, <2>8
<1> QED BY <1>2, <1>3

\* The queue of an identifier that is held, as long as it is not removed.
LEMMA LiveId ==
  ASSUME KernelOK, NEW k \in Keys, NEW held \in [Keys -> Nat],
         Holds(held, key, Len(queue)), held[k] # NoQueue
  PROVE  /\ held[k] \in 1 .. Len(queue)
         /\ \A j \in Keys \ {k} : key[j] # held[k]
         /\ Removed(held[k]) <=> held[k] # key[k]
         /\ ~Removed(held[k]) => Q(k) = queue[held[k]]
<1>1. /\ Len(queue) \in Nat /\ held[k] \in Nat /\ held[k] <= Len(queue)
      /\ \A j \in Keys \ {k} : key[j] # held[k]
  BY KernelFacts DEF Holds, Keys
<1>2. held[k] \in 1 .. Len(queue)
  BY <1>1 DEF NoQueue
<1>3. Removed(held[k]) <=> held[k] # key[k]
  BY <1>1 DEF Removed
<1> QED BY <1>1, <1>2, <1>3 DEF Q

\* One queue changes.
LEMMA QueueStep ==
  ASSUME KernelOK, NEW id \in 1 .. Len(queue), NEW q \in Seq(Messages), Len(q) <= QBytes,
         queue' = [queue EXCEPT ![id] = q]
  PROVE  /\ queue' \in Seq(Seq(Messages)) /\ Len(queue') = Len(queue)
         /\ queue'[id] = q /\ \A d \in 1 .. Len(queue) : d # id => queue'[d] = queue[d]
         /\ \A d \in 1 .. Len(queue') : Len(queue'[d]) <= QBytes
<1>1. queue \in Seq(Seq(Messages)) /\ \A d \in 1 .. Len(queue) : Len(queue[d]) <= QBytes
  BY DEF KernelOK
<1>2. queue' \in Seq(Seq(Messages)) /\ Len(queue') = Len(queue)
  BY <1>1, ExceptSeq
<1>3. queue'[id] = q /\ \A d \in 1 .. Len(queue) : d # id => queue'[d] = queue[d]
  BY <1>1
<1> QED BY <1>1, <1>2, <1>3

LEMMA NamedStep ==
  ASSUME KernelOK, NEW k \in Keys, key[k] # NoQueue, NEW q \in Seq(Messages), Len(q) <= QBytes,
         queue' = [queue EXCEPT ![key[k]] = q], UNCHANGED key
  PROVE  /\ KernelOK' /\ Len(queue') = Len(queue)
         /\ Q(k)' = q /\ \A j \in Keys \ {k} : Q(j)' = Q(j)
<1>1. /\ key[k] \in 1 .. Len(queue)
      /\ \A j \in Keys \ {k} : key[j] # NoQueue => key[j] \in 1 .. Len(queue) /\ key[j] # key[k]
  BY KernelFacts DEF NoQueue
<1>2. /\ queue' \in Seq(Seq(Messages)) /\ Len(queue') = Len(queue)
      /\ queue'[key[k]] = q /\ \A d \in 1 .. Len(queue) : d # key[k] => queue'[d] = queue[d]
      /\ \A d \in 1 .. Len(queue') : Len(queue'[d]) <= QBytes
  BY <1>1, QueueStep
<1>3. KernelOK'
  BY <1>2 DEF KernelOK
<1>4. Q(k)' = q
  BY <1>2 DEF Q
<1>5. \A j \in Keys \ {k} : Q(j)' = Q(j)
  BY <1>1, <1>2 DEF Q
<1> QED BY <1>2, <1>3, <1>4, <1>5

\* msgsnd
LEMMA SendStep ==
  ASSUME KernelOK, NEW k \in Keys, NEW held \in [Keys -> Nat],
         Holds(held, key, Len(queue)), held[k] # NoQueue,
         NEW m \in Messages, msgsnd(held[k], m), UNCHANGED key
  PROVE  /\ KernelOK' /\ Len(queue') = Len(queue)
         /\ \A j \in Keys \ {k} : Q(j)' = Q(j)
         /\ Q(k)' = IF held[k] = key[k] THEN Append(Q(k), m) ELSE Q(k)
<1>1. /\ held[k] \in 1 .. Len(queue) /\ (Removed(held[k]) <=> held[k] # key[k])
      /\ ~Removed(held[k]) => Q(k) = queue[held[k]]
  BY LiveId
<1>2. CASE Removed(held[k])
  <2>1. queue' = queue
    BY <1>2 DEF msgsnd
  <2> QED BY <1>1, <1>2, <2>1 DEF KernelOK, Q
<1>3. CASE ~Removed(held[k])
  <2>1. /\ Len(Q(k)) < QBytes /\ queue' = [queue EXCEPT ![held[k]] = Append(@, m)]
        /\ held[k] = key[k] /\ Q(k) = queue[held[k]]
    BY <1>1, <1>3 DEF msgsnd
  <2>2. Q(k) \in Seq(Messages)
    BY KernelFacts
  <2>3. /\ Append(Q(k), m) \in Seq(Messages)
        /\ Len(Append(Q(k), m)) = Len(Q(k)) + 1 /\ Len(Q(k)) \in Nat
    BY <2>2, AppendFacts
  <2>4. Len(Append(Q(k), m)) <= QBytes
    BY <2>1, <2>3, SizesAssumption
  <2>5. queue' = [queue EXCEPT ![key[k]] = Append(Q(k), m)]
    BY <2>1
  <2>6. /\ KernelOK' /\ Len(queue') = Len(queue)
        /\ Q(k)' = Append(Q(k), m) /\ \A j \in Keys \ {k} : Q(j)' = Q(j)
    BY <2>1, <2>3, <2>4, <2>5, NamedStep
  <2> QED BY <2>1, <2>6
<1> QED BY <1>2, <1>3

\* msgrcv
LEMMA TakeStep ==
  ASSUME KernelOK, NEW k \in Keys, NEW held \in [Keys -> Nat],
         Holds(held, key, Len(queue)), held[k] # NoQueue, ~Removed(held[k]),
         NEW n \in 1 .. Len(Q(k)), Take(held[k], n), UNCHANGED key
  PROVE  /\ KernelOK' /\ Len(queue') = Len(queue)
         /\ Q(k)' = RemoveAt(Q(k), n) /\ \A j \in Keys \ {k} : Q(j)' = Q(j)
<1>1. held[k] \in 1 .. Len(queue) /\ held[k] = key[k] /\ Q(k) = queue[held[k]]
  BY LiveId
<1>2. Q(k) \in Seq(Messages) /\ Len(queue[held[k]]) <= QBytes
  BY <1>1, KernelFacts
<1>3. /\ RemoveAt(Q(k), n) \in Seq(Messages) /\ Len(RemoveAt(Q(k), n)) = Len(Q(k)) - 1
      /\ Len(Q(k)) \in Nat
  BY <1>2, RemoveFacts
<1>4. Len(RemoveAt(Q(k), n)) <= QBytes
  BY <1>1, <1>2, <1>3, SizesAssumption
<1>5. queue' = [queue EXCEPT ![key[k]] = RemoveAt(Q(k), n)]
  BY <1>1 DEF Take
<1> QED BY <1>1, <1>3, <1>4, <1>5, NamedStep

\* msgctl(IPC_RMID)
LEMMA RmidStep ==
  ASSUME KernelOK, NEW k \in Keys, NEW held \in [Keys -> Nat],
         Holds(held, key, Len(queue)), held[k] # NoQueue, RMID(held[k])
  PROVE  /\ KernelOK' /\ Len(queue') = Len(queue)
         /\ \A j \in Keys \ {k} : Q(j)' = Q(j) /\ key'[j] = key[j]
         /\ \/ Q(k)' = Q(k) /\ key'[k] = key[k]
            \/ Q(k)' = <<>> /\ key'[k] = NoQueue
         /\ \A h \in [Keys -> Nat] : Holds(h, key, Len(queue)) => Holds(h, key', Len(queue'))
<1>1. /\ held[k] \in 1 .. Len(queue) /\ \A j \in Keys \ {k} : key[j] # held[k]
  BY LiveId
<1>2. \A j \in Keys : key'[j] = IF key[j] = held[k] THEN NoQueue ELSE key[j]
  BY DEF RMID
<1>3. <<>> \in Seq(Messages) /\ Len(<<>>) <= QBytes
  BY SizesAssumption
<1>4. queue' = [queue EXCEPT ![held[k]] = <<>>]
  BY DEF RMID
<1>5. /\ queue' \in Seq(Seq(Messages)) /\ Len(queue') = Len(queue)
      /\ \A d \in 1 .. Len(queue) : d # held[k] => queue'[d] = queue[d]
      /\ \A d \in 1 .. Len(queue') : Len(queue'[d]) <= QBytes
  BY <1>1, <1>3, <1>4, QueueStep
<1>6. \A j \in Keys : key[j] # NoQueue => key[j] \in 1 .. Len(queue)
  BY KernelFacts DEF NoQueue
<1>7. \A j \in Keys : key[j] # held[k] => key'[j] = key[j] /\ Q(j)' = Q(j)
  BY <1>2, <1>5, <1>6 DEF Q
<1>8. key[k] = held[k] => key'[k] = NoQueue /\ Q(k)' = <<>>
  BY <1>2 DEF Q
<1>9. \A h \in [Keys -> Nat] : Holds(h, key, Len(queue)) => Holds(h, key', Len(queue'))
  BY <1>2, <1>5 DEF Holds, Keys
<1>10. KernelOK'
  <2>1. key' \in [Keys -> Nat] /\ Holds(key', key', Len(queue'))
    <3>1. key' = [j \in Keys |-> IF key[j] = held[k] THEN NoQueue ELSE key[j]]
      BY DEF RMID
    <3>2. key \in [Keys -> Nat] /\ Len(queue) \in Nat
      BY DEF KernelOK
    <3>3. key' \in [Keys -> Nat]
      BY <3>1, <3>2 DEF NoQueue
    <3>4. \A j \in Keys : key[j] <= Len(queue)
      BY KernelFacts
    <3>5. key["key1"] = key["key2"] => key["key1"] = NoQueue
      BY DEF KernelOK, Holds
    <3> QED BY <1>2, <1>5, <3>2, <3>3, <3>4, <3>5 DEF Holds, NoQueue, Keys
  <2> QED BY <1>5, <2>1 DEF KernelOK
<1> QED BY <1>1, <1>5, <1>7, <1>8, <1>9, <1>10

-----------------------------------------------------------------------------
(* The steps of clients *)

LEMMA BaseFacts ==
  ASSUME IndInv, NEW c \in Clients
  PROVE  /\ ids[c] \in [Keys -> Nat] /\ path[c] \in Paths /\ printed[c] \in Seq(Paths \X Nat)
         /\ Len(printed[c]) \in Nat /\ Size(path[c]) \in Nat
         /\ Holds(ids[c], key, Len(queue)) /\ ClientIds(c)
         /\ FreshOK(c) /\ FlowOK(c) /\ OutputOK(c)
         /\ Q("key1") \in Seq(Messages) /\ Q("key2") \in Seq(Messages)
         /\ "key1" \in Keys /\ "key2" \in Keys
<1>1. /\ ids[c] \in [Keys -> Nat] /\ path[c] \in Paths /\ printed[c] \in Seq(Paths \X Nat)
  BY DEF IndInv, BaseOK
<1>2. Len(printed[c]) \in Nat /\ Size(path[c]) \in Nat
  BY <1>1, SizeNat
<1>3. "key1" \in Keys /\ "key2" \in Keys
  BY DEF Keys
<1>4. Q("key1") \in Seq(Messages) /\ Q("key2") \in Seq(Messages)
  BY <1>3, KernelFacts DEF IndInv
<1> QED BY <1>1, <1>2, <1>3, <1>4 DEF IndInv, IdsOK, ClientIds

\* What the others print does not change when a client ends.
LEMMA OutputKept ==
  ASSUME NEW d \in Clients, OutputOK(d),
         printed'[d] = printed[d], path'[d] = path[d], ended'[d] = ended[d],
         \A e \in Clients : ended[e] # "no" => ended'[e] # "no"
  PROVE  OutputOK(d)'
BY DEF OutputOK

\* A step of client c: what it must show for c and for the queues, the rest stays.
LEMMA ClientStep ==
  ASSUME IndInv, NEW c \in Clients, UNCHANGED serverVars,
         \A d \in Clients \ {c} : /\ cpc'[d] = cpc[d] /\ ids'[d] = ids[d] /\ path'[d] = path[d]
                                  /\ printed'[d] = printed[d] /\ ended'[d] = ended[d],
         ended[c] # "no" => ended'[c] # "no",
         KernelOK', BaseOK', RemovedOK', ClientIds(c)', RequestsOK',
         \A h \in [Keys -> Nat] : Holds(h, key, Len(queue)) => Holds(h, key', Len(queue')),
         \A d \in Clients : Fresh(d)' => Fresh(d),
         ~Unsent(c) => path'[c] = path[c],
         key'["key2"] # key["key2"] => \A h \in [Keys -> Nat] :
             Holds(h, key, Len(queue)) /\ key'["key2"] # NoQueue => h["key2"] # key'["key2"],
         \A d \in Clients \ {c} :
             /\ Has(Q("key2")', d) => Has(Q("key2"), d)
             /\ \A lo, hi \in Nat : key'["key2"] # NoQueue /\ Covers(Q("key2"), d, path[d], lo, hi) =>
                                      Covers(Q("key2")', d, path[d], lo, hi),
         FreshOK(c)', FlowOK(c)', OutputOK(c)'
  PROVE  IndInv'
<1>0. /\ spc' = spc /\ sids' = sids /\ msg' = msg /\ offset' = offset
      /\ sids \in [Keys -> Nat] /\ Holds(sids, key, Len(queue))
  BY DEF serverVars, IndInv, BaseOK, IdsOK, ServerIds
<1>1. ServerIds'
  <2>1. Holds(sids, key', Len(queue'))
    BY <1>0
  <2> QED BY <1>0, <2>1 DEF IndInv, IdsOK, ServerIds
<1>2. ASSUME NEW d \in Clients \ {c} PROVE ClientIds(d)'
  <2>1. Holds(ids[d], key', Len(queue')) /\ ClientIds(d)
    BY BaseFacts
  <2> QED BY <2>1 DEF ClientIds
<1>3. IdsOK'
  BY <1>1, <1>2 DEF IdsOK
<1>4. ServingOK'
  <2>1. spc = "send" => msg \in Messages /\ msg.type \in Clients /\ ~Fresh(msg.type) /\ ~Unsent(msg.type)
    BY DEF IndInv, ServingOK, Messages, Fresh
  <2>2. spc = "send" => path'[msg.type] = path[msg.type] /\ ~Fresh(msg.type)'
    BY <1>0, <2>1
  <2> QED BY <1>0, <2>1, <2>2 DEF IndInv, ServingOK, Fresh, Unsent
<1>5. ASSUME NEW d \in Clients \ {c} PROVE FreshOK(d)' /\ FlowOK(d)' /\ OutputOK(d)'
  <2>0. /\ FreshOK(d) /\ FlowOK(d) /\ OutputOK(d) /\ ids[d] \in [Keys -> Nat]
        /\ Holds(ids[d], key, Len(queue)) /\ Len(printed[d]) \in Nat
    BY BaseFacts
  <2>1. FreshOK(d)'
    BY <2>0 DEF FreshOK
  <2>2. FlowOK(d)'
    <3> SUFFICES ASSUME Attached(d)' PROVE \E hi \in Nat : Flows(d, hi)'
      BY DEF FlowOK
    <3>1. key'["key2"] = key["key2"] /\ Attached(d)
      BY <2>0 DEF Attached
    <3>2. PICK hi \in Nat : Flows(d, hi)
      BY <2>0, <3>1 DEF FlowOK
    <3>3. Covers(Q("key2")', d, path[d], Len(printed[d]) + 1, hi)
      BY <2>0, <3>2 DEF Flows, Attached
    <3>4. Serving(d)' /\ sids'["key2"] = key'["key2"] => hi = offset'
      BY <1>0, <3>1, <3>2 DEF Flows, Serving
    <3>5. Flows(d, hi)'
      BY <3>2, <3>3, <3>4 DEF Flows
    <3> QED BY <3>5
  <2>3. OutputOK(d)'
    <3>1. \A e \in Clients : ended[e] # "no" => ended'[e] # "no"
      OBVIOUS
    <3> QED BY <2>0, <3>1, OutputKept
  <2> QED BY <2>1, <2>2, <2>3
<1> QED BY <1>3, <1>4, <1>5 DEF IndInv

\* Where the clients are in their programs.
LEMMA GotoFacts ==
  ASSUME IndInv, NEW c \in Clients, NEW from, NEW to, ClientGoto(c, from, to),
         to \in {"get2", "send", "receive", "rmid2", "rmid1", "exit"}
  PROVE  /\ cpc[c] = from /\ cpc'[c] = to /\ \A d \in Clients \ {c} : cpc'[d] = cpc[d]
         /\ cpc' \in [Clients -> {"off", "get2", "send", "receive", "rmid2", "rmid1", "exit"}]
         /\ UNCHANGED serverVars /\ UNCHANGED <<spc, sids, msg, offset, servers>>
BY DEF ClientGoto, IndInv, BaseOK, serverVars

\* Requests that stay where they are.
LEMMA RequestsKept ==
  ASSUME IndInv, Q("key1")' \in {Q("key1"), <<>>},
         \A d \in Clients : ~Unsent(d) => ~Unsent(d)' /\ path'[d] = path[d]
  PROVE  /\ RequestsOK'
         /\ \A d \in Clients : (Unsent(d)' => Unsent(d)) => (Fresh(d)' => Fresh(d))
<1>1. CASE Q("key1")' = Q("key1")
  <2>1. "key1" \in Keys /\ Q("key1") \in Seq(Messages)
    BY KernelFacts DEF IndInv, Keys
  <2>2. \A n \in 1 .. Len(Q("key1")) : Q("key1")[n].type \in Clients
    <3>1. \A n \in 1 .. Len(Q("key1")) : Q("key1")[n] \in Messages
      BY <2>1
    <3> QED BY <3>1 DEF Messages
  <2>3. RequestsOK'
    BY <1>1, <2>2 DEF IndInv, RequestsOK
  <2> QED BY <1>1, <2>3 DEF Fresh
<1>2. CASE Q("key1")' = <<>>
  <2>1. Len(Q("key1")') = 0
    BY <1>2
  <2> QED BY <2>1 DEF RequestsOK, Fresh, Has
<1> QED BY <1>1, <1>2

\* A client for which nothing was done finds nothing.
LEMMA EmptyFlow ==
  ASSUME NEW q \in Seq(Messages), NEW c, ~Has(q, c), NEW p
  PROVE  Covers(q, c, p, 1, 0)
BY DEF Covers, Has

LEMMA GetInd ==
  ASSUME IndInv, NEW c \in Clients, NEW k \in Keys, NEW from, NEW to, ClientGet(c, from, k, to),
         <<from, k, to>> \in {<<"off", "key1", "get2">>, <<"get2", "key2", "send">>}
  PROVE  IndInv'
<1>0. /\ ClientGoto(c, from, to) /\ msgget(k) /\ ids' = [ids EXCEPT ![c][k] = Id(k)]
      /\ UNCHANGED <<path, printed, ended>> /\ KernelOK
      /\ from \in {"off", "get2"} /\ to \in {"get2", "send"} /\ (to = "send" => from = "get2" /\ k = "key2")
      /\ (to = "get2" => from = "off" /\ k = "key1")
  BY DEF ClientGet, IndInv
<1>1. /\ cpc[c] = from /\ cpc'[c] = to /\ \A d \in Clients \ {c} : cpc'[d] = cpc[d]
      /\ cpc' \in [Clients -> {"off", "get2", "send", "receive", "rmid2", "rmid1", "exit"}]
      /\ UNCHANGED serverVars /\ UNCHANGED <<spc, sids, msg, offset, servers>>
  BY <1>0, GotoFacts
<1>2. /\ KernelOK'
      /\ Len(queue) \in Nat /\ Len(queue') \in Nat /\ Len(queue) <= Len(queue')
      /\ \A j \in Keys : Q(j)' = Q(j)
      /\ Id(k) \in Nat \ {0} /\ key'[k] = Id(k) /\ \A j \in Keys \ {k} : key'[j] = key[j]
      /\ key[k] # NoQueue => key' = key
      /\ key[k] = NoQueue => Id(k) > Len(queue)
      /\ \A id \in 1 .. Len(queue') : Removed(id)' => id \in 1 .. Len(queue) /\ Removed(id)
  BY <1>0, GetStep
<1>3. \A held \in [Keys -> Nat] : Holds(held, key, Len(queue)) =>
              /\ Holds(held, key', Len(queue'))
              /\ Holds([held EXCEPT ![k] = Id(k)], key', Len(queue'))
  BY <1>0, GetStep
<1>4. /\ ids[c] \in [Keys -> Nat] /\ Holds(ids[c], key, Len(queue)) /\ ClientIds(c)
      /\ FreshOK(c) /\ OutputOK(c) /\ Q("key2") \in Seq(Messages) /\ "key1" \in Keys /\ "key2" \in Keys
      /\ Size(path[c]) \in Nat
  BY BaseFacts
<1>5. /\ ids'[c] = [ids[c] EXCEPT ![k] = Id(k)] /\ \A d \in Clients \ {c} : ids'[d] = ids[d]
      /\ ids' \in [Clients -> [Keys -> Nat]]
  BY <1>0, <1>2, <1>4 DEF IndInv, BaseOK
<1>6. BaseOK'
  BY <1>0, <1>1, <1>5 DEF IndInv, BaseOK
<1>7. RemovedOK'
  BY <1>0, <1>2 DEF IndInv, IdsOK, RemovedOK
<1>8. ClientIds(c)'
  <2>1. Holds(ids'[c], key', Len(queue'))
    BY <1>3, <1>4, <1>5
  <2>2. ids'[c]["key1"] # NoQueue /\ (to = "send" => ids'[c]["key2"] # NoQueue)
    BY <1>0, <1>1, <1>2, <1>4, <1>5 DEF ClientIds, NoQueue, Keys
  <2>3. ended'[c] = "no"
    BY <1>0, <1>1, <1>4 DEF ClientIds
  <2> QED BY <1>0, <1>1, <2>1, <2>2, <2>3 DEF ClientIds
<1>9. \A d \in Clients : (Unsent(d)' <=> Unsent(d))
  BY <1>0, <1>1 DEF Unsent
<1>10. RequestsOK' /\ \A d \in Clients : Fresh(d)' => Fresh(d)
  BY <1>0, <1>2, <1>4, <1>9, RequestsKept
<1>11. FreshOK(c)' /\ OutputOK(c)'
  BY <1>0, <1>2, <1>4, <1>10 DEF FreshOK, OutputOK
<1>12. FlowOK(c)'
  <2>1. printed[c] = <<>> /\ ~Has(Q("key2"), c) /\ ~Serving(c)
    <3>1. Fresh(c)
      BY <1>0, <1>1 DEF Fresh, Unsent
    <3> QED BY <1>4, <3>1 DEF FreshOK, Serving, IndInv, ServingOK
  <2>2. Covers(Q("key2")', c, path'[c], 1, 0)
    BY <1>0, <1>2, <1>4, <2>1, EmptyFlow
  <2>3. Len(printed'[c]) = 0
    BY <1>0, <2>1
  <2>4. ~Serving(c)'
    BY <1>1, <2>1 DEF Serving
  <2>5. Flows(c, 0)'
    BY <1>0, <1>4, <2>2, <2>3, <2>4 DEF Flows
  <2> QED BY <2>5 DEF FlowOK
<1>13. key'["key2"] # key["key2"] => \A h \in [Keys -> Nat] :
         Holds(h, key, Len(queue)) /\ key'["key2"] # NoQueue => h["key2"] # key'["key2"]
  <2>1. key'["key2"] # key["key2"] => k = "key2" /\ key'["key2"] > Len(queue)
    BY <1>2, <1>4
  <2> QED BY <1>2, <1>4, <2>1 DEF Holds
<1>14. \A d \in Clients \ {c} : /\ cpc'[d] = cpc[d] /\ ids'[d] = ids[d] /\ path'[d] = path[d]
                                /\ printed'[d] = printed[d] /\ ended'[d] = ended[d]
  BY <1>0, <1>1, <1>5
<1>15. Q("key2")' = Q("key2") /\ path' = path /\ ended' = ended
  BY <1>0, <1>2, <1>4
<1> QED BY <1>1, <1>2, <1>3, <1>6, <1>7, <1>8, <1>10, <1>11, <1>12, <1>13, <1>14, <1>15, ClientStep

LEMMA SendPathInd == ASSUME IndInv, NEW c \in Clients, SendPath(c) PROVE IndInv'
<1>p. PICK p \in Paths : /\ ClientGoto(c, "send", "receive")
                         /\ msgsnd(ids[c]["key1"], [type |-> c, data |-> p])
                         /\ path' = [path EXCEPT ![c] = p]
                         /\ UNCHANGED <<key, ids, printed, ended>>
  BY DEF SendPath
<1> DEFINE m == [type |-> c, data |-> p]
<1>1. /\ cpc[c] = "send" /\ cpc'[c] = "receive" /\ \A d \in Clients \ {c} : cpc'[d] = cpc[d]
      /\ cpc' \in [Clients -> {"off", "get2", "send", "receive", "rmid2", "rmid1", "exit"}]
      /\ UNCHANGED serverVars /\ UNCHANGED <<spc, sids, msg, offset, servers>>
  BY <1>p, GotoFacts
<1>2. /\ ids[c] \in [Keys -> Nat] /\ Holds(ids[c], key, Len(queue)) /\ ClientIds(c)
      /\ FreshOK(c) /\ FlowOK(c) /\ OutputOK(c)
      /\ Q("key1") \in Seq(Messages) /\ Q("key2") \in Seq(Messages)
      /\ "key1" \in Keys /\ "key2" \in Keys
  BY BaseFacts
<1>3. ids[c]["key1"] # NoQueue /\ m \in Messages /\ m.type = c /\ m.data = p /\ KernelOK
  BY <1>1, <1>2 DEF ClientIds, Messages, IndInv
<1>4. /\ KernelOK' /\ Len(queue') = Len(queue)
      /\ \A j \in Keys \ {"key1"} : Q(j)' = Q(j)
      /\ Q("key1")' = IF ids[c]["key1"] = key["key1"] THEN Append(Q("key1"), m) ELSE Q("key1")
  BY <1>p, <1>2, <1>3, SendStep
<1> HIDE DEF m
<1>5. Q("key2")' = Q("key2") /\ key' = key
  BY <1>p, <1>2, <1>4
<1>6. /\ path'[c] = p /\ (\A d \in Clients \ {c} : path'[d] = path[d]) /\ path' \in [Clients -> Paths]
  BY <1>p DEF IndInv, BaseOK
<1>7. BaseOK'
  BY <1>p, <1>1, <1>6 DEF IndInv, BaseOK
<1>8. Unsent(c) /\ ~Unsent(c)' /\ \A d \in Clients \ {c} : (Unsent(d)' <=> Unsent(d))
  BY <1>1 DEF Unsent
<1>9. Fresh(c) /\ printed[c] = <<>> /\ ~Has(Q("key2"), c) /\ ~Serving(c) /\ ended[c] = "no"
  BY <1>1, <1>2, <1>8 DEF Fresh, FreshOK, Serving, IndInv, ServingOK, ClientIds
<1>10. ASSUME NEW n \in 1 .. Len(Q("key1"))
       PROVE  /\ Q("key1")[n].type \in Clients /\ Q("key1")[n].type # c
              /\ ~Unsent(Q("key1")[n].type) /\ Q("key1")[n].data = path[Q("key1")[n].type]
  <2>1. Q("key1")[n] \in Messages
    BY <1>2
  <2> QED BY <1>8, <2>1 DEF Messages, IndInv, RequestsOK
<1>11. /\ RequestsOK' /\ \A d \in Clients \ {c} : Has(Q("key1")', d) => Has(Q("key1"), d)
  <2>1. CASE Q("key1")' = Q("key1")
    <3>1. \A n \in 1 .. Len(Q("key1")) : LET r == Q("key1")[n] IN
             cpc'[r.type] \notin {"off", "get2", "send"} /\ r.data = path'[r.type]
      BY <1>1, <1>6, <1>10 DEF Unsent
    <3>2. RequestsOK'
      BY <2>1, <3>1 DEF IndInv, RequestsOK, Unsent
    <3> QED BY <2>1, <3>2
  <2>2. CASE Q("key1")' = Append(Q("key1"), m)
    <3> DEFINE q == Q("key1")
               r == Q("key1")'
    <3>1. /\ Len(r) = Len(q) + 1 /\ Len(q) \in Nat
          /\ \A k \in 1 .. Len(q) : r[k] = q[k]
          /\ r[Len(q) + 1] = m
      BY <1>2, <1>3, <2>2, AppendFacts
    <3>2. \A k \in 1 .. Len(q) : /\ q[k].type # c /\ q[k].type \in Clients
                                 /\ ~Unsent(q[k].type) /\ q[k].data = path[q[k].type]
      BY <1>10
    <3>3. \A k, l \in 1 .. Len(q) : q[k].type = q[l].type => k = l
      BY DEF IndInv, RequestsOK
    <3> HIDE DEF q, r
    <3>4. ASSUME NEW n \in 1 .. Len(r)
          PROVE  cpc'[r[n].type] \notin {"off", "get2", "send"} /\ r[n].data = path'[r[n].type]
      <4>1. CASE n \in 1 .. Len(q)
        BY <1>1, <1>6, <3>1, <3>2, <4>1 DEF Unsent
      <4>2. CASE n = Len(q) + 1
        BY <1>1, <1>3, <1>6, <3>1, <4>2
      <4> QED BY <3>1, <4>1, <4>2
    <3>5. ASSUME NEW k \in 1 .. Len(r), NEW l \in 1 .. Len(r), r[k].type = r[l].type
          PROVE  k = l
      <4>1. \A n \in 1 .. Len(r) : n \in 1 .. Len(q) \/ n = Len(q) + 1
        BY <3>1
      <4> QED BY <1>3, <3>1, <3>2, <3>3, <3>5, <4>1
    <3>6. RequestsOK'
      BY <3>4, <3>5 DEF RequestsOK, Unsent, r
    <3>7. ASSUME NEW d \in Clients \ {c}, Has(r, d) PROVE Has(q, d)
      <4>1. PICK n \in 1 .. Len(r) : r[n].type = d
        BY <3>7 DEF Has
      <4>2. n \in 1 .. Len(q) /\ q[n].type = d
        BY <1>3, <3>1, <4>1
      <4> QED BY <4>2 DEF Has
    <3> QED BY <3>6, <3>7 DEF q, r
  <2> QED BY <1>4, <2>1, <2>2
<1>12. \A d \in Clients : Fresh(d)' => Fresh(d)
  BY <1>8, <1>9, <1>11 DEF Fresh
<1>13. ClientIds(c)'
  BY <1>p, <1>1, <1>2, <1>4 DEF ClientIds
<1>14. RemovedOK'
  BY <1>p, <1>4 DEF RemovedOK, IndInv, IdsOK, Removed
<1>15. FreshOK(c)'
  BY <1>p, <1>5, <1>9 DEF FreshOK
<1>16. FlowOK(c)'
  <2>1. Covers(Q("key2")', c, path'[c], 1, 0)
    BY <1>2, <1>5, <1>9, EmptyFlow
  <2>2. Len(printed'[c]) = 0 /\ Size(path'[c]) \in Nat
    BY <1>p, <1>9, SizeNat
  <2>3. ~Serving(c)'
    BY <1>1, <1>9 DEF Serving
  <2>4. Flows(c, 0)'
    BY <2>1, <2>2, <2>3 DEF Flows
  <2> QED BY <2>4 DEF FlowOK
<1>17. OutputOK(c)'
  <2>1. Len(printed'[c]) = 0 /\ Size(path'[c]) \in Nat /\ ended'[c] = "no"
    BY <1>p, <1>9, SizeNat
  <2> QED BY <2>1 DEF OutputOK
<1> QED BY <1>p, <1>1, <1>4, <1>5, <1>6, <1>7, <1>8, <1>11, <1>12, <1>13, <1>14, <1>15, <1>16, <1>17, ClientStep

\* What a client receives is the part of the answer that it is waiting for.
LEMMA ReceiveFacts ==
  ASSUME IndInv, NEW c \in Clients, NEW to, to \in {"receive", "rmid2"}, ClientGoto(c, "receive", to),
         ~Removed(ids[c]["key2"]), NEW n \in First(ids[c]["key2"], c), Take(ids[c]["key2"], n),
         UNCHANGED <<key, ids, path>>
  PROVE  /\ KernelOK' /\ Len(queue') = Len(queue) /\ Q("key1")' = Q("key1")
         /\ n \in 1 .. Len(Q("key2")) /\ Q("key2")[n].type = c
         /\ Q("key2")' = RemoveAt(Q("key2"), n) /\ Q("key2")[n] = queue[ids[c]["key2"]][n]
         /\ Q("key2")' \in Seq(Messages)
         /\ Attached(c) /\ ended[c] = "no" /\ ~Fresh(c)
         /\ \E hi \in Nat : /\ Flows(c, hi) /\ Len(printed[c]) + 1 <= hi
                            /\ Q("key2")[n].data = Part(path[c], Len(printed[c]) + 1)
                            /\ Covers(Q("key2")', c, path[c], Len(printed[c]) + 2, hi)
         /\ \A d \in Clients : Has(Q("key2")', d) => Has(Q("key2"), d)
         /\ \A d \in Clients \ {c} : \A lo, hi \in Nat :
              Covers(Q("key2"), d, path[d], lo, hi) => Covers(Q("key2")', d, path[d], lo, hi)
         /\ RequestsOK' /\ \A d \in Clients : Fresh(d)' => Fresh(d)
<1>1. /\ cpc[c] = "receive" /\ cpc'[c] = to /\ \A d \in Clients \ {c} : cpc'[d] = cpc[d]
  BY GotoFacts
<1>2. /\ ids[c] \in [Keys -> Nat] /\ Holds(ids[c], key, Len(queue)) /\ ClientIds(c)
      /\ FreshOK(c) /\ FlowOK(c) /\ Len(printed[c]) \in Nat
      /\ Q("key1") \in Seq(Messages) /\ Q("key2") \in Seq(Messages)
      /\ "key1" \in Keys /\ "key2" \in Keys
  BY BaseFacts
<1>3. ids[c]["key2"] # NoQueue /\ ended[c] = "no" /\ KernelOK
  BY <1>1, <1>2 DEF ClientIds, IndInv
<1>4. Q("key2") = queue[ids[c]["key2"]] /\ ids[c]["key2"] = key["key2"]
  BY <1>2, <1>3, LiveId
<1>5. /\ n \in 1 .. Len(Q("key2")) /\ Q("key2")[n].type = c
      /\ \A m \in 1 .. n - 1 : Q("key2")[m].type # c
  BY <1>2, <1>4 DEF First
<1>6. /\ KernelOK' /\ Len(queue') = Len(queue)
      /\ Q("key2")' = RemoveAt(Q("key2"), n) /\ \A j \in Keys \ {"key2"} : Q(j)' = Q(j)
  BY <1>2, <1>3, <1>5, TakeStep
<1>7. Q("key1")' = Q("key1")
  BY <1>2, <1>6
<1>8. Attached(c) /\ ~Fresh(c)
  BY <1>2, <1>3, <1>4, <1>5 DEF Attached, FreshOK, Has
<1>9. PICK hi \in Nat : Flows(c, hi)
  BY <1>2, <1>8 DEF FlowOK
<1>10. /\ Len(printed[c]) + 1 <= hi /\ Q("key2")[n].data = Part(path[c], Len(printed[c]) + 1)
       /\ Covers(Q("key2")', c, path[c], Len(printed[c]) + 2, hi)
  <2>1. Covers(Q("key2"), c, path[c], Len(printed[c]) + 1, hi) /\ Len(printed[c]) + 1 \in Nat \ {0}
    BY <1>2, <1>9 DEF Flows
  <2>2. Len(printed[c]) + 1 + 1 = Len(printed[c]) + 2
    BY <1>2
  <2>3. /\ Len(printed[c]) + 1 <= hi /\ Q("key2")[n].data = Part(path[c], Len(printed[c]) + 1)
        /\ Covers(RemoveAt(Q("key2"), n), c, path[c], Len(printed[c]) + 1 + 1, hi)
    <3> DEFINE q == Q("key2")
               lo == Len(printed[c]) + 1
               p == path[c]
    <3>1. q \in Seq(Messages) /\ lo \in Nat \ {0} /\ Covers(q, c, p, lo, hi)
      BY <1>2, <2>1
    <3>2. n \in 1 .. Len(q) /\ q[n].type = c
      BY <1>5
    <3>3. IsFirst(q, n, c)
      BY <1>5 DEF IsFirst
    <3> HIDE DEF q, lo, p
    <3>4. ASSUME NEW k \in 1 .. Len(q), IsFirst(q, k, c)
          PROVE  lo <= hi /\ q[k].data = Part(p, lo) /\ Covers(RemoveAt(q, k), c, p, lo + 1, hi)
      BY <3>1, <3>4, CoversFirst
    <3>5. lo <= hi /\ q[n].data = Part(p, lo) /\ Covers(RemoveAt(q, n), c, p, lo + 1, hi)
      BY <3>2, <3>3, <3>4
    <3> QED BY <3>5 DEF q, lo, p
  <2> QED BY <1>6, <2>2, <2>3
<1>11. /\ Q("key2")' \in Seq(Messages) /\ Len(Q("key2")') = Len(Q("key2")) - 1 /\ Len(Q("key2")) \in Nat \ {0}
       /\ \A k \in 1 .. Len(Q("key2")) - 1 :
             Q("key2")'[k] = IF k < n THEN Q("key2")[k] ELSE Q("key2")[k + 1]
  <2> DEFINE q == Q("key2")
  <2>1. q \in Seq(Messages) /\ n \in 1 .. Len(q)
    BY <1>2, <1>5
  <2> HIDE DEF q
  <2>2. /\ RemoveAt(q, n) \in Seq(Messages) /\ Len(RemoveAt(q, n)) = Len(q) - 1 /\ Len(q) \in Nat \ {0}
        /\ \A k \in 1 .. Len(q) - 1 : RemoveAt(q, n)[k] = IF k < n THEN q[k] ELSE q[k + 1]
    BY <2>1, RemoveFacts
  <2> QED BY <1>6, <2>2 DEF q
<1>12. \A d \in Clients : Has(Q("key2")', d) => Has(Q("key2"), d)
  <2> SUFFICES ASSUME NEW d \in Clients, NEW k \in 1 .. Len(Q("key2")'), Q("key2")'[k].type = d
               PROVE  \E l \in 1 .. Len(Q("key2")) : Q("key2")[l].type = d
    BY DEF Has
  <2>1. k \in 1 .. Len(Q("key2")) /\ k + 1 \in 1 .. Len(Q("key2"))
    BY <1>11
  <2> QED BY <1>11, <2>1
<1>13. \A d \in Clients \ {c} : \A lo, h \in Nat :
          Covers(Q("key2"), d, path[d], lo, h) => Covers(Q("key2")', d, path[d], lo, h)
  <2> SUFFICES ASSUME NEW d \in Clients \ {c}, NEW lo \in Nat, NEW h \in Nat,
                      Covers(Q("key2"), d, path[d], lo, h)
               PROVE  Covers(RemoveAt(Q("key2"), n), d, path[d], lo, h)
    BY <1>6
  <2>1. Q("key2")[n].type # d
    BY <1>5
  <2> QED BY <1>2, <1>5, <2>1, CoversOther
<1>14. \A d \in Clients : Unsent(d)' <=> Unsent(d)
  BY <1>1 DEF Unsent
<1>15. RequestsOK' /\ \A d \in Clients : Fresh(d)' => Fresh(d)
  BY <1>7, <1>14, RequestsKept
<1> QED BY <1>3, <1>4, <1>5, <1>6, <1>7, <1>8, <1>9, <1>10, <1>11, <1>12, <1>13, <1>15

LEMMA PartFacts ==
  ASSUME NEW p, NEW j \in Nat
  PROVE  /\ Part(p, j) = EOF <=> j > Size(p)
         /\ Part(p, j) # EOF => Part(p, j) = <<p, j>>
<1>1. Size(p) \in Nat
  BY SizeNat
<1>2. <<p, j>> # <<>>
  <2>1. Len(<<p, j>>) = 2 /\ Len(<<>>) = 0
    OBVIOUS
  <2> QED BY <2>1
<1> QED BY <1>1, <1>2 DEF Part, EOF

LEMMA ReceiveInd == ASSUME IndInv, NEW c \in Clients, Receive(c) PROVE IndInv'
<1>0. /\ ClientGoto(c, "receive", "receive") /\ ~Removed(ids[c]["key2"])
      /\ UNCHANGED <<key, ids, path, ended>>
  BY DEF Receive
<1>n. PICK n \in First(ids[c]["key2"], c) :
        /\ queue[ids[c]["key2"]][n].data # EOF /\ Take(ids[c]["key2"], n)
        /\ printed' = [printed EXCEPT ![c] = Append(@, queue[ids[c]["key2"]][n].data)]
  BY DEF Receive
<1>1. /\ cpc[c] = "receive" /\ cpc'[c] = "receive" /\ \A d \in Clients \ {c} : cpc'[d] = cpc[d]
      /\ cpc' \in [Clients -> {"off", "get2", "send", "receive", "rmid2", "rmid1", "exit"}]
      /\ UNCHANGED serverVars /\ UNCHANGED <<spc, sids, msg, offset, servers>>
  BY <1>0, GotoFacts
<1>2. /\ printed[c] \in Seq(Paths \X Nat) /\ Len(printed[c]) \in Nat /\ path[c] \in Paths
      /\ Size(path[c]) \in Nat /\ OutputOK(c) /\ ClientIds(c) /\ "key2" \in Keys
  BY BaseFacts
<1>3. /\ KernelOK' /\ Len(queue') = Len(queue)
      /\ Q("key2")[n] = queue[ids[c]["key2"]][n] /\ ended[c] = "no" /\ ~Fresh(c) /\ Attached(c)
      /\ \A d \in Clients : Has(Q("key2")', d) => Has(Q("key2"), d)
      /\ \A d \in Clients \ {c} : \A lo, hi \in Nat :
           Covers(Q("key2"), d, path[d], lo, hi) => Covers(Q("key2")', d, path[d], lo, hi)
      /\ RequestsOK' /\ \A d \in Clients : Fresh(d)' => Fresh(d)
  BY <1>0, <1>n, ReceiveFacts
<1>4. PICK hi \in Nat : /\ Flows(c, hi) /\ Len(printed[c]) + 1 <= hi
                        /\ Q("key2")[n].data = Part(path[c], Len(printed[c]) + 1)
                        /\ Covers(Q("key2")', c, path[c], Len(printed[c]) + 2, hi)
  BY <1>0, <1>n, ReceiveFacts
<1> DEFINE x == <<path[c], Len(printed[c]) + 1>>
<1>5. Len(printed[c]) + 1 <= Size(path[c]) /\ Q("key2")[n].data = x
  BY <1>n, <1>2, <1>3, <1>4, PartFacts
<1>6. x \in Paths \X Nat /\ x = <<path[c], Len(printed[c]) + 1>>
  BY <1>2
<1> HIDE DEF x
<1>7. /\ printed'[c] = Append(printed[c], x) /\ (\A d \in Clients \ {c} : printed'[d] = printed[d])
      /\ printed' \in [Clients -> Seq(Paths \X Nat)]
  <2>1. Append(printed[c], x) \in Seq(Paths \X Nat)
    BY <1>2, <1>6, AppendFacts
  <2>2. printed' = [printed EXCEPT ![c] = Append(printed[c], x)] /\ printed \in [Clients -> Seq(Paths \X Nat)]
    BY <1>n, <1>3, <1>5 DEF IndInv, BaseOK
  <2> QED BY <2>1, <2>2
<1>8. /\ Len(printed'[c]) = Len(printed[c]) + 1
      /\ \A k \in 1 .. Len(printed[c]) : printed'[c][k] = printed[c][k]
      /\ printed'[c][Len(printed[c]) + 1] = x
  BY <1>2, <1>6, <1>7, AppendFacts
<1>9. BaseOK'
  BY <1>0, <1>1, <1>7 DEF IndInv, BaseOK
<1>10. RemovedOK' /\ ClientIds(c)'
  <2>1. RemovedOK'
    BY <1>0, <1>3 DEF RemovedOK, IndInv, IdsOK, Removed
  <2>2. ClientIds(c)'
    BY <1>0, <1>1, <1>2, <1>3 DEF ClientIds
  <2> QED BY <2>1, <2>2
<1>11. FreshOK(c)'
  BY <1>3 DEF FreshOK
<1>12. FlowOK(c)'
  <2>1. Len(printed'[c]) <= hi /\ Len(printed'[c]) + 1 = Len(printed[c]) + 2
    BY <1>2, <1>4, <1>8
  <2>2. Covers(Q("key2")', c, path'[c], Len(printed'[c]) + 1, hi)
    BY <1>0, <1>4, <2>1
  <2>3. hi <= Size(path'[c]) + 1
    BY <1>0, <1>4 DEF Flows
  <2>4. Serving(c)' /\ sids'["key2"] = key'["key2"] => hi = offset'
    BY <1>0, <1>1, <1>4 DEF Flows, Serving
  <2>5. Flows(c, hi)'
    BY <2>1, <2>2, <2>3, <2>4 DEF Flows
  <2> QED BY <2>5 DEF FlowOK
<1>13. OutputOK(c)'
  <2>1. ASSUME NEW k \in 1 .. Len(printed'[c]) PROVE printed'[c][k] = <<path'[c], k>>
    <3>1. CASE k \in 1 .. Len(printed[c])
      BY <1>0, <1>2, <1>8, <3>1 DEF OutputOK
    <3>2. CASE k = Len(printed[c]) + 1
      BY <1>0, <1>6, <1>8, <3>2
    <3> QED BY <1>2, <1>8, <3>1, <3>2
  <2>2. Len(printed'[c]) <= Size(path'[c]) /\ ended'[c] = "no"
    BY <1>0, <1>3, <1>5, <1>8
  <2> QED BY <2>1, <2>2 DEF OutputOK
<1>14. key' = key /\ path' = path /\ ids' = ids /\ ended' = ended
  BY <1>0
<1> QED BY <1>1, <1>3, <1>7, <1>9, <1>10, <1>11, <1>12, <1>13, <1>14, ClientStep

LEMMA ReceiveEOFInd == ASSUME IndInv, NEW c \in Clients, ReceiveEOF(c) PROVE IndInv'
<1>0. /\ ClientGoto(c, "receive", "rmid2") /\ ~Removed(ids[c]["key2"])
      /\ ended' = [ended EXCEPT ![c] = "EOF"] /\ UNCHANGED <<key, ids, path, printed>>
  BY DEF ReceiveEOF
<1>n. PICK n \in First(ids[c]["key2"], c) :
        queue[ids[c]["key2"]][n].data = EOF /\ Take(ids[c]["key2"], n)
  BY DEF ReceiveEOF
<1>1. /\ cpc[c] = "receive" /\ cpc'[c] = "rmid2" /\ \A d \in Clients \ {c} : cpc'[d] = cpc[d]
      /\ cpc' \in [Clients -> {"off", "get2", "send", "receive", "rmid2", "rmid1", "exit"}]
      /\ UNCHANGED serverVars /\ UNCHANGED <<spc, sids, msg, offset, servers>>
  BY <1>0, GotoFacts
<1>2. /\ Len(printed[c]) \in Nat /\ path[c] \in Paths
      /\ Size(path[c]) \in Nat /\ OutputOK(c) /\ ClientIds(c) /\ "key2" \in Keys
  BY BaseFacts
<1>3. /\ KernelOK' /\ Len(queue') = Len(queue) /\ Q("key2")' \in Seq(Messages)
      /\ Q("key2")[n] = queue[ids[c]["key2"]][n] /\ ended[c] = "no" /\ ~Fresh(c) /\ Attached(c)
      /\ \A d \in Clients : Has(Q("key2")', d) => Has(Q("key2"), d)
      /\ \A d \in Clients \ {c} : \A lo, hi \in Nat :
           Covers(Q("key2"), d, path[d], lo, hi) => Covers(Q("key2")', d, path[d], lo, hi)
      /\ RequestsOK' /\ \A d \in Clients : Fresh(d)' => Fresh(d)
  BY <1>0, <1>n, ReceiveFacts
<1>4. PICK hi \in Nat : /\ Flows(c, hi) /\ Len(printed[c]) + 1 <= hi
                        /\ Q("key2")[n].data = Part(path[c], Len(printed[c]) + 1)
                        /\ Covers(Q("key2")', c, path[c], Len(printed[c]) + 2, hi)
  BY <1>0, <1>n, ReceiveFacts
<1>5. Len(printed[c]) = Size(path[c]) /\ hi = Size(path[c]) + 1
  <2>1. Part(path[c], Len(printed[c]) + 1) = EOF
    BY <1>n, <1>3, <1>4
  <2>2. Len(printed[c]) + 1 > Size(path[c])
    BY <1>2, <2>1, PartFacts
  <2>3. hi <= Size(path[c]) + 1 /\ Len(printed[c]) <= Size(path[c])
    BY <1>2, <1>4 DEF Flows, OutputOK
  <2> QED BY <1>2, <1>4, <2>2, <2>3
<1>6. /\ ended'[c] = "EOF" /\ (\A d \in Clients \ {c} : ended'[d] = ended[d])
      /\ ended' \in [Clients -> {"no", "EOF", "error"}]
  BY <1>0 DEF IndInv, BaseOK
<1>7. BaseOK'
  BY <1>0, <1>1, <1>6 DEF IndInv, BaseOK
<1>8. RemovedOK'
  BY <1>0, <1>3, <1>6 DEF RemovedOK, IndInv, IdsOK, Removed
<1>9. ClientIds(c)'
  BY <1>0, <1>1, <1>2, <1>3, <1>6 DEF ClientIds
<1>10. FreshOK(c)'
  BY <1>3 DEF FreshOK
<1>11. FlowOK(c)'
  <2>1. ~Has(Q("key2")', c)
    <3>1. \A j \in Len(printed[c]) + 2 .. hi : FALSE
      BY <1>2, <1>5
    <3> QED BY <1>4, <3>1 DEF Covers, Has
  <2>2. Covers(Q("key2")', c, path'[c], Len(printed'[c]) + 1, Len(printed'[c]))
    <3>1. \A j \in Len(printed'[c]) + 1 .. Len(printed'[c]) : FALSE
      BY <1>0, <1>2
    <3> QED BY <2>1, <3>1 DEF Covers, Has
  <2>3. ~(Serving(c)' /\ sids'["key2"] = key'["key2"])
    <3>1. Serving(c) => offset <= Size(path[c])
      BY DEF Serving, IndInv, ServingOK
    <3>2. offset \in Nat
      BY SizesAssumption DEF IndInv, BaseOK
    <3>3. Serving(c) /\ sids["key2"] = key["key2"] => offset = Size(path[c]) + 1
      BY <1>4, <1>5 DEF Flows
    <3>4. ~(Serving(c) /\ sids["key2"] = key["key2"])
      BY <1>2, <3>1, <3>2, <3>3
    <3> QED BY <1>0, <1>1, <3>4 DEF Serving
  <2>4. Flows(c, Len(printed[c]))'
    BY <1>0, <1>2, <1>5, <2>2, <2>3 DEF Flows
  <2>5. Len(printed[c])' \in Nat
    BY <1>0, <1>2
  <2> QED BY <2>4, <2>5 DEF FlowOK
<1>12. OutputOK(c)'
  BY <1>0, <1>2, <1>5, <1>6 DEF OutputOK
<1>13. key' = key /\ path' = path /\ ids' = ids /\ printed' = printed
  BY <1>0
<1> QED BY <1>1, <1>3, <1>6, <1>7, <1>8, <1>9, <1>10, <1>11, <1>12, <1>13, ClientStep

LEMMA ReceiveErrorInd == ASSUME IndInv, NEW c \in Clients, ReceiveError(c) PROVE IndInv'
<1>0. /\ ClientGoto(c, "receive", "rmid2") /\ Removed(ids[c]["key2"])
      /\ ended' = [ended EXCEPT ![c] = "error"] /\ UNCHANGED <<key, queue, ids, path, printed>>
  BY DEF ReceiveError
<1>1. /\ cpc[c] = "receive" /\ cpc'[c] = "rmid2" /\ \A d \in Clients \ {c} : cpc'[d] = cpc[d]
      /\ cpc' \in [Clients -> {"off", "get2", "send", "receive", "rmid2", "rmid1", "exit"}]
      /\ UNCHANGED serverVars /\ UNCHANGED <<spc, sids, msg, offset, servers>>
  BY <1>0, GotoFacts
<1>2. /\ ids[c] \in [Keys -> Nat] /\ Holds(ids[c], key, Len(queue)) /\ ClientIds(c)
      /\ FreshOK(c) /\ FlowOK(c) /\ OutputOK(c) /\ "key1" \in Keys /\ "key2" \in Keys
  BY BaseFacts
<1>3. ids[c]["key2"] # NoQueue /\ ended[c] = "no" /\ KernelOK
  BY <1>1, <1>2 DEF ClientIds, IndInv
<1>4. ids[c]["key2"] \in 1 .. Len(queue)
  BY <1>2, <1>3, LiveId
<1>5. PICK e \in Clients : ended[e] # "no"
  BY <1>0, <1>4 DEF IndInv, IdsOK, RemovedOK
<1>6. /\ ended'[c] = "error" /\ (\A d \in Clients \ {c} : ended'[d] = ended[d])
      /\ ended' \in [Clients -> {"no", "EOF", "error"}]
  BY <1>0 DEF IndInv, BaseOK
<1>7. BaseOK' /\ KernelOK' /\ RemovedOK' /\ ClientIds(c)'
  <2>1. BaseOK'
    BY <1>0, <1>1, <1>6 DEF IndInv, BaseOK
  <2>2. KernelOK'
    BY <1>0, <1>3 DEF KernelOK
  <2>3. RemovedOK'
    BY <1>0, <1>6 DEF RemovedOK, IndInv, IdsOK, Removed
  <2>4. ClientIds(c)'
    BY <1>0, <1>1, <1>2, <1>6 DEF ClientIds
  <2> QED BY <2>1, <2>2, <2>3, <2>4
<1>8. Q("key1")' = Q("key1") /\ Q("key2")' = Q("key2")
  BY <1>0 DEF Q
<1>9. \A d \in Clients : Unsent(d)' <=> Unsent(d)
  BY <1>1 DEF Unsent
<1>10. RequestsOK' /\ \A d \in Clients : Fresh(d)' => Fresh(d)
  BY <1>0, <1>8, <1>9, RequestsKept
<1>11. FreshOK(c)'
  BY <1>0, <1>2, <1>8, <1>10 DEF FreshOK
<1>12. FlowOK(c)'
  <2>1. \A hi \in Nat : Flows(c, hi) => Flows(c, hi)'
    BY <1>0, <1>1, <1>8 DEF Flows, Serving
  <2> QED BY <1>0, <1>2, <2>1 DEF FlowOK, Attached
<1>13. OutputOK(c)'
  <2>1. e \in Clients \ {c} /\ ended'[e] # "no"
    BY <1>3, <1>5, <1>6
  <2> QED BY <1>0, <1>2, <1>6, <2>1 DEF OutputOK
<1>14. key' = key /\ queue' = queue /\ path' = path /\ ids' = ids /\ printed' = printed
  BY <1>0
<1> QED BY <1>1, <1>6, <1>7, <1>8, <1>10, <1>11, <1>12, <1>13, <1>14, ClientStep

LEMMA RemoveInd ==
  ASSUME IndInv, NEW c \in Clients, NEW k \in Keys, NEW from, NEW to, ClientGoto(c, from, to),
         from \in {"rmid2", "rmid1"}, to \in {"rmid1", "exit"}, RMID(ids[c][k]),
         UNCHANGED <<ids, path, printed, ended>>
  PROVE  IndInv'
<1>1. /\ cpc[c] = from /\ cpc'[c] = to /\ \A d \in Clients \ {c} : cpc'[d] = cpc[d]
      /\ cpc' \in [Clients -> {"off", "get2", "send", "receive", "rmid2", "rmid1", "exit"}]
      /\ UNCHANGED serverVars /\ UNCHANGED <<spc, sids, msg, offset, servers>>
  BY GotoFacts
<1>2. /\ ids[c] \in [Keys -> Nat] /\ Holds(ids[c], key, Len(queue)) /\ ClientIds(c)
      /\ FreshOK(c) /\ FlowOK(c) /\ OutputOK(c) /\ "key1" \in Keys /\ "key2" \in Keys
  BY BaseFacts
<1>3. ids[c][k] # NoQueue /\ ended[c] # "no" /\ KernelOK
  BY <1>1, <1>2 DEF ClientIds, IndInv, Keys
<1>4. /\ KernelOK' /\ Len(queue') = Len(queue)
      /\ \A j \in Keys \ {k} : Q(j)' = Q(j) /\ key'[j] = key[j]
      /\ \/ Q(k)' = Q(k) /\ key'[k] = key[k]
         \/ Q(k)' = <<>> /\ key'[k] = NoQueue
  BY <1>2, <1>3, RmidStep
<1>5. \A h \in [Keys -> Nat] : Holds(h, key, Len(queue)) => Holds(h, key', Len(queue'))
  BY <1>2, <1>3, RmidStep
<1>6. /\ Q("key1")' \in {Q("key1"), <<>>}
      /\ \/ Q("key2")' = Q("key2") /\ key'["key2"] = key["key2"]
         \/ Q("key2")' = <<>> /\ key'["key2"] = NoQueue
  BY <1>2, <1>4 DEF Keys
<1>7. BaseOK' /\ RemovedOK' /\ ClientIds(c)'
  <2>1. BaseOK'
    BY <1>1 DEF IndInv, BaseOK
  <2>2. RemovedOK'
    BY <1>3 DEF RemovedOK
  <2>3. ClientIds(c)'
    <3>1. Holds(ids'[c], key', Len(queue'))
      BY <1>2, <1>5
    <3> QED BY <1>1, <1>2, <1>3, <3>1 DEF ClientIds
  <2> QED BY <2>1, <2>2, <2>3
<1>8. \A d \in Clients : Unsent(d)' <=> Unsent(d)
  BY <1>1 DEF Unsent
<1>9. RequestsOK' /\ \A d \in Clients : Fresh(d)' => Fresh(d)
  BY <1>6, <1>8, RequestsKept
<1>10. \A d \in Clients : Has(Q("key2")', d) => Has(Q("key2"), d)
  <2>1. Q("key2")' = <<>> => Len(Q("key2")') = 0
    OBVIOUS
  <2> QED BY <1>6, <2>1 DEF Has
<1>11. FreshOK(c)'
  BY <1>2, <1>9, <1>10 DEF FreshOK
<1>12. FlowOK(c)'
  <2> SUFFICES ASSUME Attached(c)' PROVE \E hi \in Nat : Flows(c, hi)'
    BY DEF FlowOK
  <2>1. Q("key2")' = Q("key2") /\ key'["key2"] = key["key2"] /\ Attached(c)
    BY <1>6 DEF Attached
  <2>2. PICK hi \in Nat : Flows(c, hi)
    BY <1>2, <2>1 DEF FlowOK
  <2>3. Flows(c, hi)'
    BY <1>1, <2>1, <2>2 DEF Flows, Serving
  <2> QED BY <2>3
<1>13. OutputOK(c)'
  BY <1>2 DEF OutputOK
<1>14. \A d \in Clients \ {c} : \A lo, hi \in Nat :
          key'["key2"] # NoQueue /\ Covers(Q("key2"), d, path[d], lo, hi) => Covers(Q("key2")', d, path[d], lo, hi)
  BY <1>6
<1> QED BY <1>1, <1>4, <1>5, <1>6, <1>7, <1>9, <1>10, <1>11, <1>12, <1>13, <1>14, ClientStep

-----------------------------------------------------------------------------
(* The steps of the server *)

LEMMA ServerFacts ==
  ASSUME IndInv
  PROVE  /\ KernelOK /\ sids \in [Keys -> Nat] /\ Holds(sids, key, Len(queue)) /\ ServerIds
         /\ Q("key1") \in Seq(Messages) /\ Q("key2") \in Seq(Messages)
         /\ "key1" \in Keys /\ "key2" \in Keys /\ offset \in Nat
<1>1. "key1" \in Keys /\ "key2" \in Keys /\ KernelOK
  BY DEF Keys, IndInv
<1>2. Q("key1") \in Seq(Messages) /\ Q("key2") \in Seq(Messages)
  BY <1>1, KernelFacts
<1>3. offset \in Nat
  BY SizesAssumption DEF IndInv, BaseOK
<1> QED BY <1>1, <1>2, <1>3 DEF IndInv, BaseOK, IdsOK, ServerIds

\* A step of the server: what it must show for itself and for the queues, the rest stays.
LEMMA ServerStep ==
  ASSUME IndInv, UNCHANGED clientVars, KernelOK', BaseOK', ServerIds', RemovedOK', RequestsOK', ServingOK',
         \A h \in [Keys -> Nat] : Holds(h, key, Len(queue)) => Holds(h, key', Len(queue')),
         \A d \in Clients : /\ Fresh(d)' => Fresh(d)
                            /\ Fresh(d)' /\ Has(Q("key2")', d) => Has(Q("key2"), d)
                            /\ FlowOK(d)'
  PROVE  IndInv'
<1>0. UNCHANGED <<cpc, ids, path, printed, ended>>
  BY DEF clientVars
<1>1. ASSUME NEW d \in Clients PROVE ClientIds(d)' /\ FreshOK(d)' /\ OutputOK(d)'
  <2>0. /\ ClientIds(d) /\ FreshOK(d) /\ OutputOK(d) /\ Holds(ids[d], key, Len(queue))
        /\ ids[d] \in [Keys -> Nat]
    BY BaseFacts
  <2>1. ClientIds(d)'
    BY <1>0, <2>0 DEF ClientIds
  <2>2. FreshOK(d)'
    BY <1>0, <2>0 DEF FreshOK
  <2>3. OutputOK(d)'
    BY <1>0, <2>0 DEF OutputOK
  <2> QED BY <2>1, <2>2, <2>3
<1>2. IdsOK'
  BY <1>1 DEF IdsOK
<1> QED BY <1>1, <1>2 DEF IndInv

\* The flow to d when the queue of answers stays and d is not being served.
LEMMA FlowKept ==
  ASSUME IndInv, UNCHANGED clientVars, NEW d \in Clients, Attached(d)' => Attached(d),
         Q("key2")' = Q("key2"), ~Serving(d)'
  PROVE  FlowOK(d)'
<1>0. UNCHANGED <<cpc, ids, path, printed, ended>> /\ FlowOK(d)
  BY BaseFacts DEF clientVars
<1>1. \A hi \in Nat : Flows(d, hi) => Flows(d, hi)'
  BY <1>0 DEF Flows
<1> QED BY <1>0, <1>1 DEF FlowOK

LEMMA ServerGetInd ==
  ASSUME IndInv, NEW k \in Keys, msgget(k), UNCHANGED clientVars,
         spc' \in {"get2", "receive"}, offset' = 0, servers' \in 0 .. MaxServers,
         NEW held \in [Keys -> Nat], Holds(held, key, Len(queue)), sids' = [held EXCEPT ![k] = Id(k)],
         \/ spc' = "get2" /\ k = "key1"
         \/ spc' = "receive" /\ k = "key2" /\ held["key1"] # NoQueue
  PROVE  IndInv'
<1>0. KernelOK /\ "key1" \in Keys /\ "key2" \in Keys /\ UNCHANGED <<cpc, ids, path, printed, ended>>
  BY ServerFacts DEF clientVars
<1>1. /\ KernelOK'
      /\ Len(queue) \in Nat /\ Len(queue') \in Nat /\ Len(queue) <= Len(queue')
      /\ \A j \in Keys : Q(j)' = Q(j)
      /\ Id(k) \in Nat \ {0} /\ key'[k] = Id(k) /\ \A j \in Keys \ {k} : key'[j] = key[j]
      /\ key[k] # NoQueue => key' = key
      /\ key[k] = NoQueue => Id(k) > Len(queue)
      /\ \A id \in 1 .. Len(queue') : Removed(id)' => id \in 1 .. Len(queue) /\ Removed(id)
  BY <1>0, GetStep
<1>2. \A h \in [Keys -> Nat] : Holds(h, key, Len(queue)) =>
              /\ Holds(h, key', Len(queue'))
              /\ Holds([h EXCEPT ![k] = Id(k)], key', Len(queue'))
  BY <1>0, GetStep
<1>3. BaseOK'
  <2>1. sids' \in [Keys -> Nat] /\ offset' \in 0 .. Chunks + 1
    BY <1>1, SizesAssumption
  <2> QED BY <1>0, <2>1 DEF IndInv, BaseOK
<1>4. ServerIds'
  <2>1. Holds(sids', key', Len(queue'))
    BY <1>2
  <2>2. sids'["key1"] # NoQueue /\ (spc' = "receive" => sids'["key2"] # NoQueue)
    BY <1>0, <1>1 DEF NoQueue
  <2> QED BY <2>1, <2>2 DEF ServerIds
<1>5. RemovedOK'
  BY <1>0, <1>1 DEF IndInv, IdsOK, RemovedOK
<1>6. \A d \in Clients : Unsent(d)' <=> Unsent(d)
  BY <1>0 DEF Unsent
<1>7. RequestsOK' /\ \A d \in Clients : Fresh(d)' => Fresh(d)
  BY <1>0, <1>1, <1>6, RequestsKept
<1>8. ServingOK'
  BY DEF ServingOK
<1>9. ASSUME NEW d \in Clients PROVE FlowOK(d)'
  <2>1. Holds(ids[d], key, Len(queue)) /\ ids[d] \in [Keys -> Nat]
    BY BaseFacts
  <2>2. ids[d]["key2"] <= Len(queue) /\ ids[d]["key2"] \in Nat
    BY <1>0, <2>1 DEF Holds
  <2>3. Attached(d)' => Attached(d)
    <3>1. key'["key2"] # key["key2"] => key'["key2"] > Len(queue)
      BY <1>0, <1>1
    <3> QED BY <1>0, <1>1, <2>2, <3>1 DEF Attached
  <2>4. ~Serving(d)' /\ Q("key2")' = Q("key2")
    BY <1>0, <1>1 DEF Serving
  <2> QED BY <2>3, <2>4, FlowKept
<1>10. Q("key2")' = Q("key2")
  BY <1>0, <1>1
<1> QED BY <1>1, <1>2, <1>3, <1>4, <1>5, <1>7, <1>8, <1>9, <1>10, ServerStep

LEMMA ServerGet1Ind == ASSUME IndInv, ServerGet1 PROVE IndInv'
<1> DEFINE none == [k \in Keys |-> NoQueue]
<1>1. none \in [Keys -> Nat] /\ \A k \in Keys : none[k] = 0
  BY DEF NoQueue
<1>2. KernelOK /\ "key1" \in Keys /\ "key2" \in Keys /\ Len(queue) \in Nat
  BY ServerFacts, KernelFacts
<1>3. sids' = [none EXCEPT !["key1"] = Id("key1")]
  BY <1>2 DEF ServerGet1
<1> HIDE DEF none
<1>4. Holds(none, key, Len(queue))
  BY <1>1, <1>2 DEF Holds, NoQueue
<1>5. /\ msgget("key1") /\ UNCHANGED clientVars /\ spc' = "get2" /\ offset' = 0
      /\ servers < MaxServers /\ servers' = servers + 1
  BY DEF ServerGet1
<1>6. servers' \in 0 .. MaxServers
  <2>1. servers \in 0 .. MaxServers /\ MaxServers \in Nat
    BY SizesAssumption DEF IndInv, BaseOK
  <2> QED BY <1>5, <2>1
<1> QED BY <1>1, <1>2, <1>3, <1>4, <1>5, <1>6, ServerGetInd

LEMMA ServerGet2Ind == ASSUME IndInv, ServerGet2 PROVE IndInv'
<1>1. /\ spc = "get2" /\ spc' = "receive" /\ UNCHANGED clientVars /\ servers' = servers
      /\ msgget("key2") /\ sids' = [sids EXCEPT !["key2"] = Id("key2")] /\ offset' = offset
  BY DEF ServerGet2, ServerGoto
<1>2. sids \in [Keys -> Nat] /\ Holds(sids, key, Len(queue)) /\ ServerIds /\ "key2" \in Keys
  BY ServerFacts
<1>3. /\ offset' = 0 /\ servers' \in 0 .. MaxServers /\ sids["key1"] # NoQueue
  BY <1>1, <1>2 DEF IndInv, ServingOK, BaseOK, ServerIds
<1> QED BY <1>1, <1>2, <1>3, ServerGetInd

\* The server takes the first request.
LEMMA TakeRequest ==
  ASSUME IndInv, spc = "receive", ~Removed(sids["key1"]), Requests # <<>>, Take(sids["key1"], 1),
         UNCHANGED clientVars, UNCHANGED key
  PROVE  /\ KernelOK' /\ Len(queue') = Len(queue) /\ Q("key2")' = Q("key2")
         /\ Head(Requests) \in Messages /\ Has(Q("key1"), Head(Requests).type)
         /\ ~Has(Q("key1")', Head(Requests).type) /\ ~Unsent(Head(Requests).type)
         /\ Head(Requests).data = path[Head(Requests).type]
         /\ RequestsOK' /\ \A d \in Clients : Fresh(d)' => Fresh(d)
<1> DEFINE q == Q("key1")
           r == RemoveAt(q, 1)
<1>1. /\ KernelOK /\ sids \in [Keys -> Nat] /\ Holds(sids, key, Len(queue)) /\ sids["key1"] # NoQueue
      /\ q \in Seq(Messages) /\ "key1" \in Keys /\ "key2" \in Keys
  BY ServerFacts DEF ServerIds
<1>2. Requests = q
  BY <1>1, LiveId DEF Requests
<1>3. q # <<>> /\ Len(q) \in Nat \ {0} /\ 1 \in 1 .. Len(q) /\ Head(q) = q[1] /\ q[1] \in Messages
  BY <1>1, <1>2
<1>4. /\ KernelOK' /\ Len(queue') = Len(queue)
      /\ Q("key1")' = r /\ \A j \in Keys \ {"key1"} : Q(j)' = Q(j)
  BY <1>1, <1>3, TakeStep
<1>5. /\ Len(r) = Len(q) - 1 /\ \A k \in 1 .. Len(q) - 1 : r[k] = IF k < 1 THEN q[k] ELSE q[k + 1]
  BY <1>1, <1>3, RemoveFacts
<1>6. /\ \A n \in 1 .. Len(q) : ~Unsent(q[n].type) /\ q[n].data = path[q[n].type]
      /\ \A m, n \in 1 .. Len(q) : q[m].type = q[n].type => m = n
  BY DEF IndInv, RequestsOK
<1>7. UNCHANGED <<cpc, path>>
  BY DEF clientVars
<1> HIDE DEF q, r
<1>8. \A k \in 1 .. Len(r) : k + 1 \in 1 .. Len(q) /\ k + 1 # 1 /\ r[k] = q[k + 1]
  BY <1>3, <1>5
<1>9. ~Has(r, q[1].type) /\ Has(q, q[1].type)
  BY <1>3, <1>6, <1>8 DEF Has
<1>10. \A k \in 1 .. Len(r) : cpc'[r[k].type] \notin {"off", "get2", "send"} /\ r[k].data = path'[r[k].type]
  BY <1>6, <1>7, <1>8 DEF Unsent
<1>11. ASSUME NEW k \in 1 .. Len(r), NEW l \in 1 .. Len(r), r[k].type = r[l].type PROVE k = l
  <2>1. k + 1 = l + 1
    BY <1>6, <1>8, <1>11
  <2> QED BY <2>1
<1>12. RequestsOK'
  BY <1>4, <1>10, <1>11 DEF RequestsOK, Unsent
<1>13. \A d \in Clients : Has(r, d) => Has(q, d)
  BY <1>8 DEF Has
<1>14. \A d \in Clients : Fresh(d)' => Fresh(d)
  BY <1>4, <1>7, <1>13 DEF Fresh, Unsent, q
<1>15. ~Has(Q("key1")', q[1].type)
  BY <1>4, <1>9
<1> QED BY <1>1, <1>2, <1>3, <1>4, <1>6, <1>9, <1>12, <1>14, <1>15 DEF q

LEMMA ReceivePathInd == ASSUME IndInv, ReceivePath PROVE IndInv'
<1>1. /\ spc = "receive" /\ spc' = "send" /\ UNCHANGED clientVars /\ UNCHANGED <<servers, key, sids, offset>>
      /\ ~Removed(sids["key1"]) /\ Requests # <<>> /\ Take(sids["key1"], 1) /\ msg' = Head(Requests)
      /\ UNCHANGED <<cpc, ids, path, printed, ended>>
  BY DEF ReceivePath, ServerGoto, clientVars
<1> DEFINE c == Head(Requests).type
<1>2. /\ KernelOK' /\ Len(queue') = Len(queue) /\ Q("key2")' = Q("key2")
      /\ Head(Requests) \in Messages /\ Has(Q("key1"), c)
      /\ ~Has(Q("key1")', c) /\ ~Unsent(c) /\ Head(Requests).data = path[c]
      /\ RequestsOK' /\ \A d \in Clients : Fresh(d)' => Fresh(d)
  BY <1>1, TakeRequest
<1>3. c \in Clients /\ msg'.type = c /\ msg'.data = path[c] /\ msg' \in Messages
  BY <1>1, <1>2 DEF Messages
<1> HIDE DEF c
<1>4. /\ sids \in [Keys -> Nat] /\ Holds(sids, key, Len(queue)) /\ ServerIds
      /\ Q("key2") \in Seq(Messages)
  BY ServerFacts
<1>5. offset = 0 /\ Size(path[c]) \in Nat
  BY <1>1, SizeNat DEF IndInv, ServingOK
<1>6. BaseOK' /\ ServerIds' /\ RemovedOK'
  <2>1. BaseOK'
    BY <1>1 DEF IndInv, BaseOK
  <2>2. ServerIds'
    BY <1>1, <1>2, <1>4 DEF ServerIds
  <2>3. RemovedOK'
    BY <1>1, <1>2 DEF IndInv, IdsOK, RemovedOK, Removed
  <2> QED BY <2>1, <2>2, <2>3
<1>7. ServingOK'
  <2>1. ~(cpc'[c] \in {"off", "get2", "send"})
    BY <1>1, <1>2 DEF Unsent
  <2>2. ~Fresh(msg.type)'
    BY <1>2, <1>3, <2>1 DEF Fresh, Unsent
  <2> QED BY <1>1, <1>3, <1>5, <2>2 DEF ServingOK
<1>8. ASSUME NEW d \in Clients PROVE FlowOK(d)'
  <2>1. CASE d # c
    <3>1. ~Serving(d)' /\ (Attached(d)' => Attached(d))
      BY <1>1, <1>3, <2>1 DEF Serving, Attached
    <3> QED BY <1>1, <1>2, <3>1, FlowKept
  <2>2. CASE d = c
    <3>1. Fresh(c) /\ FreshOK(c)
      BY <1>2, <1>3, BaseFacts DEF Fresh
    <3>2. printed[c] = <<>> /\ ~Has(Q("key2"), c)
      BY <3>1 DEF FreshOK
    <3>3. Covers(Q("key2")', c, path'[c], 1, 0) /\ Len(printed'[c]) = 0
      BY <1>1, <1>2, <1>4, <3>2, EmptyFlow
    <3>4. Flows(d, 0)'
      BY <1>1, <1>5, <2>2, <3>3 DEF Flows
    <3> QED BY <3>4 DEF FlowOK
  <2> QED BY <2>1, <2>2
<1>9. key' = key
  BY <1>1
<1> QED BY <1>1, <1>2, <1>6, <1>7, <1>8, <1>9, ServerStep

LEMMA NoPathInd == ASSUME IndInv, NoPath PROVE IndInv'
<1>1. /\ spc = "receive" /\ spc' = "exit" /\ UNCHANGED clientVars /\ UNCHANGED <<servers, key, sids, msg, offset>>
      /\ UNCHANGED <<cpc, ids, path, printed, ended>>
  BY DEF NoPath, ServerGoto, clientVars
<1>2. /\ KernelOK' /\ Len(queue') = Len(queue) /\ Q("key2")' = Q("key2")
      /\ RequestsOK' /\ \A d \in Clients : Fresh(d)' => Fresh(d)
  <2>1. CASE Removed(sids["key1"]) /\ UNCHANGED queue
    <3>1. KernelOK' /\ Q("key1")' = Q("key1") /\ Q("key2")' = Q("key2")
      BY <1>1, <2>1 DEF IndInv, KernelOK, Q
    <3>2. \A d \in Clients : Unsent(d)' <=> Unsent(d)
      BY <1>1 DEF Unsent
    <3>3. RequestsOK' /\ \A d \in Clients : Fresh(d)' => Fresh(d)
      BY <1>1, <3>1, <3>2, RequestsKept
    <3> QED BY <2>1, <3>1, <3>3
  <2>2. CASE ~Removed(sids["key1"]) /\ Requests # <<>> /\ Take(sids["key1"], 1)
    BY <1>1, <2>2, TakeRequest
  <2> QED BY <2>1, <2>2 DEF NoPath
<1>3. ServerIds
  BY ServerFacts
<1>4. BaseOK' /\ ServerIds' /\ RemovedOK' /\ ServingOK'
  <2>1. BaseOK'
    BY <1>1 DEF IndInv, BaseOK
  <2>2. ServerIds'
    BY <1>1, <1>2, <1>3 DEF ServerIds
  <2>3. RemovedOK'
    BY <1>1, <1>2 DEF IndInv, IdsOK, RemovedOK, Removed
  <2>4. ServingOK'
    BY <1>1 DEF ServingOK
  <2> QED BY <2>1, <2>2, <2>3, <2>4
<1>5. ASSUME NEW d \in Clients PROVE FlowOK(d)'
  <2>1. ~Serving(d)' /\ (Attached(d)' => Attached(d))
    BY <1>1 DEF Serving, Attached
  <2> QED BY <1>1, <1>2, <2>1, FlowKept
<1>6. key' = key
  BY <1>1
<1> QED BY <1>1, <1>2, <1>4, <1>5, <1>6, ServerStep

\* The server sends the next part of the answer.
LEMMA SendPartInd ==
  ASSUME IndInv, spc = "send", spc' \in {"send", "exit"}, UNCHANGED clientVars,
         UNCHANGED <<servers, key, sids, msg>>,
         msgsnd(sids["key2"], [type |-> msg.type, data |-> Part(msg.data, offset + 1)]),
         \/ spc' = "send" /\ offset < Size(msg.data) /\ offset' = offset + 1
         \/ spc' = "exit" /\ offset' = offset
  PROVE  IndInv'
<1>c. PICK c \in Clients : c = msg.type
  BY DEF IndInv, ServingOK, Messages
<1> DEFINE m == [type |-> c, data |-> Part(msg.data, offset + 1)]
<1>1. /\ KernelOK /\ sids \in [Keys -> Nat] /\ Holds(sids, key, Len(queue)) /\ ServerIds
      /\ Q("key2") \in Seq(Messages) /\ "key1" \in Keys /\ "key2" \in Keys /\ offset \in Nat
      /\ sids["key2"] # NoQueue
  BY ServerFacts DEF ServerIds
<1>2. /\ msg \in Messages /\ c \in Clients /\ msg.data = path[c] /\ offset <= Size(path[c]) /\ ~Fresh(c)
  BY <1>c DEF IndInv, ServingOK
<1>3. UNCHANGED <<cpc, ids, path, printed, ended>>
  BY DEF clientVars
<1>4. /\ path[c] \in Paths /\ Size(path[c]) \in Nat /\ Len(printed[c]) \in Nat
  BY <1>2, BaseFacts
<1>5. m \in Messages /\ m.type = c /\ m.data = Part(path[c], offset + 1)
  <2>1. Part(path[c], offset + 1) \in Paths \cup (Paths \X Nat) \cup {EOF}
    BY <1>1, <1>4 DEF Part
  <2> QED BY <1>2, <2>1 DEF Messages
<1>6. /\ KernelOK' /\ Len(queue') = Len(queue)
      /\ \A j \in Keys \ {"key2"} : Q(j)' = Q(j)
      /\ Q("key2")' = IF sids["key2"] = key["key2"] THEN Append(Q("key2"), m) ELSE Q("key2")
  <2>1. msgsnd(sids["key2"], m) /\ UNCHANGED key
    BY <1>c
  <2> HIDE DEF m
  <2> QED BY <1>1, <1>5, <2>1, SendStep
<1> HIDE DEF m
<1>7. \A d \in Clients : Unsent(d)' <=> Unsent(d)
  BY <1>3 DEF Unsent
<1>8. Q("key1")' = Q("key1")
  BY <1>1, <1>6
<1>9. RequestsOK' /\ \A d \in Clients : Fresh(d)' => Fresh(d)
  BY <1>3, <1>7, <1>8, RequestsKept
<1>10. \A d \in Clients \ {c} : Has(Q("key2")', d) => Has(Q("key2"), d)
  <2>1. CASE sids["key2"] = key["key2"]
    <3> DEFINE q == Q("key2")
    <3>1. /\ Len(Append(q, m)) = Len(q) + 1 /\ Len(q) \in Nat
          /\ (\A k \in 1 .. Len(q) : Append(q, m)[k] = q[k])
          /\ Append(q, m)[Len(q) + 1] = m
      BY <1>1, <1>5, AppendFacts
    <3> HIDE DEF q
    <3>2. ASSUME NEW d \in Clients \ {c}, Has(Append(q, m), d) PROVE Has(q, d)
      <4>1. PICK n \in 1 .. Len(Append(q, m)) : Append(q, m)[n].type = d
        BY <3>2 DEF Has
      <4>2. n \in 1 .. Len(q) /\ q[n].type = d
        BY <1>5, <3>1, <4>1
      <4> QED BY <4>2 DEF Has
    <3> QED BY <1>6, <2>1, <3>2 DEF q
  <2>2. CASE sids["key2"] # key["key2"]
    BY <1>6, <2>2
  <2> QED BY <2>1, <2>2
<1>11. BaseOK'
  <2>1. offset' \in 0 .. Chunks + 1
    <3>1. Size(msg.data) <= Chunks + 1 /\ Chunks \in Nat /\ offset \in 0 .. Chunks + 1
      BY SizesAssumption DEF Size, IndInv, BaseOK
    <3>2. Size(msg.data) \in Nat
      BY SizeNat
    <3> QED BY <1>1, <3>1, <3>2
  <2> QED BY <1>3, <2>1 DEF IndInv, BaseOK
<1>12. ServerIds' /\ RemovedOK'
  <2>1. ServerIds'
    BY <1>1, <1>6 DEF ServerIds
  <2>2. RemovedOK'
    BY <1>3, <1>6 DEF IndInv, IdsOK, RemovedOK, Removed
  <2> QED BY <2>1, <2>2
<1>13. ServingOK'
  <2>1. CASE spc' = "exit"
    BY <2>1 DEF ServingOK
  <2>2. CASE spc' = "send"
    <3>1. offset' <= Size(msg.data) /\ Size(msg.data) \in Nat
      BY <1>1, <2>2, SizeNat
    <3>2. msg' = msg /\ msg'.data = path'[msg'.type]
      BY <1>c, <1>2, <1>3
    <3>3. ~Fresh(msg.type)'
      <4>1. ~Fresh(c)'
        BY <1>2, <1>9
      <4> QED BY <1>c, <3>2, <4>1
    <3> QED BY <1>2, <2>2, <3>1, <3>2, <3>3 DEF ServingOK
  <2> QED BY <2>1, <2>2
<1>14. ASSUME NEW d \in Clients \ {c} PROVE FlowOK(d)'
  <2> SUFFICES ASSUME Attached(d)' PROVE \E hi \in Nat : Flows(d, hi)'
    BY DEF FlowOK
  <2>0. FlowOK(d) /\ Len(printed[d]) \in Nat
    BY BaseFacts
  <2>1. PICK hi \in Nat : Flows(d, hi)
    BY <1>3, <2>0 DEF FlowOK, Attached
  <2>2. Covers(Q("key2"), d, path[d], Len(printed[d]) + 1, hi) /\ Len(printed[d]) + 1 \in Nat
    BY <2>0, <2>1 DEF Flows
  <2>3. Covers(Append(Q("key2"), m), d, path[d], Len(printed[d]) + 1, hi)
    <3>1. m.type # d
      BY <1>5
    <3> QED BY <1>1, <1>5, <2>2, <3>1, CoversOther
  <2>4. Covers(Q("key2")', d, path[d], Len(printed[d]) + 1, hi)
    BY <1>6, <2>2, <2>3
  <2>5. ~Serving(d)'
    BY <1>c DEF Serving
  <2>6. Flows(d, hi)'
    BY <1>3, <2>1, <2>4, <2>5 DEF Flows
  <2> QED BY <2>6
<1>15. FlowOK(c)'
  <2> SUFFICES ASSUME Attached(c)' PROVE \E hi \in Nat : Flows(c, hi)'
    BY DEF FlowOK
  <2>0. Attached(c)
    BY <1>3 DEF Attached
  <2>1. PICK hi \in Nat : Flows(c, hi)
    BY <1>2, <2>0, BaseFacts DEF FlowOK
  <2>2. /\ Len(printed[c]) <= hi /\ hi <= Size(path[c]) + 1
        /\ Covers(Q("key2"), c, path[c], Len(printed[c]) + 1, hi)
        /\ sids["key2"] = key["key2"] => hi = offset
    BY <1>c, <2>1 DEF Flows, Serving
  <2>3. CASE sids["key2"] = key["key2"]
    <3> DEFINE q == Q("key2")
               lo == Len(printed[c]) + 1
               p == path[c]
    <3>1. /\ q \in Seq(Messages) /\ lo \in Nat \ {0} /\ hi = offset /\ lo <= hi + 1 /\ hi <= Size(p)
          /\ Covers(q, c, p, lo, hi) /\ m \in Messages /\ m.type = c /\ m.data = Part(p, hi + 1)
      BY <1>1, <1>2, <1>4, <1>5, <2>2, <2>3
    <3> HIDE DEF q, lo, p
    <3>2. Covers(Append(q, m), c, p, lo, hi + 1)
      BY <1>2, <3>1, CoversNext
    <3>3. Covers(Q("key2")', c, path[c], Len(printed[c]) + 1, hi + 1)
      BY <1>6, <2>3, <3>2 DEF q, lo, p
    <3>4. Len(printed[c]) <= hi + 1 /\ hi + 1 <= Size(path[c]) + 1 /\ hi + 1 \in Nat
      BY <1>4, <2>2, <3>1 DEF p
    <3>5. spc' = "send" => hi + 1 = offset'
      BY <3>1
    <3>6. Flows(c, hi + 1)'
      BY <1>3, <3>3, <3>4, <3>5 DEF Flows, Serving
    <3> QED BY <3>4, <3>6
  <2>4. CASE sids["key2"] # key["key2"]
    <3>1. Q("key2")' = Q("key2")
      BY <1>6, <2>4
    <3>2. Flows(c, hi)'
      BY <1>3, <2>2, <2>4, <3>1 DEF Flows
    <3> QED BY <3>2
  <2> QED BY <2>3, <2>4
<1>16. \A d \in Clients : Fresh(d)' /\ Has(Q("key2")', d) => Has(Q("key2"), d)
  BY <1>2, <1>9, <1>10
<1>17. \A h \in [Keys -> Nat] : Holds(h, key, Len(queue)) => Holds(h, key', Len(queue'))
  BY <1>6
<1>18. \A d \in Clients : FlowOK(d)'
  BY <1>14, <1>15
<1> QED BY <1>6, <1>9, <1>11, <1>12, <1>13, <1>16, <1>17, <1>18, ServerStep

LEMMA ReplyFacts ==
  ASSUME NEW p
  PROVE  /\ Len(Reply(p)) = Size(p) /\ Size(p) \in Nat
         /\ \A k \in 1 .. Size(p) : Reply(p)[k] = <<p, k>>
<1>1. Size(p) \in Nat
  BY SizeNat
<1>2. Reply(p) = [k \in 1 .. Size(p) |-> <<p, k>>]
  BY DEF Reply, Size
<1> QED BY <1>1, <1>2

LEMMA SendChunkInd == ASSUME IndInv, SendChunk PROVE IndInv'
<1>1. /\ spc = "send" /\ spc' = "send" /\ UNCHANGED clientVars /\ UNCHANGED <<servers, key, sids, msg>>
      /\ offset < Len(Reply(msg.data)) /\ offset' = offset + 1
      /\ msgsnd(sids["key2"], [type |-> msg.type, data |-> Reply(msg.data)[offset + 1]])
  BY DEF SendChunk, ServerGoto
<1>2. offset \in Nat /\ offset < Size(msg.data) /\ Size(msg.data) \in Nat
  BY <1>1, ServerFacts, ReplyFacts
<1>3. Reply(msg.data)[offset + 1] = Part(msg.data, offset + 1)
  <2>1. offset + 1 \in 1 .. Size(msg.data) /\ offset + 1 <= Size(msg.data)
    BY <1>2
  <2> QED BY <2>1, ReplyFacts DEF Part
<1> QED BY <1>1, <1>2, <1>3, SendPartInd

LEMMA SendEOFInd == ASSUME IndInv, SendEOF PROVE IndInv'
<1>1. /\ spc = "send" /\ spc' = "exit" /\ UNCHANGED clientVars /\ UNCHANGED <<servers, key, sids, msg, offset>>
      /\ offset = Len(Reply(msg.data))
      /\ msgsnd(sids["key2"], [type |-> msg.type, data |-> EOF])
  BY DEF SendEOF, ServerGoto
<1>2. offset = Size(msg.data) /\ Size(msg.data) \in Nat
  BY <1>1, ReplyFacts
<1>3. Part(msg.data, offset + 1) = EOF
  BY <1>2 DEF Part
<1> QED BY <1>1, <1>3, SendPartInd

-----------------------------------------------------------------------------
(* The invariant holds always *)

LEMMA InitInd == Init => IndInv
<1> SUFFICES ASSUME Init PROVE IndInv
  OBVIOUS
<1>0. /\ key = [k \in Keys |-> 0] /\ queue = <<>> /\ Len(queue) = 0 /\ spc = "off"
      /\ sids = [k \in Keys |-> 0] /\ "key1" \in Keys /\ "key2" \in Keys
  BY DEF Init, NoQueue, Keys
<1>1. KernelOK
  <2>1. queue \in Seq(Seq(Messages))
    BY <1>0
  <2> QED BY <1>0, <2>1 DEF KernelOK, Holds, NoQueue
<1>2. BaseOK
  <2>1. offset \in 0 .. Chunks + 1 /\ servers \in 0 .. MaxServers
    <3>1. offset = 0 /\ servers = 0
      BY DEF Init
    <3> QED BY <3>1, SizesAssumption
  <2>2. printed \in [Clients -> Seq(Paths \X Nat)]
    <3>1. printed = [c \in Clients |-> <<>>]
      BY DEF Init
    <3>2. <<>> \in Seq(Paths \X Nat)
      BY EmptySeq
    <3> QED BY <3>1, <3>2
  <2>3. ids \in [Clients -> [Keys -> Nat]] /\ sids \in [Keys -> Nat] /\ path \in [Clients -> Paths]
    BY DEF Init, NoQueue, Paths
  <2> QED BY <2>1, <2>2, <2>3 DEF Init, BaseOK
<1>3. IdsOK
  <2>1. ServerIds /\ RemovedOK
    BY <1>0 DEF ServerIds, RemovedOK, Holds, NoQueue
  <2>2. ASSUME NEW c \in Clients PROVE ClientIds(c)
    <3>1. ids[c] = [k \in Keys |-> 0] /\ cpc[c] = "off" /\ ended[c] = "no"
      BY DEF Init, NoQueue
    <3> QED BY <1>0, <3>1 DEF ClientIds, Holds, NoQueue
  <2> QED BY <2>1, <2>2 DEF IdsOK
<1>4. Len(Q("key1")) = 0 /\ Len(Q("key2")) = 0
  BY <1>0 DEF Q, NoQueue
<1>5. RequestsOK /\ ServingOK
  BY <1>0, <1>4 DEF RequestsOK, ServingOK
<1>6. ASSUME NEW c \in Clients PROVE FreshOK(c) /\ FlowOK(c) /\ OutputOK(c)
  <2>1. printed[c] = <<>> /\ Len(printed[c]) = 0 /\ ended[c] = "no" /\ ids[c]["key2"] = 0
    BY <1>0 DEF Init, NoQueue
  <2>2. Size(path[c]) \in Nat
    BY SizeNat
  <2> QED BY <1>0, <1>4, <2>1, <2>2 DEF FreshOK, Has, FlowOK, Attached, NoQueue, OutputOK
<1> QED BY <1>1, <1>2, <1>3, <1>5, <1>6 DEF IndInv

LEMMA StutterInd == ASSUME IndInv, UNCHANGED vars PROVE IndInv'
<1>1. UNCHANGED <<key, queue, cpc, ids, path, printed, ended, spc, sids, msg, offset, servers>>
  BY DEF vars, clientVars, serverVars
<1>2. KernelOK' /\ BaseOK'
  BY <1>1 DEF IndInv, KernelOK, BaseOK
<1>3. Q("key1")' = Q("key1") /\ Q("key2")' = Q("key2")
  BY <1>1 DEF Q
<1>4. IdsOK'
  BY <1>1 DEF IndInv, IdsOK, ServerIds, RemovedOK, ClientIds, Removed
<1>5. RequestsOK' /\ ServingOK'
  BY <1>1, <1>3 DEF IndInv, RequestsOK, ServingOK, Fresh, Unsent
<1>6. ASSUME NEW c \in Clients PROVE FreshOK(c)' /\ FlowOK(c)' /\ OutputOK(c)'
  <2>1. FreshOK(c) /\ FlowOK(c) /\ OutputOK(c)
    BY DEF IndInv
  <2>2. FreshOK(c)' /\ OutputOK(c)'
    BY <1>1, <1>3, <2>1 DEF FreshOK, Fresh, Unsent, OutputOK
  <2>3. FlowOK(c)'
    BY <1>1, <1>3, <2>1 DEF FlowOK, Attached, Flows, Serving
  <2> QED BY <2>2, <2>3
<1> QED BY <1>2, <1>4, <1>5, <1>6 DEF IndInv

LEMMA ClientInd == ASSUME IndInv, NEW c \in Clients, ClientGet1(c) \/ client(c) PROVE IndInv'
<1>0. "key1" \in Keys /\ "key2" \in Keys
  BY DEF Keys
<1>1. CASE ClientGet1(c)
  BY <1>0, <1>1, GetInd DEF ClientGet1
<1>2. CASE ClientGet2(c)
  BY <1>0, <1>2, GetInd DEF ClientGet2
<1>3. CASE ClientRemove2(c)
  BY <1>0, <1>3, RemoveInd DEF ClientRemove2
<1>4. CASE ClientRemove1(c)
  BY <1>0, <1>4, RemoveInd DEF ClientRemove1
<1> QED BY <1>1, <1>2, <1>3, <1>4, SendPathInd, ReceiveInd, ReceiveEOFInd, ReceiveErrorInd DEF client

LEMMA Inductive == Spec => []IndInv
<1>1. ASSUME IndInv, Next PROVE IndInv'
  BY <1>1, ClientInd, ServerGet1Ind, ServerGet2Ind, ReceivePathInd, NoPathInd, SendChunkInd, SendEOFInd
     DEF Next, server
<1>2. IndInv /\ [Next]_vars => IndInv'
  BY <1>1, StutterInd
<1> QED BY <1>2, InitInd, PTL DEF Spec

\* Every variable keeps its type: queues stay within their bound, also when clients
\* send to queues that have been removed and created again, and every message has
\* the pid of a client as its type.
THEOREM TypeCorrect == Spec => []TypeOK
<1>1. IndInv => TypeOK
  <2> SUFFICES ASSUME IndInv PROVE TypeOK
    OBVIOUS
  <2>1. KernelOK /\ queue \in Seq(Seq(Messages))
    BY DEF IndInv, KernelOK
  <2>2. key \in [Keys -> 0 .. Len(queue)]
    <3>1. \A k \in Keys : key[k] \in 0 .. Len(queue)
      BY <2>1, KernelFacts
    <3> QED BY <2>1, <3>1 DEF KernelOK
  <2>3. ASSUME NEW id \in DOMAIN queue
        PROVE  Len(queue[id]) <= QBytes /\ \A n \in DOMAIN queue[id] : queue[id][n].type \in Clients
    <3>1. id \in 1 .. Len(queue)
      BY <2>1
    <3>2. queue[id] \in Seq(Messages) /\ Len(queue[id]) <= QBytes
      BY <2>1, <3>1, KernelFacts
    <3>3. \A n \in DOMAIN queue[id] : queue[id][n] \in Messages
      BY <3>2
    <3> QED BY <3>2, <3>3 DEF Messages
  <2> QED BY <2>2, <2>3 DEF IndInv, BaseOK, TypeOK
<1> QED BY <1>1, Inductive, PTL

\* However many clients and servers share the queues, and whoever removes them: a
\* client prints the reply to its own path, in order and without a gap, all of it if
\* its loop ends with the message of length 0, and its loop ends with an error of
\* msgrcv only if another client has finished and removed the queue.
THEOREM RepliesAreOwn == Spec => []OwnReplyInOrder
<1>1. IndInv => OwnReplyInOrder
  <2> SUFFICES ASSUME IndInv, NEW c \in Clients
               PROVE  /\ IsPrefix(printed[c], Reply(path[c]))
                      /\ ended[c] = "EOF" => printed[c] = Reply(path[c])
                      /\ ended[c] = "error" => \E d \in Clients \ {c} : ended[d] # "no"
    BY DEF OwnReplyInOrder
  <2> DEFINE s == printed[c]
             t == Reply(path[c])
  <2>1. /\ s \in Seq(Paths \X Nat) /\ Len(s) \in Nat /\ OutputOK(c) /\ path[c] \in Paths
    BY BaseFacts
  <2>2. /\ Len(t) = Size(path[c]) /\ Size(path[c]) \in Nat
        /\ \A k \in 1 .. Size(path[c]) : t[k] = <<path[c], k>>
    BY ReplyFacts
  <2>3. t \in Seq(Paths \X Nat)
    <3>1. t = [k \in 1 .. Size(path[c]) |-> <<path[c], k>>]
      BY DEF Reply, Size
    <3>2. \A k \in 1 .. Size(path[c]) : <<path[c], k>> \in Paths \X Nat
      BY <2>1, <2>2
    <3> HIDE DEF t
    <3> QED BY <2>2, <3>1, <3>2
  <2>4. Len(s) <= Len(t) /\ \A k \in 1 .. Len(s) : s[k] = t[k]
    <3>1. Len(s) <= Size(path[c]) /\ \A k \in 1 .. Len(s) : s[k] = <<path[c], k>>
      BY <2>1 DEF OutputOK
    <3> HIDE DEF s, t
    <3>2. \A k \in 1 .. Len(s) : k \in 1 .. Size(path[c])
      BY <2>1, <2>2, <3>1
    <3> QED BY <2>2, <3>1, <3>2
  <2>5. ended[c] = "EOF" => Len(s) = Len(t)
    BY <2>1, <2>2 DEF OutputOK
  <2>6. ended[c] = "error" => \E d \in Clients \ {c} : ended[d] # "no"
    BY <2>1 DEF OutputOK
  <2> HIDE DEF s, t
  <2>7. SubSeq(s, 1, Len(s)) = SubSeq(t, 1, Len(s))
    BY <2>1, <2>3, <2>4
  <2>8. Len(s) = Len(t) => s = t
    BY <2>1, <2>3, <2>4, SeqEqual
  <2> QED BY <2>4, <2>5, <2>6, <2>7, <2>8 DEF IsPrefix, s, t
<1> QED BY <1>1, Inductive, PTL
=============================================================================
