---------------------------- MODULE DevSrv_proofs ----------------------------
(***************************************************************************)
(* Proofs about DevSrv for any number of clients, slots and requests.       *)
(***************************************************************************)
EXTENDS DevSrv, FiniteSetTheorems, NaturalsInduction, TLAPS

\* The file is in the hands of these clients.
Users == {c \in Clients : pc[c] \notin {"new", "closed"}}

\* Every reference is accounted for: the users', the directory's, and one for
\* the channels as long as one of them is there; the directory's goes with the
\* second channel at the latest.
RefInv ==
    /\ ref = Cardinality(Users) + (IF entry THEN 1 ELSE 0)
                                + (IF \E d \in Dirs : isopen[d] THEN 1 ELSE 0)
    /\ entry => \E d \in Dirs : isopen[d]
    /\ freed <=> ref = 0

\* How far the server's end has come tells which channels are there.
OpenInv ==
    /\ isopen["read"] <=> srv \in {"run", "free_read"}
    /\ isopen["write"] <=> srv \in {"run", "free_read", "kill_read", "free_write"}

\* A client is blocked on one channel at one place, and only while it waits.
QueueInv ==
    /\ \A d \in Dirs : \A i \in DOMAIN sendq[d] : pc[sendq[d][i]] \in {"block", "blocked"}
    /\ \A d, e \in Dirs : \A i \in DOMAIN sendq[d], j \in DOMAIN sendq[e] :
         sendq[d][i] = sendq[e][j] => d = e /\ i = j

\* Messages are named by client and number.
Same(a, b) == a.c = b.c /\ a.n = b.n

\* Requests are numbered from 1, never ahead of their client, and held by a
\* server that runs.
CountInv ==
    /\ \A c \in Clients : pc[c] \in Pending => n[c] > 0
    /\ \A r \in held : r.n \in 1..n[r.c]
    /\ held # {} => srv = "run"
    /\ \A d \in Dirs : \A i \in DOMAIN buf[d] :
         buf[d][i].n # Nil => buf[d][i].n \in 1..n[buf[d][i].c]

\* A request is in one place only.
TokenInv ==
    /\ \A d \in Dirs : \A i \in DOMAIN buf[d] : \A r \in held : ~Same(buf[d][i], r)
    /\ \A d, e \in Dirs : \A i \in DOMAIN buf[d], j \in DOMAIN buf[e] :
         Same(buf[d][i], buf[e][j]) /\ buf[d][i].n # Nil => d = e /\ i = j

\* The latest request of c is with the server or on its way.
Outstanding(c) ==
    \/ \E r \in held : r.c = c /\ r.n = n[c]
    \/ \E d \in Dirs : \E i \in DOMAIN buf[d] : buf[d][i].c = c /\ buf[d][i].n = n[c]

\* While the server runs, the latest request is outstanding only if its client
\* has sent it and got no answer, or has given up; an answer is in the reply
\* channel only before its client has come to look.
OutInv ==
    /\ srv = "run" => \A c \in Clients :
         Outstanding(c) /\ pc[c] \in Pending => pc[c] \in {"sent", "await"} /\ rcbuf[c] = Nil
    /\ \A c \in Clients : rcbuf[c] # Nil /\ pc[c] \in Pending => pc[c] = "sent"

\* What is in a reply channel is the answer to the latest request.
AnswerInv ==
    /\ \A c \in Clients : rcbuf[c] \in {Nil, n[c]}
    /\ RightAnswer

\* The clients that are in the list until srvcancelreqs comes.
In == {c \in Clients : pc[c] \in {"await", "answered"}}

\* The links nx and pv make a ring of the head and the clients in I.  Along the
\* ring a rank grows from the head on, so there is one ring and not several.
Ring(nx, pv, I) ==
    /\ \A x \in I \cup {File} : /\ nx[x] \in I \cup {File} /\ pv[x] \in I \cup {File}
                                /\ nx[pv[x]] = x /\ pv[nx[x]] = x
    /\ \E rank \in [Nodes -> Nat] : \A x \in I : rank[pv[x]] < rank[x]

\* The list is such a ring as long as a channel is there.
RingInv == (\E d \in Dirs : isopen[d]) => Ring(next, prev, In)

\* A close notice is from a client that has closed the file, and the last of it.
NoticeInv ==
    /\ \A d \in Dirs : \A i \in DOMAIN buf[d] : buf[d][i].n = Nil => pc[buf[d][i].c] = "closed"
    /\ \A d \in Dirs : \A i, j \in DOMAIN buf[d] :
         i < j /\ buf[d][i].n = Nil => buf[d][j].c # buf[d][i].c

IInv ==
    /\ RefInv /\ OpenInv /\ QueueInv /\ CountInv /\ TokenInv /\ OutInv
    /\ AnswerInv /\ NoticeInv /\ RingInv
    /\ TypeOK

----------------------------------------------------------------------------
(* Queues *)

\* Without keeps the order of the others and takes out nobody but p.
LEMMA WithoutKeeps ==
  ASSUME NEW S, NEW q \in Seq(S), NEW p,
         \A i, j \in DOMAIN q : q[i] = q[j] => i = j
  PROVE  /\ Without(q, p) \in Seq(S)
         /\ \A a \in DOMAIN Without(q, p) : \E i \in DOMAIN q :
              Without(q, p)[a] = q[i] /\ q[i] # p
         /\ \A a, b \in DOMAIN Without(q, p) :
              Without(q, p)[a] = Without(q, p)[b] => a = b
<1> DEFINE at == {i \in 1..Len(q) : q[i] = p}
           k == CHOOSE i \in at : TRUE
           w == [j \in 1..(Len(q) - 1) |-> IF j < k THEN q[j] ELSE q[j + 1]]
<1>1. CASE at = {}
  <2>1. Without(q, p) = q
    BY <1>1 DEF Without
  <2> QED
    BY <1>1, <2>1
<1>2. CASE at # {}
  <2>1. Without(q, p) = w
    BY <1>2 DEF Without
  <2>2. k \in 1..Len(q) /\ q[k] = p
    BY <1>2
  <2> HIDE DEF k, at
  <2>3. w \in Seq(S) /\ DOMAIN w = 1..(Len(q) - 1)
    BY <2>2
  <2>4. ASSUME NEW a \in 1..(Len(q) - 1)
        PROVE  \E i \in DOMAIN q : w[a] = q[i] /\ q[i] # p /\ i = (IF a < k THEN a ELSE a + 1)
    BY <2>2
  <2>5. ASSUME NEW a \in 1..(Len(q) - 1), NEW b \in 1..(Len(q) - 1), w[a] = w[b]
        PROVE  a = b
    BY <2>2, <2>4, <2>5
  <2> HIDE DEF w
  <2> QED
    BY <2>1, <2>3, <2>4, <2>5
<1> QED
  BY <1>1, <1>2

\* What Append does, element by element.
LEMMA AppendElements ==
  ASSUME NEW S, NEW s \in Seq(S), NEW x \in S
  PROVE  /\ Append(s, x) \in Seq(S)
         /\ Len(Append(s, x)) = Len(s) + 1
         /\ DOMAIN Append(s, x) = DOMAIN s \cup {Len(s) + 1}
         /\ Append(s, x)[Len(s) + 1] = x
         /\ \A i \in DOMAIN s : i \in Nat /\ i <= Len(s) /\ Append(s, x)[i] = s[i]
OBVIOUS

\* What Tail does, element by element.
LEMMA TailElements ==
  ASSUME NEW S, NEW s \in Seq(S), s # <<>>
  PROVE  /\ Tail(s) \in Seq(S)
         /\ Len(Tail(s)) = Len(s) - 1
         /\ 1 \in DOMAIN s /\ Head(s) = s[1] /\ Head(s) \in S
         /\ \A i \in DOMAIN Tail(s) :
              i \in Nat /\ i > 0 /\ i + 1 \in DOMAIN s /\ Tail(s)[i] = s[i + 1]
OBVIOUS

\* The parts of a message.
LEMMA MessageParts ==
  ASSUME NEW m \in Messages
  PROVE  m.c \in Clients /\ m.n \in 1..MaxReqs \cup {Nil}
BY DEF Messages

\* b is a without its head or all of a, and perhaps one of N at the end.
Moved(a, b, N) ==
    \E k \in {0, 1} : \A i \in DOMAIN b :
      /\ i \in Nat
      /\ \/ i + k \in DOMAIN a /\ b[i] = a[i + k]
         \/ i + k = Len(a) + 1 /\ b[i] \in N

\* What happens to a buffer is such a move.
LEMMA Moves ==
  ASSUME NEW S, NEW s \in Seq(S), NEW x \in S, NEW N
  PROVE  /\ Moved(s, s, N)
         /\ Moved(s, <<>>, N)
         /\ Moved(s, Append(s, x), {x})
         /\ s # <<>> => Moved(s, Tail(s), N) /\ Moved(s, Append(Tail(s), x), {x})
<1>1. Moved(s, s, N) /\ Moved(s, <<>>, N)
  <2>1. \A i \in DOMAIN s : i \in Nat /\ i + 0 \in DOMAIN s /\ s[i] = s[i + 0]
    OBVIOUS
  <2>2. DOMAIN <<>> = {}
    OBVIOUS
  <2> QED
    BY <2>1, <2>2, 0 \in {0, 1} DEF Moved
<1>2. Moved(s, Append(s, x), {x})
  <2>1. \A i \in DOMAIN Append(s, x) : i \in Nat
    BY AppendElements
  <2>2. \A i \in DOMAIN Append(s, x) :
          \/ i + 0 \in DOMAIN s /\ Append(s, x)[i] = s[i + 0]
          \/ i + 0 = Len(s) + 1 /\ Append(s, x)[i] \in {x}
    BY AppendElements
  <2> QED
    BY <2>1, <2>2 DEF Moved
<1>3. ASSUME s # <<>> PROVE Moved(s, Tail(s), N) /\ Moved(s, Append(Tail(s), x), {x})
  <2> DEFINE t == Tail(s)
  <2>1. /\ t \in Seq(S) /\ Len(t) = Len(s) - 1 /\ Len(s) \in Nat
        /\ \A i \in DOMAIN t : i \in Nat /\ i + 1 \in DOMAIN s /\ t[i] = s[i + 1]
    BY <1>3, TailElements
  <2> HIDE DEF t
  <2>2. Moved(s, t, N)
    BY <2>1 DEF Moved
  <2>3. \A i \in DOMAIN Append(t, x) :
          \/ i + 1 \in DOMAIN s /\ Append(t, x)[i] = s[i + 1]
          \/ i + 1 = Len(s) + 1 /\ Append(t, x)[i] \in {x}
    BY <2>1, AppendElements
  <2>4. \A i \in DOMAIN Append(t, x) : i \in Nat
    BY <2>1, AppendElements
  <2>5. Moved(s, Append(t, x), {x})
    BY <2>3, <2>4 DEF Moved
  <2> QED
    BY <2>2, <2>5 DEF t
<1> QED
  BY <1>1, <1>2, <1>3

\* What a step may add to the buffers: one request, or close notices.
Added(N) ==
    /\ \A e \in Dirs : \A m \in N[e] :
         /\ m \in Messages
         /\ \/ m.n = Nil /\ pc[m.c] \in {"walked", "idle"} /\ pc'[m.c] = "closed"
            \/ m.n = n'[m.c] /\ n'[m.c] = n[m.c] + 1 /\ pc[m.c] = "idle"
            \/ /\ m.n = n'[m.c] /\ n'[m.c] = n[m.c] /\ n[m.c] > 0
               /\ pc[m.c] \in {"block", "blocked"} /\ srv = "run"
    /\ \A e, f \in Dirs : \A m \in N[e], k \in N[f] : m.n # Nil => e = f /\ m = k

----------------------------------------------------------------------------
(* The waiting list *)

\* A set of numbers has a least element.
LEMMA Least ==
  ASSUME NEW T, T \subseteq Nat, T # {}
  PROVE  \E x \in T : \A y \in T : x <= y
<1>1. PICK x \in T : \A y \in T : ~(<<y, x>> \in OpToRel(<, Nat))
  BY NatLessThanWellFounded, WFMin
<1>2. \A y \in T : ~(y < x)
  BY <1>1 DEF OpToRel
<1> QED
  BY <1>2

\* addwaiting of the source, done to a ring.
LEMMA RingLink ==
  ASSUME NEW nx \in [Nodes -> Nodes], NEW pv \in [Nodes -> Nodes],
         NEW I, I \subseteq Clients, NEW c \in Clients, c \notin I, Ring(nx, pv, I)
  PROVE  Ring([nx EXCEPT ![c] = File, ![pv[File]] = c],
              [pv EXCEPT ![c] = pv[File], ![File] = c], I \cup {c})
<1> DEFINE last == pv[File]
           mx == [nx EXCEPT ![c] = File, ![pv[File]] = c]
           qv == [pv EXCEPT ![c] = pv[File], ![File] = c]
<1>1. /\ File \notin Clients /\ c \in Nodes /\ File \in Nodes /\ I \subseteq Nodes
      /\ last \in I \cup {File} /\ last \in Nodes /\ last # c /\ nx[last] = File
  BY DevSrvAssumption DEF Nodes, Ring
<1>2. \A x \in Nodes : mx[x] = IF x = last THEN c ELSE IF x = c THEN File ELSE nx[x]
  BY <1>1
<1>3. \A x \in Nodes : qv[x] = IF x = File THEN c ELSE IF x = c THEN last ELSE pv[x]
  BY <1>1
<1>4. \A x \in I \cup {File} : /\ nx[x] \in I \cup {File} /\ pv[x] \in I \cup {File}
                               /\ nx[pv[x]] = x /\ pv[nx[x]] = x
  BY DEF Ring
<1>5. PICK rank \in [Nodes -> Nat] : \A x \in I : rank[pv[x]] < rank[x]
  BY DEF Ring
<1> HIDE DEF mx, qv, last
<1>6. ASSUME NEW x \in I \cup {c} \cup {File}
      PROVE  /\ mx[x] \in I \cup {c} \cup {File} /\ qv[x] \in I \cup {c} \cup {File}
             /\ mx[qv[x]] = x /\ qv[mx[x]] = x
  <2>1. pv[File] = last
    BY DEF last
  <2>2. CASE x = c
    BY <2>2, <1>1, <1>2, <1>3
  <2>3. CASE x = File
    BY <2>1, <2>3, <1>1, <1>2, <1>3, <1>4
  <2>4. CASE x \in I
    <3>1. x # c /\ x # File /\ x \in Nodes
      BY <2>4, <1>1
    <3>2. pv[x] \in I \cup {File} /\ nx[pv[x]] = x /\ pv[x] # last /\ pv[x] # c /\ qv[x] = pv[x]
      BY <2>4, <3>1, <1>1, <1>3, <1>4
    <3>3. mx[qv[x]] = x
      BY <3>2, <1>1, <1>2
    <3>4. CASE x = last
      BY <3>1, <3>2, <3>3, <3>4, <1>1, <1>2, <1>3
    <3>5. CASE x # last
      <4>1. nx[x] \in I \cup {File} /\ pv[nx[x]] = x /\ mx[x] = nx[x] /\ nx[x] # c
        BY <2>4, <3>1, <3>5, <1>1, <1>2, <1>4
      <4>2. nx[x] # File
        BY <4>1, <3>5, <2>1
      <4> QED
        BY <4>1, <4>2, <3>2, <3>3, <1>1, <1>3
    <3> QED
      BY <3>4, <3>5
  <2> QED
    BY <2>2, <2>3, <2>4
<1>7. \E q \in [Nodes -> Nat] : \A x \in I \cup {c} : q[qv[x]] < q[x]
  <2> DEFINE q == [rank EXCEPT ![c] = rank[last] + 1]
  <2>1. q \in [Nodes -> Nat] /\ q[c] = rank[last] + 1 /\ rank[last] \in Nat
    BY <1>1, <1>5
  <2>2. \A x \in Nodes : x # c => q[x] = rank[x]
    BY <1>5
  <2> HIDE DEF q
  <2>3. q[qv[c]] < q[c]
    BY <2>1, <2>2, <1>1, <1>3
  <2>4. ASSUME NEW x \in I PROVE q[qv[x]] < q[x]
    <3>1. x # c /\ x # File /\ x \in Nodes /\ qv[x] = pv[x] /\ pv[x] # c /\ pv[x] \in Nodes
      BY <1>1, <1>3, <1>4
    <3> QED
      BY <3>1, <2>2, <1>5
  <2> QED
    BY <2>1, <2>3, <2>4
<1> QED
  BY <1>6, <1>7 DEF Ring, mx, qv

\* delwaiting of the source, done to a ring.
LEMMA RingUnlink ==
  ASSUME NEW nx \in [Nodes -> Nodes], NEW pv \in [Nodes -> Nodes],
         NEW I, I \subseteq Clients, NEW c \in I, Ring(nx, pv, I)
  PROVE  Ring([nx EXCEPT ![pv[c]] = nx[c]], [pv EXCEPT ![nx[c]] = pv[c]], I \ {c})
<1> DEFINE a == pv[c]
           b == nx[c]
           mx == [nx EXCEPT ![pv[c]] = nx[c]]
           qv == [pv EXCEPT ![nx[c]] = pv[c]]
<1>1. \A x \in I \cup {File} : /\ nx[x] \in I \cup {File} /\ pv[x] \in I \cup {File}
                               /\ nx[pv[x]] = x /\ pv[nx[x]] = x
  BY DEF Ring
<1>2. PICK rank \in [Nodes -> Nat] : \A x \in I : rank[pv[x]] < rank[x]
  BY DEF Ring
<1>3. /\ File \notin Clients /\ c \in Nodes /\ File \in Nodes /\ I \subseteq Nodes /\ c # File
      /\ a \in I \cup {File} /\ a \in Nodes /\ nx[a] = c
      /\ b \in I \cup {File} /\ b \in Nodes /\ pv[b] = c
  BY <1>1, DevSrvAssumption DEF Nodes
<1>4. a # c /\ b # c
  <2>1. rank[a] < rank[c] /\ rank[a] \in Nat /\ rank[c] \in Nat
    BY <1>2, <1>3
  <2>2. a # c
    BY <2>1
  <2> QED
    BY <2>2, <1>3
<1>5. \A x \in Nodes : mx[x] = IF x = a THEN b ELSE nx[x]
  BY <1>3
<1>6. \A x \in Nodes : qv[x] = IF x = b THEN a ELSE pv[x]
  BY <1>3
<1> HIDE DEF mx, qv
<1>7. ASSUME NEW x \in (I \ {c}) \cup {File}
      PROVE  /\ mx[x] \in (I \ {c}) \cup {File} /\ qv[x] \in (I \ {c}) \cup {File}
             /\ mx[qv[x]] = x /\ qv[mx[x]] = x
  <2>1. x # c /\ x \in Nodes /\ x \in I \cup {File}
    BY <1>3
  <2>2. /\ nx[x] \in I \cup {File} /\ pv[x] \in I \cup {File}
        /\ nx[pv[x]] = x /\ pv[nx[x]] = x
    BY <2>1, <1>1
  <2> HIDE DEF a, b
  <2>3. nx[x] = c => x = a
    BY <2>2 DEF a
  <2>4. pv[x] = c => x = b
    BY <2>2 DEF b
  <2>5. mx[x] \in (I \ {c}) \cup {File} /\ qv[mx[x]] = x
    <3>1. CASE x = a
      BY <3>1, <2>1, <1>3, <1>4, <1>5, <1>6
    <3>2. CASE x # a
      <4>1. mx[x] = nx[x] /\ nx[x] # c /\ nx[x] \in Nodes
        BY <3>2, <2>1, <2>2, <2>3, <1>3, <1>5
      <4>2. nx[x] # b
        BY <2>1, <2>2, <1>3
      <4> QED
        BY <4>1, <4>2, <2>2, <1>6
    <3> QED
      BY <3>1, <3>2
  <2>6. qv[x] \in (I \ {c}) \cup {File} /\ mx[qv[x]] = x
    <3>1. CASE x = b
      BY <3>1, <2>1, <1>3, <1>4, <1>5, <1>6
    <3>2. CASE x # b
      <4>1. qv[x] = pv[x] /\ pv[x] # c /\ pv[x] \in Nodes
        BY <3>2, <2>1, <2>2, <2>4, <1>3, <1>6
      <4>2. pv[x] # a
        BY <2>1, <2>2, <1>3
      <4> QED
        BY <4>1, <4>2, <2>2, <1>5
    <3> QED
      BY <3>1, <3>2
  <2> QED
    BY <2>5, <2>6
<1>8. \A x \in I \ {c} : rank[qv[x]] < rank[x]
  <2> SUFFICES ASSUME NEW x \in I \ {c} PROVE rank[qv[x]] < rank[x]
    OBVIOUS
  <2>1. x \in Nodes /\ pv[x] \in Nodes /\ rank[pv[x]] < rank[x]
    BY <1>2, <1>3
  <2>2. rank[a] < rank[c] /\ rank[a] \in Nat /\ rank[c] \in Nat /\ rank[x] \in Nat
    BY <2>1, <1>2, <1>3
  <2> HIDE DEF a, b
  <2>3. CASE x = b
    BY <2>1, <2>2, <2>3, <1>3, <1>6
  <2>4. CASE x # b
    BY <2>1, <2>4, <1>6
  <2> QED
    BY <2>3, <2>4
<1> QED
  BY <1>7, <1>8 DEF Ring, mx, qv

\* srvcancelreqs meets the members of the ring.
LEMMA ListIs ==
  ASSUME next \in [Nodes -> Nodes], prev \in [Nodes -> Nodes], Ring(next, prev, In)
  PROVE  waitlist = In
<1>1. \A x \in In \cup {File} : /\ next[x] \in In \cup {File} /\ prev[x] \in In \cup {File}
                                /\ next[prev[x]] = x
  BY DEF Ring
<1>2. PICK rank \in [Nodes -> Nat] : \A x \in In : rank[prev[x]] < rank[x]
  BY DEF Ring
<1>3. In \subseteq Clients /\ In \cup {File} \in SUBSET Nodes /\ File \notin Clients
  BY DevSrvAssumption DEF In, Nodes
<1>4. ASSUME NEW c \in waitlist PROVE c \in In
  <2>1. c \in Clients /\ c \in In \cup {File}
    BY <1>1, <1>3 DEF waitlist
  <2> QED
    BY <2>1, <1>3
<1>5. ASSUME NEW S \in SUBSET Nodes, File \in S, \A x \in S : next[x] \in S
      PROVE  In \subseteq S
  <2> DEFINE T == {rank[x] : x \in In \ S}
  <2>1. SUFFICES ASSUME In \ S # {} PROVE FALSE
    OBVIOUS
  <2>2. T \subseteq Nat /\ T # {}
    BY <2>1, <1>2, <1>3
  <2>3. PICK k \in T : \A y \in T : k <= y
    BY <2>2, Least
  <2>4. PICK x \in In \ S : rank[x] = k
    BY <2>3
  <2>5. prev[x] \in In \cup {File} /\ next[prev[x]] = x /\ rank[prev[x]] < rank[x]
    BY <1>1, <1>2
  <2>6. rank[prev[x]] \in Nat /\ rank[x] \in Nat
    BY <2>5, <1>2, <1>3
  <2>7. prev[x] \notin In \ S
    <3>1. SUFFICES ASSUME prev[x] \in In \ S PROVE FALSE
      OBVIOUS
    <3>2. rank[prev[x]] \in T
      BY <3>1
    <3>3. k <= rank[prev[x]]
      BY <3>2, <2>3
    <3> HIDE DEF T
    <3> QED
      BY <3>3, <2>4, <2>5, <2>6
  <2>8. prev[x] \in S
    BY <2>5, <2>7, <1>5
  <2> QED
    BY <2>4, <2>5, <2>8, <1>5
<1>6. ASSUME NEW c \in In PROVE c \in waitlist
  BY <1>3, <1>5 DEF waitlist
<1> QED
  BY <1>4, <1>6

\* When the second channel goes, the list holds the waiting clients.
LEMMA Waiters ==
  ASSUME IInv, NEW d \in Dirs, freechan(d)
  PROVE  \A x \in waitlist : x \in Clients /\ pc[x] \in {"await", "answered"} /\ rcbuf[x] = Nil
<1>1. isopen["write"]
  BY DEF IInv, OpenInv, freechan
<1>2. waitlist = In
  BY <1>1, ListIs DEF IInv, TypeOK, RingInv, Dirs
<1>3. \A x \in Clients : rcbuf[x] # Nil /\ pc[x] \in Pending => pc[x] = "sent"
  BY DEF IInv, OutInv
<1> QED
  BY <1>2, <1>3 DEF In, Pending

----------------------------------------------------------------------------
(* The parts of the invariant *)

\* Channels go one after the other.
LEMMA NextOpen ==
  ASSUME IInv, [Next]_vars
  PROVE  OpenInv'
<1>20. isopen \in [Dirs -> BOOLEAN]
  BY DEF IInv, TypeOK
<1>21. OpenInv
  BY DEF IInv
<1> USE DevSrvAssumption DEF OpenInv, Dirs
<1>1. ASSUME NEW c \in Clients, srvwalk(c) PROVE OpenInv'
  BY <1>1, <1>20, <1>21 DEF srvwalk, Go
<1>2. ASSUME NEW c \in Clients, srvopen(c) PROVE OpenInv'
  BY <1>2, <1>20, <1>21 DEF srvopen, Go, filevars
<1>3. ASSUME NEW c \in Clients, Sleep(c) PROVE OpenInv'
  BY <1>3, <1>20, <1>21 DEF Sleep, Go, filevars
<1>4. ASSUME NEW c \in Clients, addwaiting(c) PROVE OpenInv'
  BY <1>4, <1>20, <1>21 DEF addwaiting, Go, filevars
<1>5. ASSUME NEW c \in Clients, delwaiting(c) PROVE OpenInv'
  BY <1>5, <1>20, <1>21 DEF delwaiting, Go, filevars
<1>6. ASSUME NEW c \in Clients, interrupted(c) PROVE OpenInv'
  BY <1>6, <1>20, <1>21 DEF interrupted, Go, filevars
<1>7. ASSUME NEW c \in Clients, NEW d \in Dirs, srvread(c, d) PROVE OpenInv'
  BY <1>7, <1>20, <1>21 DEF srvread, Go, filevars, Request
<1>8. ASSUME NEW c \in Clients, NEW remove \in BOOLEAN, srvclunk(c, remove) PROVE OpenInv'
  BY <1>8, <1>20, <1>21 DEF srvclunk, srvunblock, Go, Notice
<1>9. ASSUME NEW d \in Dirs, Receive(d) PROVE OpenInv'
  BY <1>9, <1>20, <1>21 DEF Receive, Go, filevars
<1>10. ASSUME NEW d \in Dirs, freechan(d) PROVE OpenInv'
  BY <1>10, <1>20, <1>21 DEF freechan, srvfree, srvcancelreqs
<1>11. ASSUME NEW d \in Dirs, killcomm(d) PROVE OpenInv'
  BY <1>11, <1>20, <1>21 DEF killcomm, filevars
<1>12. ASSUME NEW r \in held, Reply(r) PROVE OpenInv'
  BY <1>12, <1>20, <1>21 DEF Reply, ReplyTo, Go, filevars
<1>13. CASE Vanish
  BY <1>13, <1>20, <1>21 DEF Vanish, filevars
<1>14. CASE UNCHANGED vars
  BY <1>14, <1>20, <1>21 DEF vars
<1> QED
  BY <1>1, <1>2, <1>3, <1>4, <1>5, <1>6, <1>7, <1>8, <1>9, <1>10, <1>11, <1>12,
     <1>13, <1>14 DEF Next

\* A client joins one queue and leaves it when it is served or gives up.
LEMMA NextQueue ==
  ASSUME IInv, [Next]_vars
  PROVE  QueueInv'
<1>20. pc \in [Clients -> Places]
  BY DEF IInv, TypeOK
<1>21. sendq \in [Dirs -> Seq(Clients)]
  BY DEF IInv, TypeOK
<1>22. QueueInv
  BY DEF IInv
<1>23. \A d \in Dirs : \A i \in DOMAIN sendq[d] : sendq[d][i] \in Clients
  BY <1>21
<1> USE DevSrvAssumption DEF QueueInv
<1>1. ASSUME NEW c \in Clients, srvwalk(c) PROVE QueueInv'
  BY <1>1, <1>20, <1>21, <1>22, <1>23 DEF srvwalk, Go
<1>2. ASSUME NEW c \in Clients, srvopen(c) PROVE QueueInv'
  BY <1>2, <1>20, <1>21, <1>22, <1>23 DEF srvopen, Go, filevars
<1>3. ASSUME NEW c \in Clients, Sleep(c) PROVE QueueInv'
  BY <1>3, <1>20, <1>21, <1>22, <1>23 DEF Sleep, Go, filevars
<1>4. ASSUME NEW c \in Clients, addwaiting(c) PROVE QueueInv'
  <2>1. pc[c] = "sent" /\ sendq' = sendq /\ \A x \in Clients : x # c => pc'[x] = pc[x]
    BY <1>4, <1>20 DEF addwaiting, Go
  <2> QED
    BY <2>1, <1>22, <1>23
<1>5. ASSUME NEW c \in Clients, delwaiting(c) PROVE QueueInv'
  BY <1>5, <1>20, <1>21, <1>22, <1>23 DEF delwaiting, Go, filevars
<1>6. ASSUME NEW c \in Clients, interrupted(c) PROVE QueueInv'
  <2>1. /\ sendq' = [d \in Dirs |-> Without(sendq[d], c)]
        /\ \A x \in Clients : x # c => pc'[x] = pc[x]
    BY <1>6, <1>20 DEF interrupted, Go
  <2>2. ASSUME NEW d \in Dirs
        PROVE  /\ \A a \in DOMAIN sendq'[d] : \E i \in DOMAIN sendq[d] :
                    sendq'[d][a] = sendq[d][i] /\ sendq[d][i] # c
               /\ \A a, b \in DOMAIN sendq'[d] : sendq'[d][a] = sendq'[d][b] => a = b
    <3>1. sendq[d] \in Seq(Clients) /\ sendq'[d] = Without(sendq[d], c)
      BY <2>1, <1>21
    <3>2. \A i, j \in DOMAIN sendq[d] : sendq[d][i] = sendq[d][j] => i = j
      BY <1>22
    <3> QED
      BY <3>1, <3>2, WithoutKeeps
  <2> QED
    BY <2>1, <2>2, <1>22, <1>23, SMTT(40)
<1>7. ASSUME NEW c \in Clients, NEW d \in Dirs, srvread(c, d) PROVE QueueInv'
  <2>1. pc[c] = "idle"
    BY <1>7 DEF srvread
  <2>2. CASE UNCHANGED <<pc, sendq>>
    BY <2>2, <1>22
  <2>3. CASE sendq' = sendq /\ pc' = [pc EXCEPT ![c] = "await"]
    BY <2>1, <2>3, <1>20, <1>22, <1>23
  <2>4. CASE /\ sendq' = [sendq EXCEPT ![d] = Append(@, c)]
             /\ pc' = [pc EXCEPT ![c] = "block"]
    <3>1. sendq[d] \in Seq(Clients) /\ sendq'[d] = Append(sendq[d], c)
      BY <2>4, <1>21
    <3>2. \A e \in Dirs \ {d} : sendq'[e] = sendq[e]
      BY <2>4, <1>21
    <3>3. \A e \in Dirs : \A i \in DOMAIN sendq[e] : sendq[e][i] # c
      BY <2>1, <1>22
    <3>4. \A x \in Clients : pc'[x] = IF x = c THEN "block" ELSE pc[x]
      BY <2>4, <1>20
    <3>5. /\ DOMAIN sendq'[d] = DOMAIN sendq[d] \cup {Len(sendq[d]) + 1}
          /\ sendq'[d][Len(sendq[d]) + 1] = c
          /\ \A i \in DOMAIN sendq[d] : sendq'[d][i] = sendq[d][i]
      BY <3>1
    <3> QED
      BY <3>2, <3>3, <3>4, <3>5, <1>22, <1>23
  <2> QED
    BY <1>7, <2>2, <2>3, <2>4 DEF srvread, Go
<1>8. ASSUME NEW c \in Clients, NEW remove \in BOOLEAN, srvclunk(c, remove) PROVE QueueInv'
  BY <1>8, <1>20, <1>21, <1>22, <1>23 DEF srvclunk, srvunblock, Go, Notice
<1>9. ASSUME NEW d \in Dirs, Receive(d) PROVE QueueInv'
  <2>1. CASE UNCHANGED <<sendq, pc>>
    BY <2>1, <1>22
  <2>2. CASE /\ sendq[d] # <<>>
             /\ sendq' = [sendq EXCEPT ![d] = Tail(@)]
             /\ pc' = [pc EXCEPT ![Head(sendq[d])] = "sent"]
    <3>1. sendq[d] \in Seq(Clients) /\ sendq'[d] = Tail(sendq[d]) /\ Head(sendq[d]) = sendq[d][1]
      BY <2>2, <1>21
    <3>2. \A e \in Dirs \ {d} : sendq'[e] = sendq[e]
      BY <2>2, <1>21
    <3>3. 1 \in DOMAIN sendq[d]
      BY <2>2, <3>1
    <3>4. \A i \in DOMAIN sendq'[d] : /\ i \in Nat /\ i > 0
                                        /\ i + 1 \in DOMAIN sendq[d]
                                        /\ sendq'[d][i] = sendq[d][i + 1]
      <4> DEFINE s == sendq[d]
      <4>1. s \in Seq(Clients) /\ s # <<>> /\ sendq'[d] = Tail(s)
        BY <2>2, <3>1
      <4> HIDE DEF s
      <4>2. \A i \in DOMAIN Tail(s) : i \in Nat /\ i > 0 /\ i + 1 \in DOMAIN s /\ Tail(s)[i] = s[i + 1]
        BY <4>1, TailElements
      <4> QED
        BY <4>1, <4>2 DEF s
    <3>5. \A x \in Clients : pc'[x] = IF x = sendq[d][1] THEN "sent" ELSE pc[x]
      BY <2>2, <3>1, <1>20
    <3>6. ASSUME NEW e \in Dirs, NEW i \in DOMAIN sendq'[e]
          PROVE  pc'[sendq'[e][i]] \in {"block", "blocked"}
      <4>1. CASE e = d
        BY <4>1, <3>3, <3>4, <3>5, <1>22, <1>23
      <4>2. CASE e # d
        BY <4>2, <3>2, <3>3, <3>5, <1>22, <1>23
      <4> QED
        BY <4>1, <4>2
    <3>7. ASSUME NEW e \in Dirs, NEW f \in Dirs,
                 NEW i \in DOMAIN sendq'[e], NEW j \in DOMAIN sendq'[f],
                 sendq'[e][i] = sendq'[f][j]
          PROVE  e = f /\ i = j
      BY <3>2, <3>4, <3>7, <1>22
    <3> QED
      BY <3>6, <3>7
  <2> QED
    BY <1>9, <2>1, <2>2 DEF Receive, Go
<1>10. ASSUME NEW d \in Dirs, freechan(d) PROVE QueueInv'
  <2>0. \A x \in waitlist : x \in Clients /\ pc[x] \in {"await", "answered"} /\ rcbuf[x] = Nil
    BY <1>10, Waiters
  <2>1. sendq' = sendq /\ \A x \in Clients \ waitlist : pc'[x] = pc[x]
    BY <1>10, <1>20 DEF freechan, srvfree, srvcancelreqs
  <2>2. \A e \in Dirs : \A i \in DOMAIN sendq[e] : sendq[e][i] \notin waitlist
    BY <1>22, <2>0
  <2> QED
    BY <2>1, <2>2, <1>22, <1>23
<1>11. ASSUME NEW d \in Dirs, killcomm(d) PROVE QueueInv'
  BY <1>11, <1>20, <1>21, <1>22, <1>23 DEF killcomm, filevars
<1>12. ASSUME NEW r \in held, Reply(r) PROVE QueueInv'
  BY <1>12, <1>20, <1>21, <1>22, <1>23 DEF Reply, ReplyTo, Go, filevars
<1>13. CASE Vanish
  BY <1>13, <1>20, <1>21, <1>22, <1>23 DEF Vanish, filevars
<1>14. CASE UNCHANGED vars
  BY <1>14, <1>20, <1>21, <1>22, <1>23 DEF vars
<1> QED
  BY <1>1, <1>2, <1>3, <1>4, <1>5, <1>6, <1>7, <1>8, <1>9, <1>10, <1>11, <1>12,
     <1>13, <1>14 DEF Next

\* Replies go to the request they answer.
LEMMA NextAnswer ==
  ASSUME IInv, [Next]_vars
  PROVE  AnswerInv'
<1>20. pc \in [Clients -> Places]
  BY DEF IInv, TypeOK
<1>21. /\ n \in [Clients -> 0..MaxReqs] /\ ans \in [Clients -> 0..MaxReqs \cup {Intr, Nil}]
       /\ rcbuf \in [Clients -> 1..MaxReqs \cup {Nil}] /\ held \subseteq Messages
  BY DEF IInv, TypeOK
<1>22. AnswerInv /\ \A r \in held : r.c \in Clients
  BY <1>21 DEF IInv, Messages
<1> USE DevSrvAssumption DEF AnswerInv, RightAnswer, Hungup, Pending
<1>1. ASSUME NEW c \in Clients, srvwalk(c) PROVE AnswerInv'
  BY <1>1, <1>20, <1>21, <1>22 DEF srvwalk, Go
<1>2. ASSUME NEW c \in Clients, srvopen(c) PROVE AnswerInv'
  BY <1>2, <1>20, <1>21, <1>22 DEF srvopen, Go, filevars
<1>3. ASSUME NEW c \in Clients, Sleep(c) PROVE AnswerInv'
  BY <1>3, <1>20, <1>21, <1>22 DEF Sleep, Go, filevars
<1>4. ASSUME NEW c \in Clients, addwaiting(c) PROVE AnswerInv'
  BY <1>4, <1>20, <1>21, <1>22 DEF addwaiting, Go, filevars
<1>5. ASSUME NEW c \in Clients, delwaiting(c) PROVE AnswerInv'
  BY <1>5, <1>20, <1>21, <1>22 DEF delwaiting, Go, filevars
<1>6. ASSUME NEW c \in Clients, interrupted(c) PROVE AnswerInv'
  BY <1>6, <1>20, <1>21, <1>22 DEF interrupted, Go, filevars
<1>7. ASSUME NEW c \in Clients, NEW d \in Dirs, srvread(c, d) PROVE AnswerInv'
  BY <1>7, <1>20, <1>21, <1>22 DEF srvread, Go, filevars, Request
<1>8. ASSUME NEW c \in Clients, NEW remove \in BOOLEAN, srvclunk(c, remove) PROVE AnswerInv'
  BY <1>8, <1>20, <1>21, <1>22 DEF srvclunk, srvunblock, Go, Notice
<1>9. ASSUME NEW d \in Dirs, Receive(d) PROVE AnswerInv'
  BY <1>9, <1>20, <1>21, <1>22 DEF Receive, Go, filevars
<1>10. ASSUME NEW d \in Dirs, freechan(d) PROVE AnswerInv'
  BY <1>10, <1>20, <1>21, <1>22 DEF freechan, srvfree, srvcancelreqs
<1>11. ASSUME NEW d \in Dirs, killcomm(d) PROVE AnswerInv'
  BY <1>11, <1>20, <1>21, <1>22 DEF killcomm, filevars
<1>12. ASSUME NEW r \in held, Reply(r) PROVE AnswerInv'
  BY <1>12, <1>20, <1>21, <1>22 DEF Reply, ReplyTo, Go, filevars
<1>13. CASE Vanish
  BY <1>13, <1>20, <1>21, <1>22 DEF Vanish, filevars
<1>14. CASE UNCHANGED vars
  BY <1>14, <1>20, <1>21, <1>22 DEF vars
<1> QED
  BY <1>1, <1>2, <1>3, <1>4, <1>5, <1>6, <1>7, <1>8, <1>9, <1>10, <1>11, <1>12,
     <1>13, <1>14 DEF Next

\* The buffers move up and take in what a step adds.
BufferMoves ==
    \E N \in [Dirs -> SUBSET Messages] :
      Added(N) /\ \A e \in Dirs : Moved(buf[e], buf'[e], N[e])

\* Every step changes the buffers in this way.
LEMMA BufferStep ==
  ASSUME IInv, [Next]_vars
  PROVE  BufferMoves
<1>20. pc \in [Clients -> Places]
  BY DEF IInv, TypeOK
<1>21. buf \in [Dirs -> Seq(Messages)]
  BY DEF IInv, TypeOK
<1>22. \A d \in Dirs : \A i \in DOMAIN buf[d] : buf[d][i] \in Messages /\ buf[d][i].c \in Clients
  BY <1>21, MessageParts
<1>25. n \in [Clients -> 0..MaxReqs] /\ held \subseteq Messages
  BY DEF IInv, TypeOK
<1>26. /\ sendq \in [Dirs -> Seq(Clients)]
       /\ \A d \in Dirs : \A i \in DOMAIN sendq[d] : pc[sendq[d][i]] \in {"block", "blocked"}
  BY DEF IInv, TypeOK, QueueInv
<1>27. CountInv
  BY DEF IInv
<1>28. buf' = buf => BufferMoves
  <2> DEFINE N == [e \in Dirs |-> {}]
  <2>1. N \in [Dirs -> SUBSET Messages] /\ Added(N)
    BY DEF Added
  <2>2. \A e \in Dirs : Moved(buf[e], buf[e], {})
    BY <1>21 DEF Moved
  <2> QED
    BY <2>1, <2>2 DEF BufferMoves
<1>29. (\A e \in Dirs : Moved(buf[e], buf'[e], {})) => BufferMoves
  <2> DEFINE N == [e \in Dirs |-> {}]
  <2>1. N \in [Dirs -> SUBSET Messages] /\ Added(N)
    BY DEF Added
  <2> QED
    BY <2>1 DEF BufferMoves
<1> USE DevSrvAssumption DEF BufferMoves
<1>1. ASSUME NEW c \in Clients, srvwalk(c) PROVE BufferMoves
  <2>1. buf' = buf
    BY <1>1 DEF srvwalk
  <2> QED
    BY <2>1, <1>28
<1>2. ASSUME NEW c \in Clients, srvopen(c) PROVE BufferMoves
  <2>1. buf' = buf
    BY <1>2 DEF srvopen
  <2> QED
    BY <2>1, <1>28
<1>3. ASSUME NEW c \in Clients, Sleep(c) PROVE BufferMoves
  <2>1. buf' = buf
    BY <1>3 DEF Sleep
  <2> QED
    BY <2>1, <1>28
<1>4. ASSUME NEW c \in Clients, addwaiting(c) PROVE BufferMoves
  <2>1. buf' = buf
    BY <1>4 DEF addwaiting
  <2> QED
    BY <2>1, <1>28
<1>5. ASSUME NEW c \in Clients, delwaiting(c) PROVE BufferMoves
  <2>1. buf' = buf
    BY <1>5 DEF delwaiting
  <2> QED
    BY <2>1, <1>28
<1>6. ASSUME NEW c \in Clients, interrupted(c) PROVE BufferMoves
  <2>1. buf' = buf
    BY <1>6 DEF interrupted
  <2> QED
    BY <2>1, <1>28
<1>7. ASSUME NEW c \in Clients, NEW d \in Dirs, srvread(c, d) PROVE BufferMoves
  <2> DEFINE m == Request(c)
             N == [e \in Dirs |-> IF e = d THEN {m} ELSE {}]
  <2>1. pc[c] = "idle" /\ n[c] < MaxReqs /\ n'[c] = n[c] + 1
    BY <1>7, <1>25 DEF srvread
  <2>2. m \in Messages /\ m.c = c /\ m.n = n[c] + 1 /\ m.n # Nil
    BY <2>1, <1>25 DEF Request, Messages
  <2>3. CASE buf' = buf
    BY <2>3, <1>28
  <2>4. CASE buf' = [buf EXCEPT ![d] = Append(@, m)]
    <3> HIDE DEF m
    <3>1. N \in [Dirs -> SUBSET Messages]
      BY <2>2
    <3>2. \A e \in Dirs : Moved(buf[e], buf'[e], N[e])
      BY <2>2, <2>4, <1>21, Moves
    <3>3. \A e \in Dirs : \A x \in N[e] : x = m /\ e = d
      OBVIOUS
    <3> HIDE DEF N
    <3>4. Added(N)
      BY <2>1, <2>2, <3>3 DEF Added
    <3> QED
      BY <3>1, <3>2, <3>4
  <2> QED
    BY <1>7, <2>3, <2>4 DEF srvread
<1>8. ASSUME NEW c \in Clients, NEW remove \in BOOLEAN, srvclunk(c, remove) PROVE BufferMoves
  <2> DEFINE m == Notice(c)
             N == [e \in Dirs |-> {m}]
  <2>1. /\ pc[c] \in {"walked", "idle"} /\ pc'[c] = "closed"
        /\ \A e \in Dirs : buf'[e] \in {buf[e], Append(buf[e], m)}
    BY <1>8, <1>20, <1>21 DEF srvclunk, srvunblock, Go
  <2>2. m \in Messages /\ m.c = c /\ m.n = Nil
    BY DEF Notice, Messages
  <2> HIDE DEF m
  <2>3. N \in [Dirs -> SUBSET Messages] /\ \A e \in Dirs : N[e] = {m}
    BY <2>2
  <2> HIDE DEF N
  <2>4. ASSUME NEW e \in Dirs PROVE Moved(buf[e], buf'[e], N[e])
    <3>1. buf[e] \in Seq(Messages)
      BY <1>21
    <3>2. Moved(buf[e], buf[e], {m}) /\ Moved(buf[e], Append(buf[e], m), {m})
      BY <2>2, <3>1, Moves
    <3> QED
      BY <2>1, <2>3, <3>2
  <2>5. Added(N)
    BY <2>1, <2>2, <2>3 DEF Added
  <2> QED
    BY <2>3, <2>4, <2>5
<1>9. ASSUME NEW d \in Dirs, Receive(d) PROVE BufferMoves
  <2> DEFINE h == Head(sendq[d])
             m == [c |-> h, n |-> n[h]]
             N == [e \in Dirs |-> IF e = d THEN {m} ELSE {}]
  <2>1. buf[d] # <<>> /\ buf[d] \in Seq(Messages) /\ srv = "run" /\ n' = n
    BY <1>9, <1>21 DEF Receive
  <2>2. CASE buf' = [buf EXCEPT ![d] = Tail(@)]
    <3>1. ASSUME NEW e \in Dirs PROVE Moved(buf[e], buf'[e], {})
      <4>1. buf[e] \in Seq(Messages) /\ buf'[e] = IF e = d THEN Tail(buf[e]) ELSE buf[e]
        BY <2>2, <1>21
      <4>2. \E x : x \in Messages
        BY <2>1
      <4> QED
        BY <2>1, <4>1, <4>2, Moves
    <3> QED
      BY <3>1, <1>29
  <2>3. CASE /\ sendq[d] # <<>>
             /\ buf' = [buf EXCEPT ![d] = Append(Tail(@), m)]
    <3>1. h \in Clients /\ pc[h] \in {"block", "blocked"}
      BY <2>3, <1>26, TailElements
    <3>2. n[h] \in 1..MaxReqs
      BY <3>1, <1>25, <1>27 DEF Pending, CountInv
    <3>3. m \in Messages /\ m.c = h /\ m.n = n[h] /\ m.n # Nil
      BY <3>1, <3>2 DEF Messages
    <3> HIDE DEF m, h
    <3>4. N \in [Dirs -> SUBSET Messages] /\ \A e \in Dirs : N[e] = IF e = d THEN {m} ELSE {}
      BY <3>3
    <3> HIDE DEF N
    <3>5. ASSUME NEW e \in Dirs PROVE Moved(buf[e], buf'[e], N[e])
      <4>1. buf[e] \in Seq(Messages) /\ buf'[e] = IF e = d THEN Append(Tail(buf[e]), m) ELSE buf[e]
        BY <2>3, <1>21
      <4>2. Moved(buf[e], buf[e], {}) /\ Moved(buf[d], Append(Tail(buf[d]), m), {m})
        BY <2>1, <3>3, <4>1, Moves
      <4>3. CASE e = d
        BY <3>4, <4>1, <4>2, <4>3
      <4>4. CASE e # d
        BY <3>4, <4>1, <4>2, <4>4
      <4> QED
        BY <4>3, <4>4
    <3>6. Added(N)
      BY <2>1, <3>1, <3>2, <3>3, <3>4 DEF Added
    <3> QED
      BY <3>4, <3>5, <3>6
  <2> QED
    BY <1>9, <2>2, <2>3 DEF Receive, Go
<1>10. ASSUME NEW d \in Dirs, freechan(d) PROVE BufferMoves
  <2>1. buf' = buf
    BY <1>10 DEF freechan
  <2> QED
    BY <2>1, <1>28
<1>11. ASSUME NEW d \in Dirs, killcomm(d) PROVE BufferMoves
  <2>1. buf' = [buf EXCEPT ![d] = <<>>]
    BY <1>11 DEF killcomm
  <2>2. ASSUME NEW e \in Dirs PROVE Moved(buf[e], buf'[e], {})
    <3>1. buf[e] \in Seq(Messages) /\ buf'[e] = IF e = d THEN <<>> ELSE buf[e]
      BY <2>1, <1>21
    <3> QED
      BY <3>1 DEF Moved
  <2> QED
    BY <2>2, <1>29
<1>12. ASSUME NEW r \in held, Reply(r) PROVE BufferMoves
  <2>1. buf' = buf
    BY <1>12 DEF Reply
  <2> QED
    BY <2>1, <1>28
<1>13. CASE Vanish
  <2>1. buf' = buf
    BY <1>13 DEF Vanish
  <2> QED
    BY <2>1, <1>28
<1>14. CASE UNCHANGED vars
  BY <1>14, <1>28 DEF vars
<1> QED
  BY <1>1, <1>2, <1>3, <1>4, <1>5, <1>6, <1>7, <1>8, <1>9, <1>10, <1>11, <1>12,
     <1>13, <1>14 DEF Next

\* A client that has closed the file stays so; numbers only grow.
Forward ==
    \A x \in Clients : (pc[x] = "closed" => pc'[x] = "closed") /\ n'[x] \in n[x]..MaxReqs

\* Every step goes forward in this way.
LEMMA StaysClosed ==
  ASSUME IInv, [Next]_vars
  PROVE  Forward
<1>20. pc \in [Clients -> Places]
  BY DEF IInv, TypeOK
<1>22. /\ sendq \in [Dirs -> Seq(Clients)]
       /\ \A d \in Dirs : \A i \in DOMAIN sendq[d] : pc[sendq[d][i]] \in {"block", "blocked"}
  BY DEF IInv, TypeOK, QueueInv
<1>23. n \in [Clients -> 0..MaxReqs] /\ \A r \in held : r.c \in Clients
  BY MessageParts DEF IInv, TypeOK
<1> USE DevSrvAssumption DEF Forward
<1>1. ASSUME NEW c \in Clients, srvwalk(c) PROVE Forward
  BY <1>1, <1>20, <1>22, <1>23 DEF srvwalk, Go
<1>2. ASSUME NEW c \in Clients, srvopen(c) PROVE Forward
  BY <1>2, <1>20, <1>22, <1>23 DEF srvopen, Go, Pending
<1>3. ASSUME NEW c \in Clients, Sleep(c) PROVE Forward
  BY <1>3, <1>20, <1>22, <1>23 DEF Sleep, Go, Pending
<1>4. ASSUME NEW c \in Clients, addwaiting(c) PROVE Forward
  BY <1>4, <1>20, <1>22, <1>23 DEF addwaiting, Go, Pending
<1>5. ASSUME NEW c \in Clients, delwaiting(c) PROVE Forward
  BY <1>5, <1>20, <1>22, <1>23 DEF delwaiting, Go, Pending
<1>6. ASSUME NEW c \in Clients, interrupted(c) PROVE Forward
  BY <1>6, <1>20, <1>22, <1>23 DEF interrupted, Go, Pending
<1>7. ASSUME NEW c \in Clients, NEW d \in Dirs, srvread(c, d) PROVE Forward
  BY <1>7, <1>20, <1>22, <1>23 DEF srvread, Go, Pending, Request
<1>8. ASSUME NEW c \in Clients, NEW remove \in BOOLEAN, srvclunk(c, remove) PROVE Forward
  BY <1>8, <1>20, <1>22, <1>23 DEF srvclunk, srvunblock, Go, Notice
<1>9. ASSUME NEW d \in Dirs, Receive(d) PROVE Forward
  <2>1. n' = n
    BY <1>9 DEF Receive
  <2>2. CASE pc' = pc
    BY <2>1, <2>2, <1>23
  <2>3. CASE sendq[d] # <<>> /\ pc' = [pc EXCEPT ![Head(sendq[d])] = "sent"]
    <3>1. Head(sendq[d]) \in Clients /\ pc[Head(sendq[d])] \in {"block", "blocked"}
      BY <2>3, <1>22, TailElements
    <3> QED
      BY <2>1, <2>3, <3>1, <1>20, <1>23
  <2> QED
    BY <1>9, <2>2, <2>3 DEF Receive, Go
<1>10. ASSUME NEW d \in Dirs, freechan(d) PROVE Forward
  <2>0. \A x \in waitlist : x \in Clients /\ pc[x] \in {"await", "answered"} /\ rcbuf[x] = Nil
    BY <1>10, Waiters
  <2> QED
    BY <1>10, <1>20, <2>0, <1>22, <1>23 DEF freechan, srvfree, srvcancelreqs
<1>11. ASSUME NEW d \in Dirs, killcomm(d) PROVE Forward
  BY <1>11, <1>20, <1>22, <1>23 DEF killcomm, filevars
<1>12. ASSUME NEW r \in held, Reply(r) PROVE Forward
  BY <1>12, <1>20, <1>22, <1>23 DEF Reply, ReplyTo, Go, Pending
<1>13. CASE Vanish
  BY <1>13, <1>20, <1>22, <1>23 DEF Vanish, filevars
<1>14. CASE UNCHANGED vars
  BY <1>14, <1>20, <1>22, <1>23 DEF vars
<1> QED
  BY <1>1, <1>2, <1>3, <1>4, <1>5, <1>6, <1>7, <1>8, <1>9, <1>10, <1>11, <1>12,
     <1>13, <1>14 DEF Next

\* Nothing follows a close notice.
LEMMA NextNotice ==
  ASSUME IInv, [Next]_vars
  PROVE  NoticeInv'
<1>6. PICK N \in [Dirs -> SUBSET Messages] :
        Added(N) /\ \A e \in Dirs : Moved(buf[e], buf'[e], N[e])
  BY BufferStep DEF BufferMoves
<1>7. \A e \in Dirs : \A m \in N[e] :
        pc[m.c] # "closed" /\ (m.n = Nil => pc'[m.c] = "closed")
  <2>1. \A e \in Dirs : \A m \in N[e] : m.c \in Clients /\ n'[m.c] # Nil
    <3>1. n \in [Clients -> 0..MaxReqs]
      BY DEF IInv, TypeOK
    <3>2. \A x \in Clients : n[x] \in Nat /\ n'[x] \in n[x]..MaxReqs
      BY <3>1, StaysClosed DEF Forward
    <3>3. \A x \in Clients : n'[x] \in Nat /\ n'[x] # Nil
      BY <3>2, DevSrvAssumption
    <3> QED
      BY <1>6, <3>3, MessageParts DEF Added
  <2> QED
    BY <1>6, <2>1 DEF Added
<1>8. \A x \in Clients : pc[x] = "closed" => pc'[x] = "closed"
  BY StaysClosed DEF Forward
<1>1. /\ NoticeInv
      /\ \A d \in Dirs : buf[d] \in Seq(Messages)
      /\ \A d \in Dirs : \A i \in DOMAIN buf[d] : buf[d][i].c \in Clients
  <2>1. NoticeInv /\ buf \in [Dirs -> Seq(Messages)]
    BY DEF IInv, TypeOK
  <2> QED
    BY <2>1, MessageParts
<1>2. SUFFICES ASSUME NEW d \in Dirs
               PROVE  /\ \A i \in DOMAIN buf'[d] : buf'[d][i].n = Nil => pc'[buf'[d][i].c] = "closed"
                      /\ \A i, j \in DOMAIN buf'[d] :
                           i < j /\ buf'[d][i].n = Nil => buf'[d][j].c # buf'[d][i].c
  BY DEF NoticeInv
<1>3. PICK k \in {0, 1} : \A i \in DOMAIN buf'[d] :
        /\ i \in Nat
        /\ \/ i + k \in DOMAIN buf[d] /\ buf'[d][i] = buf[d][i + k]
           \/ i + k = Len(buf[d]) + 1 /\ buf'[d][i] \in N[d]
  BY <1>6 DEF Moved
<1>4. ASSUME NEW i \in DOMAIN buf'[d], buf'[d][i].n = Nil
      PROVE  pc'[buf'[d][i].c] = "closed"
  BY <1>1, <1>3, <1>4, <1>7, <1>8 DEF NoticeInv
<1>5. ASSUME NEW i \in DOMAIN buf'[d], NEW j \in DOMAIN buf'[d], i < j, buf'[d][i].n = Nil
      PROVE  buf'[d][j].c # buf'[d][i].c
  <2>1. DOMAIN buf[d] = 1..Len(buf[d]) /\ Len(buf[d]) \in Nat
    BY <1>1
  <2>2. CASE i + k \in DOMAIN buf[d] /\ buf'[d][i] = buf[d][i + k]
    <3>1. pc[buf'[d][i].c] = "closed"
      BY <1>1, <1>5, <2>2 DEF NoticeInv
    <3>2. CASE j + k \in DOMAIN buf[d] /\ buf'[d][j] = buf[d][j + k]
      BY <1>1, <1>3, <1>5, <2>1, <2>2, <3>2 DEF NoticeInv
    <3>3. CASE buf'[d][j] \in N[d]
      BY <3>1, <3>3, <1>7
    <3> QED
      BY <1>3, <3>2, <3>3
  <2>3. CASE i + k = Len(buf[d]) + 1
    BY <1>3, <1>5, <2>1, <2>3
  <2> QED
    BY <1>3, <2>2, <2>3
<1> QED
  BY <1>4, <1>5

\* What a step adds to the buffers is nowhere yet.
LEMMA Fresh ==
  ASSUME IInv, NEW N, Added(N), NEW e \in Dirs, NEW m \in N[e], m.n # Nil
  PROVE  /\ \A r \in held : ~Same(m, r)
         /\ \A f \in Dirs : \A j \in DOMAIN buf[f] : ~Same(m, buf[f][j])
<1>1. CountInv /\ OutInv /\ n \in [Clients -> 0..MaxReqs]
  BY DEF IInv, TypeOK
<1>2. m.c \in Clients /\ n[m.c] \in Nat
  BY <1>1, MessageParts DEF Added
<1>3. CASE m.n = n[m.c] + 1
  BY <1>1, <1>2, <1>3 DEF CountInv, Same
<1>4. CASE m.n = n[m.c] /\ pc[m.c] \in {"block", "blocked"} /\ srv = "run"
  <2>1. ~Outstanding(m.c)
    BY <1>1, <1>2, <1>4 DEF OutInv, Pending
  <2> QED
    BY <1>4, <2>1 DEF Outstanding, Same
<1> QED
  BY <1>3, <1>4 DEF Added

\* What the server holds after a step it held before, or received from the
\* head of a buffer, which no longer has it.
HeldMoves ==
    \A r \in held' :
      \/ r \in held
      \/ \E d \in Dirs : /\ 1 \in DOMAIN buf[d] /\ r = buf[d][1] /\ r.n # Nil
                         /\ \A i \in DOMAIN buf'[d] : ~Same(buf'[d][i], r)

\* Every step changes what is held in this way.
LEMMA HeldStep ==
  ASSUME IInv, [Next]_vars
  PROVE  HeldMoves
<1>20. buf \in [Dirs -> Seq(Messages)]
  BY DEF IInv, TypeOK
<1>21. TokenInv
  BY DEF IInv
<1>22. OutInv
  BY DEF IInv
<1>23. /\ sendq \in [Dirs -> Seq(Clients)]
       /\ \A d \in Dirs : \A i \in DOMAIN sendq[d] : pc[sendq[d][i]] \in {"block", "blocked"}
  BY DEF IInv, TypeOK, QueueInv
<1>24. n \in [Clients -> 0..MaxReqs]
  BY DEF IInv, TypeOK
<1>25. CountInv
  BY DEF IInv
<1> USE DEF HeldMoves
<1>1. ASSUME NEW c \in Clients, srvwalk(c) PROVE HeldMoves
  BY <1>1 DEF srvwalk
<1>2. ASSUME NEW c \in Clients, srvopen(c) PROVE HeldMoves
  BY <1>2 DEF srvopen
<1>3. ASSUME NEW c \in Clients, Sleep(c) PROVE HeldMoves
  BY <1>3 DEF Sleep
<1>4. ASSUME NEW c \in Clients, addwaiting(c) PROVE HeldMoves
  BY <1>4 DEF addwaiting
<1>5. ASSUME NEW c \in Clients, delwaiting(c) PROVE HeldMoves
  BY <1>5 DEF delwaiting
<1>6. ASSUME NEW c \in Clients, interrupted(c) PROVE HeldMoves
  BY <1>6 DEF interrupted
<1>7. ASSUME NEW c \in Clients, NEW d \in Dirs, srvread(c, d) PROVE HeldMoves
  BY <1>7 DEF srvread
<1>8. ASSUME NEW c \in Clients, NEW remove \in BOOLEAN, srvclunk(c, remove) PROVE HeldMoves
  BY <1>8 DEF srvclunk
<1>9. ASSUME NEW d \in Dirs, Receive(d) PROVE HeldMoves
  <2> DEFINE h == Head(sendq[d])
             m == [c |-> h, n |-> n[h]]
             b == buf[d]
  <2>1. b # <<>> /\ b \in Seq(Messages) /\ srv = "run"
    BY <1>9, <1>20 DEF Receive
  <2>2. held' \subseteq held \cup (IF Head(b).n = Nil THEN {} ELSE {Head(b)})
    BY <1>9 DEF Receive
  <2>3. CASE Head(b).n = Nil
    BY <2>2, <2>3
  <2>4. CASE Head(b).n # Nil
    <3>1. \A i \in DOMAIN Tail(b) : ~Same(Tail(b)[i], b[1])
      <4>1. \A i \in DOMAIN b : Same(b[i], b[1]) /\ b[1].n # Nil => i = 1
        BY <2>1, <1>21, TailElements DEF TokenInv, Same
      <4> HIDE DEF b
      <4>2. b[1].n # Nil /\ \A i \in DOMAIN Tail(b) :
              i \in Nat /\ i > 0 /\ i + 1 \in DOMAIN b /\ Tail(b)[i] = b[i + 1]
        BY <2>1, <2>4, TailElements
      <4> QED
        BY <4>1, <4>2
    <3>2. CASE buf'[d] = Tail(b)
      BY <2>1, <2>2, <2>4, <3>1, <3>2, TailElements
    <3>3. CASE sendq[d] # <<>> /\ buf'[d] = Append(Tail(b), m)
      <4>1. h \in Clients /\ pc[h] \in {"block", "blocked"}
        BY <3>3, <1>23, TailElements
      <4>2. ~Outstanding(h)
        BY <2>1, <4>1, <1>22 DEF OutInv, Pending
      <4>3. ~Same(m, b[1])
        BY <2>1, <4>2, TailElements DEF Outstanding, Same
      <4>4. m \in Messages
        <5>1. n[h] \in 1..MaxReqs
          BY <4>1, <1>24, <1>25 DEF Pending, CountInv
        <5> QED
          BY <4>1, <5>1 DEF Messages
      <4> HIDE DEF m
      <4> DEFINE t == Tail(b)
      <4>5. t \in Seq(Messages)
        BY <2>1, TailElements
      <4> HIDE DEF t
      <4>6. DOMAIN Append(t, m) = DOMAIN t \cup {Len(t) + 1} /\ Append(t, m)[Len(t) + 1] = m
            /\ \A i \in DOMAIN t : Append(t, m)[i] = t[i]
        BY <4>4, <4>5, AppendElements
      <4>7. \A i \in DOMAIN buf'[d] : buf'[d][i] = m \/ \E j \in DOMAIN t : buf'[d][i] = t[j]
        BY <3>3, <4>6 DEF t
      <4>8. \A i \in DOMAIN buf'[d] : ~Same(buf'[d][i], b[1])
        BY <3>1, <4>3, <4>7 DEF t
      <4> QED
        BY <2>1, <2>2, <2>4, <4>8, TailElements
    <3> QED
      BY <1>9, <1>20, <3>2, <3>3 DEF Receive
  <2> QED
    BY <2>3, <2>4
<1>10. ASSUME NEW d \in Dirs, freechan(d) PROVE HeldMoves
  BY <1>10 DEF freechan
<1>11. ASSUME NEW d \in Dirs, killcomm(d) PROVE HeldMoves
  BY <1>11 DEF killcomm
<1>12. ASSUME NEW r \in held, Reply(r) PROVE HeldMoves
  BY <1>12 DEF Reply
<1>13. CASE Vanish
  BY <1>13 DEF Vanish
<1>14. CASE UNCHANGED vars
  BY <1>14 DEF vars
<1> QED
  BY <1>1, <1>2, <1>3, <1>4, <1>5, <1>6, <1>7, <1>8, <1>9, <1>10, <1>11, <1>12,
     <1>13, <1>14 DEF Next

\* A request is moved, never copied.
LEMMA NextToken ==
  ASSUME IInv, [Next]_vars
  PROVE  TokenInv'
<1>1. PICK N \in [Dirs -> SUBSET Messages] :
        Added(N) /\ \A e \in Dirs : Moved(buf[e], buf'[e], N[e])
  BY BufferStep DEF BufferMoves
<1>2. TokenInv /\ CountInv /\ buf \in [Dirs -> Seq(Messages)] /\ held \subseteq Messages
      /\ n \in [Clients -> 0..MaxReqs]
  BY DEF IInv, TypeOK
<1>3. \A e \in Dirs : \A m \in N[e] : m.n # Nil =>
        /\ \A r \in held : ~Same(m, r)
        /\ \A f \in Dirs : \A j \in DOMAIN buf[f] : ~Same(m, buf[f][j])
  BY <1>1, Fresh
<1>4. \A e, f \in Dirs : \A m \in N[e], k \in N[f] : m.n # Nil => e = f
  BY <1>1 DEF Added
<1>5. \A r \in held : r.n # Nil
  <2>1. \A r \in held : r.c \in Clients /\ r.n \in 1..n[r.c]
    BY <1>2, MessageParts DEF CountInv
  <2> QED
    BY <1>2, <2>1, DevSrvAssumption
<1>6. ASSUME NEW d \in Dirs, NEW i \in DOMAIN buf'[d]
      PROVE  (\E j \in DOMAIN buf[d] : buf'[d][i] = buf[d][j]) \/ buf'[d][i] \in N[d]
  BY <1>1 DEF Moved
<1>7. ASSUME NEW d \in Dirs, NEW i \in DOMAIN buf'[d], NEW r \in held', Same(buf'[d][i], r)
      PROVE  FALSE
  <2>1. CASE r \in held
    <3>1. CASE buf'[d][i] \in N[d]
      BY <1>3, <1>5, <1>7, <2>1, <3>1 DEF Same
    <3>2. CASE \E j \in DOMAIN buf[d] : buf'[d][i] = buf[d][j]
      BY <1>2, <1>7, <2>1, <3>2 DEF TokenInv
    <3> QED
      BY <1>6, <3>1, <3>2
  <2>2. ASSUME NEW e \in Dirs, 1 \in DOMAIN buf[e], r = buf[e][1], r.n # Nil,
               \A k \in DOMAIN buf'[e] : ~Same(buf'[e][k], r)
        PROVE  FALSE
    <3>1. CASE buf'[d][i] \in N[d]
      BY <1>3, <1>7, <2>2, <3>1 DEF Same
    <3>2. CASE \E j \in DOMAIN buf[d] : buf'[d][i] = buf[d][j]
      <4>1. e # d
        BY <1>7, <2>2
      <4> QED
        BY <1>2, <1>7, <2>2, <3>2, <4>1 DEF TokenInv, Same
    <3> QED
      BY <1>6, <3>1, <3>2
  <2> QED
    BY <2>1, <2>2, HeldStep DEF HeldMoves
<1>8. ASSUME NEW d \in Dirs, NEW e \in Dirs, NEW i \in DOMAIN buf'[d], NEW j \in DOMAIN buf'[e],
             Same(buf'[d][i], buf'[e][j]), buf'[d][i].n # Nil
      PROVE  d = e /\ i = j
  <2>1. buf'[e][j].n # Nil
    BY <1>8 DEF Same
  <2>2. CASE buf'[d][i] \in N[d] /\ ~\E l \in DOMAIN buf[d] : buf'[d][i] = buf[d][l]
    <3>1. buf'[e][j] \in N[e] /\ ~\E l \in DOMAIN buf[e] : buf'[e][j] = buf[e][l]
      BY <1>3, <1>6, <1>8, <2>2 DEF Same
    <3>2. d = e
      BY <1>4, <1>8, <2>2, <3>1
    <3>3. PICK k \in {0, 1} : \A x \in DOMAIN buf'[d] :
            /\ x \in Nat
            /\ \/ x + k \in DOMAIN buf[d] /\ buf'[d][x] = buf[d][x + k]
               \/ x + k = Len(buf[d]) + 1 /\ buf'[d][x] \in N[d]
      BY <1>1 DEF Moved
    <3>4. i \in Nat /\ j \in Nat /\ i + k = Len(buf[d]) + 1 /\ j + k = Len(buf[d]) + 1
      BY <2>2, <3>1, <3>2, <3>3
    <3>5. Len(buf[d]) \in Nat
      BY <1>2
    <3> QED
      BY <3>2, <3>3, <3>4, <3>5
  <2>3. CASE \E l \in DOMAIN buf[d] : buf'[d][i] = buf[d][l]
    <3>1. ~(buf'[e][j] \in N[e])
      BY <1>3, <1>8, <2>1, <2>3 DEF Same
    <3>2. \E l \in DOMAIN buf[e] : buf'[e][j] = buf[e][l]
      BY <1>6, <3>1
    <3>3. d = e
      BY <1>2, <1>8, <2>3, <3>2 DEF TokenInv
    <3>4. PICK k \in {0, 1} : \A x \in DOMAIN buf'[d] :
            /\ x \in Nat
            /\ \/ x + k \in DOMAIN buf[d] /\ buf'[d][x] = buf[d][x + k]
               \/ x + k = Len(buf[d]) + 1 /\ buf'[d][x] \in N[d]
      BY <1>1 DEF Moved
    <3>5. ~(buf'[d][i] \in N[d])
      BY <1>3, <1>8, <2>3, <3>2, <3>3 DEF Same
    <3>6. /\ i \in Nat /\ j \in Nat
          /\ i + k \in DOMAIN buf[d] /\ buf'[d][i] = buf[d][i + k]
          /\ j + k \in DOMAIN buf[d] /\ buf'[d][j] = buf[d][j + k]
      BY <3>1, <3>3, <3>4, <3>5
    <3>7. i + k = j + k
      BY <1>2, <1>8, <3>3, <3>6 DEF TokenInv
    <3> QED
      BY <3>3, <3>4, <3>6, <3>7
  <2> QED
    BY <1>6, <2>2, <2>3
<1> QED
  BY <1>7, <1>8 DEF TokenInv

\* Who waits has a request, and only a running server holds any.
CountParts ==
    /\ \A x \in Clients : pc'[x] \in Pending => n'[x] > 0
    /\ held' # {} => srv' = "run"

\* Every step keeps these two.
LEMMA CountStep ==
  ASSUME IInv, [Next]_vars
  PROVE  CountParts
<1>20. pc \in [Clients -> Places]
  BY DEF IInv, TypeOK
<1>21. n \in [Clients -> 0..MaxReqs] /\ held \subseteq Messages
  BY DEF IInv, TypeOK
<1>22. /\ \A x \in Clients : pc[x] \in Pending => n[x] > 0
       /\ held # {} => srv = "run"
  BY DEF IInv, CountInv
<1>23. /\ sendq \in [Dirs -> Seq(Clients)]
       /\ \A d \in Dirs : \A i \in DOMAIN sendq[d] : pc[sendq[d][i]] \in {"block", "blocked"}
  BY DEF IInv, TypeOK, QueueInv
<1> USE DevSrvAssumption DEF CountParts, Pending
<1>1. ASSUME NEW c \in Clients, srvwalk(c) PROVE CountParts
  BY <1>1, <1>20, <1>21, <1>22, <1>23 DEF srvwalk, Go
<1>2. ASSUME NEW c \in Clients, srvopen(c) PROVE CountParts
  BY <1>2, <1>20, <1>21, <1>22, <1>23 DEF srvopen, Go
<1>3. ASSUME NEW c \in Clients, Sleep(c) PROVE CountParts
  BY <1>3, <1>20, <1>21, <1>22, <1>23 DEF Sleep, Go
<1>4. ASSUME NEW c \in Clients, addwaiting(c) PROVE CountParts
  BY <1>4, <1>20, <1>21, <1>22, <1>23 DEF addwaiting, Go
<1>5. ASSUME NEW c \in Clients, delwaiting(c) PROVE CountParts
  BY <1>5, <1>20, <1>21, <1>22, <1>23 DEF delwaiting, Go
<1>6. ASSUME NEW c \in Clients, interrupted(c) PROVE CountParts
  BY <1>6, <1>20, <1>21, <1>22, <1>23 DEF interrupted, Go
<1>7. ASSUME NEW c \in Clients, NEW d \in Dirs, srvread(c, d) PROVE CountParts
  BY <1>7, <1>20, <1>21, <1>22, <1>23 DEF srvread, Go
<1>8. ASSUME NEW c \in Clients, NEW remove \in BOOLEAN, srvclunk(c, remove) PROVE CountParts
  BY <1>8, <1>20, <1>21, <1>22 DEF srvclunk, Go
<1>9. ASSUME NEW d \in Dirs, Receive(d) PROVE CountParts
  <2>1. n' = n /\ srv' = "run" /\ srv = "run"
    BY <1>9 DEF Receive
  <2>2. CASE pc' = pc
    BY <2>1, <2>2, <1>22
  <2>3. CASE sendq[d] # <<>> /\ pc' = [pc EXCEPT ![Head(sendq[d])] = "sent"]
    <3>1. Head(sendq[d]) \in Clients /\ pc[Head(sendq[d])] \in {"block", "blocked"}
      BY <2>3, <1>23, TailElements
    <3> QED
      BY <2>1, <2>3, <3>1, <1>20, <1>22
  <2> QED
    BY <1>9, <2>2, <2>3 DEF Receive, Go
<1>10. ASSUME NEW d \in Dirs, freechan(d) PROVE CountParts
  <2>0. \A x \in waitlist : x \in Clients /\ pc[x] \in {"await", "answered"} /\ rcbuf[x] = Nil
    BY <1>10, Waiters
  <2> QED
    BY <1>10, <1>20, <1>22, <2>0 DEF freechan, srvfree, srvcancelreqs
<1>11. ASSUME NEW d \in Dirs, killcomm(d) PROVE CountParts
  BY <1>11, <1>20, <1>21, <1>22, <1>23 DEF killcomm
<1>12. ASSUME NEW r \in held, Reply(r) PROVE CountParts
  <2>1. r.c \in Clients
    BY <1>21, MessageParts
  <2> QED
    BY <1>12, <2>1, <1>20, <1>22 DEF Reply, ReplyTo, Go
<1>13. CASE Vanish
  BY <1>13, <1>20, <1>21, <1>22, <1>23 DEF Vanish
<1>14. CASE UNCHANGED vars
  BY <1>14, <1>22 DEF vars
<1> QED
  BY <1>1, <1>2, <1>3, <1>4, <1>5, <1>6, <1>7, <1>8, <1>9, <1>10, <1>11, <1>12,
     <1>13, <1>14 DEF Next

\* A request's number comes from its client's counter.
LEMMA NextCount ==
  ASSUME IInv, [Next]_vars
  PROVE  CountInv'
<1>1. PICK N \in [Dirs -> SUBSET Messages] :
        Added(N) /\ \A e \in Dirs : Moved(buf[e], buf'[e], N[e])
  BY BufferStep DEF BufferMoves
<1>2. CountInv /\ buf \in [Dirs -> Seq(Messages)] /\ held \subseteq Messages
      /\ n \in [Clients -> 0..MaxReqs]
  BY DEF IInv, TypeOK
<1>3. \A x \in Clients : n[x] \in Nat /\ n'[x] \in Nat /\ n[x] <= n'[x]
  <2>1. \A x \in Clients : n[x] \in Nat /\ n'[x] \in n[x]..MaxReqs
    BY <1>2, StaysClosed DEF Forward
  <2> QED
    BY <2>1, DevSrvAssumption
<1>4. ASSUME NEW m, m.c \in Clients, m.n \in 1..n[m.c]
      PROVE  m.n \in 1..n'[m.c]
  BY <1>3, <1>4
<1>5. ASSUME NEW d \in Dirs, NEW i \in DOMAIN buf[d]
      PROVE  buf[d][i].c \in Clients /\ (buf[d][i].n # Nil => buf[d][i].n \in 1..n'[buf[d][i].c])
  BY <1>2, <1>4, MessageParts DEF CountInv
<1>6. ASSUME NEW r \in held' PROVE r.n \in 1..n'[r.c]
  <2>1. CASE r \in held
    BY <1>2, <1>4, <2>1, MessageParts DEF CountInv
  <2> QED
    BY <1>5, <2>1, HeldStep DEF HeldMoves
<1>7. ASSUME NEW d \in Dirs, NEW i \in DOMAIN buf'[d], buf'[d][i].n # Nil
      PROVE  buf'[d][i].n \in 1..n'[buf'[d][i].c]
  <2>1. CASE \E j \in DOMAIN buf[d] : buf'[d][i] = buf[d][j]
    BY <1>5, <1>7, <2>1
  <2>2. CASE buf'[d][i] \in N[d]
    <3> DEFINE m == buf'[d][i]
    <3>1. m.c \in Clients /\ m.n = n'[m.c] /\ n'[m.c] > 0
      BY <1>1, <1>3, <1>7, <2>2, MessageParts DEF Added
    <3> QED
      BY <1>3, <3>1
  <2> QED
    BY <1>1, <2>1, <2>2 DEF Moved
<1>8. CountParts
  BY CountStep
<1> QED
  BY <1>6, <1>7, <1>8 DEF CountInv, CountParts

\* Messages with the same client and number are the same.
LEMMA SameEqual ==
  ASSUME NEW a \in Messages, NEW b \in Messages, Same(a, b)
  PROVE  a = b
BY DEF Same, Messages

\* A step that sends no request makes none outstanding.
LEMMA NoneSent ==
  ASSUME held' \subseteq held, n' = n, n \in [Clients -> 0..MaxReqs],
         \A d \in Dirs : \A i \in DOMAIN buf'[d] :
           (\E j \in DOMAIN buf[d] : buf'[d][i] = buf[d][j]) \/ buf'[d][i].n = Nil
  PROVE  \A x \in Clients : Outstanding(x)' => Outstanding(x)
BY DevSrvAssumption DEF Outstanding

\* A request is outstanding from the moment it is sent to its answer.
LEMMA NextOut ==
  ASSUME IInv, [Next]_vars
  PROVE  OutInv'
<1>20. pc \in [Clients -> Places] /\ rcbuf \in [Clients -> 1..MaxReqs \cup {Nil}]
  BY DEF IInv, TypeOK
<1>21. n \in [Clients -> 0..MaxReqs] /\ held \subseteq Messages
  BY DEF IInv, TypeOK
<1>22. buf \in [Dirs -> Seq(Messages)]
  BY DEF IInv, TypeOK
<1>23. OutInv
  BY DEF IInv
<1>24. CountInv /\ TokenInv
  BY DEF IInv
<1>26. /\ sendq \in [Dirs -> Seq(Clients)]
       /\ \A d \in Dirs : \A i \in DOMAIN sendq[d] : pc[sendq[d][i]] \in {"block", "blocked"}
  BY DEF IInv, TypeOK, QueueInv
<1>27. held' \subseteq held /\ n' = n /\ buf' = buf =>
         \A x \in Clients : Outstanding(x)' => Outstanding(x)
  BY <1>21, NoneSent
<1>28. /\ srv = "run" => \A x \in Clients : Outstanding(x) /\ pc[x] \in Pending =>
            pc[x] \in {"sent", "await"} /\ rcbuf[x] = Nil
       /\ \A x \in Clients : rcbuf[x] # Nil /\ pc[x] \in Pending => pc[x] = "sent"
  BY <1>23 DEF OutInv
<1> USE DevSrvAssumption DEF OutInv, Pending
<1>1. ASSUME NEW c \in Clients, srvwalk(c) PROVE OutInv'
  <2>1. \A x \in Clients : Outstanding(x)' => Outstanding(x)
    BY <1>1, <1>27 DEF srvwalk
  <2> QED
    BY <1>1, <2>1, <1>20, <1>28 DEF srvwalk, Go
<1>2. ASSUME NEW c \in Clients, srvopen(c) PROVE OutInv'
  <2>1. \A x \in Clients : Outstanding(x)' => Outstanding(x)
    BY <1>2, <1>27 DEF srvopen
  <2> QED
    BY <1>2, <2>1, <1>20, <1>28 DEF srvopen, Go
<1>3. ASSUME NEW c \in Clients, Sleep(c) PROVE OutInv'
  <2>1. \A x \in Clients : Outstanding(x)' => Outstanding(x)
    BY <1>3, <1>27 DEF Sleep
  <2> QED
    BY <1>3, <2>1, <1>20, <1>28 DEF Sleep, Go
<1>4. ASSUME NEW c \in Clients, addwaiting(c) PROVE OutInv'
  <2>1. \A x \in Clients : Outstanding(x)' => Outstanding(x)
    BY <1>4, <1>27 DEF addwaiting
  <2> QED
    BY <1>4, <2>1, <1>20, <1>28 DEF addwaiting, Go
<1>5. ASSUME NEW c \in Clients, delwaiting(c) PROVE OutInv'
  <2>1. \A x \in Clients : Outstanding(x)' => Outstanding(x)
    BY <1>5, <1>27 DEF delwaiting
  <2> QED
    BY <1>5, <2>1, <1>20, <1>28 DEF delwaiting, Go
<1>6. ASSUME NEW c \in Clients, interrupted(c) PROVE OutInv'
  <2>1. \A x \in Clients : Outstanding(x)' => Outstanding(x)
    BY <1>6, <1>27 DEF interrupted
  <2> QED
    BY <1>6, <2>1, <1>20, <1>28 DEF interrupted, Go
<1>7. ASSUME NEW c \in Clients, NEW d \in Dirs, srvread(c, d) PROVE OutInv'
  <2>1. /\ pc[c] = "idle" /\ n' = [n EXCEPT ![c] = @ + 1] /\ held' = held /\ srv' = srv
        /\ rcbuf' = [rcbuf EXCEPT ![c] = Nil]
        /\ \A x \in Clients : x # c => pc'[x] = pc[x]
    BY <1>7, <1>20 DEF srvread, Go
  <2>2. \A x \in Clients : /\ n'[x] = (IF x = c THEN n[x] + 1 ELSE n[x])
                           /\ rcbuf'[x] = IF x = c THEN Nil ELSE rcbuf[x]
    BY <2>1, <1>20, <1>21
  <2>3. ASSUME NEW x \in Clients, x # c, Outstanding(x)'
        PROVE  Outstanding(x)
    <3>1. \A e \in Dirs : \A i \in DOMAIN buf'[e] :
            (\E j \in DOMAIN buf[e] : buf'[e][i] = buf[e][j]) \/ buf'[e][i].c = c
      <4>1. \A e \in Dirs : buf'[e] \in {buf[e], Append(buf[e], Request(c))} /\ buf[e] \in Seq(Messages)
        BY <1>7, <1>22 DEF srvread
      <4>2. Request(c) \in Messages /\ Request(c).c = c
        <5>1. n[c] + 1 \in 1..MaxReqs
          BY <1>7, <1>21 DEF srvread
        <5> QED
          BY <5>1 DEF Request, Messages
      <4>3. ASSUME NEW e \in Dirs, NEW i \in DOMAIN buf'[e], buf'[e] = Append(buf[e], Request(c))
            PROVE  (\E j \in DOMAIN buf[e] : buf'[e][i] = buf[e][j]) \/ buf'[e][i].c = c
        BY <4>1, <4>2, <4>3, AppendElements
      <4> QED
        BY <4>1, <4>3
    <3> QED
      BY <2>1, <2>2, <2>3, <3>1 DEF Outstanding
  <2>4. Outstanding(c)' /\ pc'[c] \in Pending => pc'[c] = "await"
    <3>1. CASE buf' = buf
      <4>1. \A r \in held : r.c = c => r.n # n[c] + 1
        BY <1>21, <1>24 DEF CountInv
      <4>2. \A e \in Dirs : \A i \in DOMAIN buf[e] : buf[e][i].c = c => buf[e][i].n # n[c] + 1
        <5>1. n[c] + 1 \in Nat
          BY <1>21
        <5> QED
          BY <5>1, <1>21, <1>24 DEF CountInv
      <4> QED
        BY <2>1, <2>2, <3>1, <4>1, <4>2 DEF Outstanding
    <3>2. CASE pc' = [pc EXCEPT ![c] = "await"]
      BY <3>2, <1>20
    <3> QED
      BY <1>7, <3>1, <3>2 DEF srvread, Go
  <2> QED
    BY <2>1, <2>2, <2>3, <2>4, <1>28
<1>8. ASSUME NEW c \in Clients, NEW remove \in BOOLEAN, srvclunk(c, remove) PROVE OutInv'
  <2>1. /\ n' = n /\ held' = held /\ rcbuf' = rcbuf /\ srv' = srv
        /\ pc' = [pc EXCEPT ![c] = "closed"]
    BY <1>8 DEF srvclunk, Go
  <2>2. \A e \in Dirs : buf'[e] \in {buf[e], Append(buf[e], Notice(c))}
    BY <1>8, <1>22 DEF srvclunk, srvunblock
  <2>3. Notice(c) \in Messages /\ Notice(c).n = Nil
    BY DEF Notice, Messages
  <2>4. ASSUME NEW e \in Dirs, NEW i \in DOMAIN buf'[e]
        PROVE  (\E j \in DOMAIN buf[e] : buf'[e][i] = buf[e][j]) \/ buf'[e][i].n = Nil
    <3>1. buf[e] \in Seq(Messages)
      BY <1>22
    <3> QED
      BY <2>2, <2>3, <2>4, <3>1, AppendElements, SMTT(40)
  <2>5. \A x \in Clients : Outstanding(x)' => Outstanding(x)
    BY <2>1, <2>4, <1>21, NoneSent
  <2> QED
    BY <2>1, <2>5, <1>20, <1>28
<1>9. ASSUME NEW d \in Dirs, Receive(d) PROVE OutInv'
  <2> DEFINE h == Head(sendq[d])
             m == [c |-> h, n |-> n[h]]
             b == buf[d]
  <2>1. /\ b # <<>> /\ b \in Seq(Messages) /\ n' = n /\ rcbuf' = rcbuf /\ srv' = srv
        /\ held' \subseteq held \cup {b[1]} /\ 1 \in DOMAIN b
    BY <1>9, <1>22, TailElements DEF Receive
  <2>2. \A i \in DOMAIN Tail(b) : \E j \in DOMAIN b : Tail(b)[i] = b[j]
    <3> HIDE DEF b
    <3> QED
      BY <2>1, TailElements
  <2>3. CASE UNCHANGED pc /\ buf' = [buf EXCEPT ![d] = Tail(@)]
    <3>1. \A e \in Dirs : \A i \in DOMAIN buf'[e] : \E j \in DOMAIN buf[e] : buf'[e][i] = buf[e][j]
      BY <2>2, <2>3, <1>22
    <3>2. \A x \in Clients : Outstanding(x)' => Outstanding(x)
      BY <2>1, <3>1 DEF Outstanding
    <3> QED
      BY <2>1, <2>3, <3>2, <1>28
  <2>4. CASE /\ sendq[d] # <<>> /\ pc' = [pc EXCEPT ![h] = "sent"]
             /\ buf' = [buf EXCEPT ![d] = Append(Tail(@), m)]
    <3>1. h \in Clients /\ pc[h] \in {"block", "blocked"}
      BY <2>4, <1>26, TailElements
    <3>2. m \in Messages /\ m.c = h
      <4>1. n[h] \in 1..MaxReqs
        BY <3>1, <1>21, <1>24 DEF CountInv
      <4> QED
        BY <3>1, <4>1 DEF Messages
    <3> HIDE DEF m
    <3>3. \A i \in DOMAIN Append(Tail(b), m) :
            (\E j \in DOMAIN b : Append(Tail(b), m)[i] = b[j]) \/ Append(Tail(b), m)[i] = m
      <4> DEFINE t == Tail(b)
      <4>1. t \in Seq(Messages)
        BY <2>1, TailElements
      <4> HIDE DEF t
      <4>2. \A i \in DOMAIN Append(t, m) :
              (\E j \in DOMAIN t : Append(t, m)[i] = t[j]) \/ Append(t, m)[i] = m
        BY <3>2, <4>1, AppendElements
      <4> QED
        BY <2>2, <4>2 DEF t
    <3>4. \A e \in Dirs : \A i \in DOMAIN buf'[e] :
            (\E j \in DOMAIN buf[e] : buf'[e][i] = buf[e][j]) \/ buf'[e][i] = m
      BY <2>4, <3>3, <1>22
    <3>5. \A x \in Clients : x # h /\ Outstanding(x)' => Outstanding(x)
      BY <2>1, <3>2, <3>4 DEF Outstanding
    <3>6. rcbuf[h] = Nil
      BY <3>1, <1>28
    <3>7. \A x \in Clients : pc'[x] = IF x = h THEN "sent" ELSE pc[x]
      BY <2>4, <1>20
    <3> QED
      BY <2>1, <3>1, <3>5, <3>6, <3>7, <1>28
  <2> QED
    BY <1>9, <2>3, <2>4 DEF Receive, Go
<1>10. ASSUME NEW d \in Dirs, freechan(d) PROVE OutInv'
  <2>0. \A x \in waitlist : x \in Clients /\ pc[x] \in {"await", "answered"} /\ rcbuf[x] = Nil
    BY <1>10, Waiters
  <2> QED
    BY <1>10, <1>20, <2>0, <1>28 DEF freechan, srvfree, srvcancelreqs
<1>11. ASSUME NEW d \in Dirs, killcomm(d) PROVE OutInv'
  BY <1>11, <1>20, <1>28 DEF killcomm
<1>12. ASSUME NEW r \in held, Reply(r) PROVE OutInv'
  <2>1. r \in Messages /\ r.c \in Clients
    BY <1>21, MessageParts
  <2>2. \A x \in Clients : Outstanding(x)' => Outstanding(x)
    BY <1>12, <1>27 DEF Reply
  <2>3. r.n = n[r.c] => Outstanding(r.c)
    BY DEF Outstanding
  <2>4. r.n = n[r.c] => ~Outstanding(r.c)'
    <3>1. n' = n /\ buf' = buf /\ held' = held \ {r}
      BY <1>12 DEF Reply
    <3>2. \A s \in held : Same(s, r) => s = r
      BY <1>21, SameEqual
    <3> QED
      BY <3>1, <3>2, <1>24 DEF Outstanding, TokenInv, Same
  <2>5. CASE pc' = pc /\ rcbuf' = rcbuf /\ srv' = srv
    BY <2>2, <2>5, <1>28
  <2>6. CASE /\ ReplyTo(r) /\ srv = "run" /\ srv' = srv
             /\ pc' = [pc EXCEPT ![r.c] = "answered"] /\ rcbuf' = rcbuf /\ pc[r.c] = "await"
    <3>1. ~Outstanding(r.c)' /\ rcbuf[r.c] = Nil
      BY <2>1, <2>4, <2>6, <1>28 DEF ReplyTo
    <3> QED
      BY <2>1, <2>2, <2>6, <3>1, <1>20, <1>28
  <2>7. CASE /\ ReplyTo(r) /\ srv = "run" /\ srv' = srv
             /\ pc' = pc /\ rcbuf' = [rcbuf EXCEPT ![r.c] = r.n] /\ pc[r.c] # "await"
    <3>1. ~Outstanding(r.c)' /\ pc[r.c] = "sent"
      BY <2>1, <2>3, <2>4, <2>7, <1>28 DEF ReplyTo
    <3> QED
      BY <2>1, <2>2, <2>7, <3>1, <1>20, <1>28
  <2> QED
    BY <1>12, <2>5, <2>6, <2>7 DEF Reply, Go
<1>13. CASE Vanish
  BY <1>13, <1>28 DEF Vanish
<1>14. CASE UNCHANGED vars
  <2>1. \A x \in Clients : Outstanding(x)' => Outstanding(x)
    BY <1>14, <1>27 DEF vars
  <2> QED
    BY <1>14, <2>1, <1>20, <1>28 DEF vars
<1> QED
  BY <1>1, <1>2, <1>3, <1>4, <1>5, <1>6, <1>7, <1>8, <1>9, <1>10, <1>11, <1>12,
     <1>13, <1>14 DEF Next

\* Counting the users of the file.
LEMMA UsersCount ==
  ASSUME IInv
  PROVE  /\ IsFiniteSet(Users) /\ Cardinality(Users) \in Nat
         /\ Cardinality(Users) = 0 <=> Users = {}
         /\ \A c \in Clients \ Users :
              Cardinality(Users \cup {c}) = Cardinality(Users) + 1
         /\ \A c \in Users : Cardinality(Users \ {c}) = Cardinality(Users) - 1
<1>1. IsFiniteSet(Users)
  BY DevSrvAssumption, FS_Subset DEF Users
<1> QED
  BY <1>1, FS_CardinalityType, FS_EmptySet, FS_AddElement, FS_RemoveElement

\* A reference comes and goes with what it stands for.
LEMMA NextRef ==
  ASSUME IInv, [Next]_vars
  PROVE  RefInv'
<1>20. pc \in [Clients -> Places]
  BY DEF IInv, TypeOK
<1>21. entry \in BOOLEAN /\ freed \in BOOLEAN /\ ref \in Nat /\ isopen \in [Dirs -> BOOLEAN]
  BY DEF IInv, TypeOK
<1>22. RefInv /\ OpenInv
  BY DEF IInv
<1>24. /\ sendq \in [Dirs -> Seq(Clients)]
       /\ \A d \in Dirs : \A i \in DOMAIN sendq[d] : pc[sendq[d][i]] \in {"block", "blocked"}
  BY DEF IInv, TypeOK, QueueInv
<1>25. \A r \in held : r.c \in Clients
  BY DEF IInv, TypeOK, Messages
<1> USE DevSrvAssumption DEF RefInv, OpenInv, Dirs
<1>1. ASSUME NEW c \in Clients, srvwalk(c) PROVE RefInv'
  <2>1. Users' = Users \cup {c} /\ c \notin Users
    BY <1>1, <1>20 DEF srvwalk, Go, Users
  <2>2. Cardinality(Users)' = Cardinality(Users) + 1 /\ Cardinality(Users) \in Nat
    BY <2>1, UsersCount
  <2>3. ref' = ref + 1 /\ entry /\ UNCHANGED <<entry, isopen, freed>>
    BY <1>1 DEF srvwalk
  <2> QED
    BY <2>2, <2>3, <1>21, <1>22
<1>2. ASSUME NEW c \in Clients, srvopen(c) PROVE RefInv'
  <2>1. Users' = Users
    BY <1>2, <1>20, <1>24, <1>25 DEF Users, srvopen, Go
  <2> QED
    BY <1>2, <2>1, <1>22 DEF srvopen, filevars
<1>3. ASSUME NEW c \in Clients, Sleep(c) PROVE RefInv'
  <2>1. Users' = Users
    BY <1>3, <1>20, <1>24, <1>25 DEF Users, Sleep, Go
  <2> QED
    BY <1>3, <2>1, <1>22 DEF Sleep, filevars
<1>4. ASSUME NEW c \in Clients, addwaiting(c) PROVE RefInv'
  <2>1. Users' = Users
    BY <1>4, <1>20, <1>24, <1>25 DEF Users, addwaiting, Go
  <2> QED
    BY <1>4, <2>1, <1>22 DEF addwaiting, filevars
<1>5. ASSUME NEW c \in Clients, delwaiting(c) PROVE RefInv'
  <2>1. Users' = Users
    BY <1>5, <1>20, <1>24, <1>25 DEF Users, delwaiting, Go
  <2> QED
    BY <1>5, <2>1, <1>22 DEF delwaiting, filevars
<1>6. ASSUME NEW c \in Clients, interrupted(c) PROVE RefInv'
  <2>1. Users' = Users
    BY <1>6, <1>20, <1>24, <1>25 DEF Users, interrupted, Go, Pending
  <2> QED
    BY <1>6, <2>1, <1>22 DEF interrupted, filevars
<1>7. ASSUME NEW c \in Clients, NEW d \in Dirs, srvread(c, d) PROVE RefInv'
  <2>1. Users' = Users
    BY <1>7, <1>20, <1>24, <1>25 DEF Users, srvread, Go
  <2> QED
    BY <1>7, <2>1, <1>22 DEF srvread, filevars
<1>8. ASSUME NEW c \in Clients, NEW remove \in BOOLEAN, srvclunk(c, remove) PROVE RefInv'
  <2>1. Users' = Users \ {c} /\ c \in Users
    BY <1>8, <1>20 DEF srvclunk, Go, Users
  <2>2. /\ Cardinality(Users)' = Cardinality(Users) - 1
        /\ Cardinality(Users) \in Nat /\ Cardinality(Users) # 0
    BY <2>1, UsersCount
  <2>3. /\ entry' = (entry /\ ~remove)
        /\ ref' = IF entry /\ remove THEN ref - 2 ELSE ref - 1
        /\ freed' = (freed \/ ref' = 0)
        /\ isopen' = isopen
    BY <1>8 DEF srvclunk
  <2>4. ~freed
    BY <2>2, <1>21, <1>22
  <2>5. CASE entry /\ remove
    BY <2>2, <2>3, <2>4, <2>5, <1>21, <1>22
  <2>6. CASE ~(entry /\ remove)
    <3>1. entry' = entry /\ ref' = ref - 1 /\ isopen' = isopen
      BY <2>3, <2>6, <1>21
    <3>2. freed' <=> ref' = 0
      BY <2>3, <2>4
    <3>3. ref' = Cardinality(Users)' + (IF entry' THEN 1 ELSE 0)
                                     + (IF \E e \in Dirs : isopen'[e] THEN 1 ELSE 0)
      BY <2>2, <3>1, <1>21, <1>22
    <3> QED
      BY <3>1, <3>2, <3>3, <1>22
  <2> QED
    BY <2>5, <2>6
<1>9. ASSUME NEW d \in Dirs, Receive(d) PROVE RefInv'
  <2>1. Users' = Users
    <3>1. CASE pc' = pc
      BY <3>1 DEF Users
    <3>2. CASE sendq[d] # <<>> /\ pc' = [pc EXCEPT ![Head(sendq[d])] = "sent"]
      <4>1. Head(sendq[d]) \in Clients /\ pc[Head(sendq[d])] \in {"block", "blocked"}
        BY <3>2, <1>24, TailElements
      <4> QED
        BY <3>2, <4>1, <1>20 DEF Users
    <3> QED
      BY <1>9, <3>1, <3>2 DEF Receive, Go
  <2> QED
    BY <1>9, <2>1, <1>22 DEF Receive, filevars
<1>10. ASSUME NEW d \in Dirs, freechan(d) PROVE RefInv'
  <2>0. \A x \in waitlist : x \in Clients /\ pc[x] \in {"await", "answered"} /\ rcbuf[x] = Nil
    BY <1>10, Waiters
  <2>1. Users' = Users
    BY <1>10, <1>20, <2>0 DEF Users, freechan, srvfree, srvcancelreqs
  <2>2. Cardinality(Users) \in Nat
    BY UsersCount
  <2> DEFINE k == Cardinality(Users)
  <2>3. k' = k
    BY <2>1
  <2> HIDE DEF k
  <2>4. /\ isopen' = [isopen EXCEPT ![d] = FALSE]
        /\ IF isopen'["read"] \/ isopen'["write"]
           THEN UNCHANGED <<entry, ref, freed>>
           ELSE /\ entry' = FALSE
                /\ ref' = ref - 1 - (IF entry THEN 1 ELSE 0)
                /\ freed' = (freed \/ ref' = 0)
    BY <1>10 DEF freechan, srvfree
  <2>5. CASE d = "read"
    <3>1. isopen["write"] /\ isopen'["write"]
      BY <1>10, <2>4, <2>5, <1>21, <1>22 DEF freechan
    <3> QED
      BY <2>1, <2>4, <3>1, <1>21, <1>22
  <2>6. CASE d = "write"
    <3>1. isopen["write"] /\ ~isopen["read"]
      BY <1>10, <2>6, <1>21, <1>22 DEF freechan
    <3>2. ~isopen'["write"] /\ ~isopen'["read"]
      BY <2>4, <2>6, <3>1, <1>21
    <3>3. ref = k + (IF entry THEN 1 ELSE 0) + 1 /\ k \in Nat
      BY <2>2, <3>1, <1>22 DEF k
    <3>4. ref' = k /\ ~entry'
      BY <2>4, <3>2, <3>3, <1>21
    <3>7. ~freed
      BY <3>3, <1>22
    <3>8. freed' <=> ref' = 0
      BY <2>4, <3>2, <3>7
    <3>5. ~\E e \in Dirs : isopen'[e]
      BY <3>2
    <3>6. Cardinality(Users)' = k
      BY <2>3 DEF k
    <3> QED
      BY <3>3, <3>4, <3>5, <3>6, <3>8
  <2> QED
    BY <2>5, <2>6
<1>11. ASSUME NEW d \in Dirs, killcomm(d) PROVE RefInv'
  <2>1. Users' = Users
    BY <1>11, <1>20, <1>24, <1>25 DEF Users, killcomm
  <2> QED
    BY <1>11, <2>1, <1>22 DEF killcomm, filevars
<1>12. ASSUME NEW r \in held, Reply(r) PROVE RefInv'
  <2>1. Users' = Users
    BY <1>12, <1>20, <1>24, <1>25 DEF Users, Reply, ReplyTo, Go
  <2> QED
    BY <1>12, <2>1, <1>22 DEF Reply, filevars
<1>13. CASE Vanish
  <2>1. Users' = Users
    BY <1>13, <1>20, <1>24, <1>25 DEF Users, Vanish
  <2> QED
    BY <1>13, <2>1, <1>22 DEF Vanish, filevars
<1>14. CASE UNCHANGED vars
  <2>1. Users' = Users
    BY <1>14, <1>20, <1>24, <1>25 DEF Users, vars
  <2> QED
    BY <1>14, <2>1, <1>22 DEF vars
<1> QED
  BY <1>1, <1>2, <1>3, <1>4, <1>5, <1>6, <1>7, <1>8, <1>9, <1>10, <1>11, <1>12,
     <1>13, <1>14 DEF Next

\* The count of references never goes below zero.
LEMMA RefNat ==
  ASSUME IInv, [Next]_vars
  PROVE  ref' \in Nat
<1>1. RefInv'
  BY NextRef
<1>2. Cardinality(Users') \in Nat
  BY DevSrvAssumption, FS_Subset, FS_CardinalityType DEF Users
<1> QED
  BY <1>1, <1>2 DEF RefInv

\* The links lead from one place of a list to another.
LEMMA NextLinks ==
  ASSUME IInv, [Next]_vars
  PROVE  next' \in [Nodes -> Nodes] /\ prev' \in [Nodes -> Nodes]
<1>20. /\ next \in [Nodes -> Nodes] /\ prev \in [Nodes -> Nodes] /\ File \in Nodes
       /\ \A c \in Clients : c \in Nodes
  BY DEF IInv, TypeOK, Nodes
<1> DEFINE Typed == next' \in [Nodes -> Nodes] /\ prev' \in [Nodes -> Nodes]
<1>21. ASSUME NEW c \in Clients, link(c) PROVE Typed
  BY <1>20, <1>21 DEF link
<1>22. ASSUME NEW c \in Clients, unlink(c) PROVE Typed
  BY <1>20, <1>22 DEF unlink
<1>23. ASSUME UNCHANGED links PROVE Typed
  BY <1>20, <1>23 DEF links
<1>1. ASSUME NEW c \in Clients, srvwalk(c) PROVE Typed
  BY <1>1, <1>23 DEF srvwalk, links
<1>2. ASSUME NEW c \in Clients, srvopen(c) PROVE Typed
  BY <1>2, <1>23 DEF srvopen, links
<1>3. ASSUME NEW c \in Clients, Sleep(c) PROVE Typed
  BY <1>3, <1>23 DEF Sleep, links
<1>4. ASSUME NEW c \in Clients, addwaiting(c) PROVE Typed
  BY <1>4, <1>20, <1>21 DEF addwaiting
<1>5. ASSUME NEW c \in Clients, delwaiting(c) PROVE Typed
  BY <1>5, <1>22 DEF delwaiting
<1>6. ASSUME NEW c \in Clients, interrupted(c) PROVE Typed
  BY <1>6, <1>22, <1>23 DEF interrupted, leavelist
<1>7. ASSUME NEW c \in Clients, NEW d \in Dirs, srvread(c, d) PROVE Typed
  <2>1. UNCHANGED links \/ link(c)
    BY <1>7 DEF srvread, links
  <2> QED
    BY <2>1, <1>21, <1>23
<1>8. ASSUME NEW c \in Clients, NEW remove \in BOOLEAN, srvclunk(c, remove) PROVE Typed
  BY <1>8, <1>23 DEF srvclunk, links
<1>9. ASSUME NEW d \in Dirs, Receive(d) PROVE Typed
  BY <1>9, <1>23 DEF Receive, links
<1>10. ASSUME NEW d \in Dirs, freechan(d) PROVE Typed
  <2>1. CASE UNCHANGED links
    BY <2>1, <1>23
  <2>2. CASE srvcancelreqs
    BY <2>2, <1>20 DEF srvcancelreqs
  <2> QED
    BY <1>10, <2>1, <2>2 DEF freechan, srvfree, links
<1>11. ASSUME NEW d \in Dirs, killcomm(d) PROVE Typed
  BY <1>11, <1>23 DEF killcomm, links
<1>12. ASSUME NEW r \in held, Reply(r) PROVE Typed
  BY <1>12, <1>23 DEF Reply, links
<1>13. CASE Vanish
  BY <1>13, <1>23 DEF Vanish, links
<1>14. CASE UNCHANGED vars
  BY <1>14, <1>23 DEF vars, links
<1> QED
  BY <1>1, <1>2, <1>3, <1>4, <1>5, <1>6, <1>7, <1>8, <1>9, <1>10, <1>11, <1>12,
     <1>13, <1>14 DEF Next

\* Every variable keeps its type.
LEMMA NextType ==
  ASSUME IInv, [Next]_vars
  PROVE  TypeOK'
<1>20. pc \in [Clients -> Places] /\ n \in [Clients -> 0..MaxReqs]
  BY DEF IInv, TypeOK
<1>21. /\ ans \in [Clients -> 0..MaxReqs \cup {Intr, Nil}]
       /\ rcbuf \in [Clients -> 1..MaxReqs \cup {Nil}]
       /\ held \subseteq Messages /\ passed \subseteq Clients
  BY DEF IInv, TypeOK
<1>22. buf \in [Dirs -> Seq(Messages)] /\ \A d \in Dirs : Len(buf[d]) <= Slots
  BY DEF IInv, TypeOK
<1>23. sendq \in [Dirs -> Seq(Clients)]
  BY DEF IInv, TypeOK
<1>24. /\ isopen \in [Dirs -> BOOLEAN] /\ entry \in BOOLEAN /\ ref \in Nat /\ freed \in BOOLEAN
       /\ srv \in {"run", "free_read", "kill_read", "free_write", "kill_write", "gone"}
  BY DEF IInv, TypeOK
<1>25. \A r \in held : r.c \in Clients /\ r.n \in 1..MaxReqs
  <2>1. CountInv
    BY DEF IInv
  <2>2. \A r \in held : r.c \in Clients /\ r.n \in 1..n[r.c]
    BY <1>21, <2>1, MessageParts DEF CountInv
  <2> QED
    BY <1>20, <2>2, DevSrvAssumption
<1>26. next' \in [Nodes -> Nodes] /\ prev' \in [Nodes -> Nodes]
  BY NextLinks
<1> USE DevSrvAssumption DEF TypeOK, Places, Hungup
<1>1. ASSUME NEW c \in Clients, srvwalk(c) PROVE TypeOK'
  BY <1>1, <1>20, <1>21, <1>22, <1>23, <1>24, <1>25, <1>26 DEF srvwalk, Go, filevars
<1>2. ASSUME NEW c \in Clients, srvopen(c) PROVE TypeOK'
  BY <1>2, <1>20, <1>21, <1>22, <1>23, <1>24, <1>25, <1>26 DEF srvopen, Go, filevars
<1>3. ASSUME NEW c \in Clients, Sleep(c) PROVE TypeOK'
  BY <1>3, <1>20, <1>21, <1>22, <1>23, <1>24, <1>25, <1>26 DEF Sleep, Go, filevars
<1>4. ASSUME NEW c \in Clients, addwaiting(c) PROVE TypeOK'
  <2>1. UNCHANGED <<n, buf, sendq, isopen, entry, ref, freed, held, srv, passed>>
    BY <1>4 DEF addwaiting, filevars
  <2>2. pc' \in [Clients -> Places]
    BY <1>4, <1>20, <1>21 DEF addwaiting, Go
  <2>3. rcbuf' \in [Clients -> 1..MaxReqs \cup {Nil}]
    BY <1>4, <1>21 DEF addwaiting
  <2>4. ans' \in [Clients -> 0..MaxReqs \cup {Intr, Nil}]
    <3>1. rcbuf[c] \in 0..MaxReqs \cup {Intr, Nil}
      BY <1>21
    <3> QED
      BY <1>4, <3>1, <1>21 DEF addwaiting
  <2> QED
    BY <2>1, <2>2, <2>3, <2>4, <1>20, <1>21, <1>22, <1>23, <1>24, <1>25, <1>26
<1>5. ASSUME NEW c \in Clients, delwaiting(c) PROVE TypeOK'
  BY <1>5, <1>20, <1>21, <1>22, <1>23, <1>24, <1>25, <1>26 DEF delwaiting, Go, filevars
<1>6. ASSUME NEW c \in Clients, interrupted(c) PROVE TypeOK'
  <2>1. \A d \in Dirs : Without(sendq[d], c) \in Seq(Clients)
    <3>1. \A d \in Dirs : /\ sendq[d] \in Seq(Clients)
                          /\ \A i, j \in DOMAIN sendq[d] : sendq[d][i] = sendq[d][j] => i = j
      BY <1>23 DEF IInv, QueueInv
    <3> QED
      BY <3>1, WithoutKeeps
  <2>2. sendq' \in [Dirs -> Seq(Clients)]
    BY <1>6, <2>1 DEF interrupted
  <2>3. pc' \in [Clients -> Places] /\ ans' \in [Clients -> 0..MaxReqs \cup {Intr, Nil}]
    BY <1>6, <1>20, <1>21 DEF interrupted, Go
  <2>4. UNCHANGED <<n, rcbuf, buf, isopen, entry, ref, freed, held, srv, passed>>
    BY <1>6, <1>21 DEF interrupted, filevars
  <2> QED
    BY <2>2, <2>3, <2>4, <1>20, <1>21, <1>22, <1>23, <1>24, <1>25, <1>26
<1>7. ASSUME NEW c \in Clients, NEW d \in Dirs, srvread(c, d) PROVE TypeOK'
  <2>1. Request(c) \in Messages /\ n[c] + 1 \in 0..MaxReqs
    <3>1. n[c] + 1 \in 1..MaxReqs
      BY <1>7, <1>20 DEF srvread
    <3> QED
      BY <3>1 DEF Request, Messages
  <2>2. n' \in [Clients -> 0..MaxReqs] /\ rcbuf' \in [Clients -> 1..MaxReqs \cup {Nil}]
    BY <1>7, <2>1, <1>20, <1>21 DEF srvread
  <2>6. pc' \in [Clients -> Places]
    BY <1>7, <1>20, <1>21 DEF srvread, Go
  <2>7. ans' \in [Clients -> 0..MaxReqs \cup {Intr, Nil}]
    <3>1. ans' \in {[ans EXCEPT ![c] = 0], [ans EXCEPT ![c] = Nil]}
      BY <1>7 DEF srvread
    <3> QED
      BY <3>1, <1>21
  <2>3. buf' \in [Dirs -> Seq(Messages)] /\ \A e \in Dirs : Len(buf'[e]) <= Slots
    <3>1. CASE buf' = buf
      BY <3>1, <1>22
    <3>2. CASE Len(buf[d]) < Slots /\ buf' = [buf EXCEPT ![d] = Append(@, Request(c))]
      <4>1. /\ Append(buf[d], Request(c)) \in Seq(Messages)
            /\ Len(Append(buf[d], Request(c))) = Len(buf[d]) + 1 /\ Len(buf[d]) \in Nat
        BY <2>1, <1>22, AppendElements
      <4> QED
        BY <3>2, <4>1, <1>22
    <3> QED
      BY <1>7, <3>1, <3>2 DEF srvread
  <2>4. sendq' \in [Dirs -> Seq(Clients)]
    <3>1. sendq' \in {sendq, [sendq EXCEPT ![d] = Append(@, c)]}
      BY <1>7 DEF srvread
    <3>2. Append(sendq[d], c) \in Seq(Clients)
      BY <1>23, AppendElements
    <3> QED
      BY <3>1, <3>2, <1>23
  <2>5. UNCHANGED <<isopen, entry, ref, freed, held, srv, passed>>
    BY <1>7 DEF srvread, filevars
  <2> QED
    BY <2>2, <2>3, <2>4, <2>5, <2>6, <2>7, <1>20, <1>21, <1>22, <1>23, <1>24, <1>25, <1>26
<1>8. ASSUME NEW c \in Clients, NEW remove \in BOOLEAN, srvclunk(c, remove) PROVE TypeOK'
  <2>1. Notice(c) \in Messages
    BY DEF Notice, Messages
  <2>2. buf' \in [Dirs -> Seq(Messages)] /\ \A e \in Dirs : Len(buf'[e]) <= Slots
    <3>1. \A e \in Dirs : /\ Append(buf[e], Notice(c)) \in Seq(Messages)
                          /\ Len(Append(buf[e], Notice(c))) = Len(buf[e]) + 1 /\ Len(buf[e]) \in Nat
      BY <2>1, <1>22, AppendElements
    <3>2. CASE srvunblock(c)
      BY <3>1, <3>2, <1>22 DEF srvunblock
    <3> QED
      BY <1>8, <3>2, <1>22 DEF srvclunk
  <2>3. /\ pc' \in [Clients -> Places] /\ entry' \in BOOLEAN /\ freed' \in BOOLEAN
        /\ UNCHANGED <<n, ans, rcbuf, sendq, isopen, held, srv, passed>>
    BY <1>8, <1>20 DEF srvclunk, Go
  <2>4. ref' \in Nat
    BY RefNat
  <2> QED
    BY <2>2, <2>3, <2>4, <1>20, <1>21, <1>22, <1>23, <1>24, <1>25, <1>26
<1>9. ASSUME NEW d \in Dirs, Receive(d) PROVE TypeOK'
  <2> DEFINE h == Head(sendq[d])
             m == [c |-> h, n |-> n[h]]
             b == buf[d]
  <2>1. b \in Seq(Messages) /\ Tail(b) \in Seq(Messages) /\ Len(Tail(b)) = Len(b) - 1 /\ Len(b) \in Nat
        /\ Head(b) \in Messages /\ Len(b) <= Slots
    BY <1>9, <1>22, TailElements DEF Receive
  <2>2. /\ held' \subseteq Messages
        /\ UNCHANGED <<n, ans, rcbuf, isopen, entry, ref, freed, srv, passed>>
    BY <1>9, <2>1, <1>21 DEF Receive, filevars
  <2>3. CASE UNCHANGED <<sendq, pc>> /\ buf' = [buf EXCEPT ![d] = Tail(@)]
    BY <2>1, <2>2, <2>3, <1>20, <1>21, <1>22, <1>23, <1>24, <1>25, <1>26
  <2>4. CASE /\ sendq[d] # <<>> /\ pc' = [pc EXCEPT ![h] = "sent"]
             /\ sendq' = [sendq EXCEPT ![d] = Tail(@)]
             /\ buf' = [buf EXCEPT ![d] = Append(Tail(@), m)]
    <3>1. h \in Clients /\ pc[h] \in {"block", "blocked"} /\ Tail(sendq[d]) \in Seq(Clients)
      BY <2>4, <1>23, TailElements DEF IInv, QueueInv
    <3>2. m \in Messages
      <4>1. n[h] \in 1..MaxReqs
        BY <3>1, <1>20 DEF IInv, CountInv, Pending
      <4> QED
        BY <3>1, <4>1 DEF Messages
    <3> HIDE DEF m, h
    <3>3. Append(Tail(b), m) \in Seq(Messages) /\ Len(Append(Tail(b), m)) = Len(b)
      <4> DEFINE t == Tail(b)
      <4> HIDE DEF t
      <4>1. t \in Seq(Messages) /\ Len(t) = Len(b) - 1
        BY <2>1 DEF t
      <4> QED
        BY <2>1, <3>2, <4>1, AppendElements DEF t
    <3>4. buf' \in [Dirs -> Seq(Messages)] /\ \A e \in Dirs : Len(buf'[e]) <= Slots
      BY <2>1, <2>4, <3>3, <1>22
    <3>5. pc' \in [Clients -> Places] /\ sendq' \in [Dirs -> Seq(Clients)]
      BY <2>4, <3>1, <1>20, <1>23
    <3> QED
      BY <2>2, <3>4, <3>5, <1>20, <1>21, <1>22, <1>23, <1>24, <1>25, <1>26
  <2> QED
    BY <1>9, <2>3, <2>4 DEF Receive, Go
<1>10. ASSUME NEW d \in Dirs, freechan(d) PROVE TypeOK'
  <2>1. /\ isopen' \in [Dirs -> BOOLEAN] /\ entry' \in BOOLEAN /\ freed' \in BOOLEAN
        /\ srv' \in {"kill_read", "kill_write"} /\ UNCHANGED <<n, rcbuf, buf, sendq, held>>
    BY <1>10, <1>24 DEF freechan, srvfree
  <2>2. /\ pc' \in [Clients -> Places] /\ ans' \in [Clients -> 0..MaxReqs \cup {Intr, Nil}]
        /\ passed' \subseteq Clients
    BY <1>10, <1>20, <1>21 DEF freechan, srvfree, srvcancelreqs
  <2>3. ref' \in Nat
    BY RefNat
  <2> QED
    BY <2>1, <2>2, <2>3, <1>20, <1>21, <1>22, <1>23, <1>24, <1>25, <1>26
<1>11. ASSUME NEW d \in Dirs, killcomm(d) PROVE TypeOK'
  <2>1. /\ pc' \in [Clients -> Places] /\ ans' \in [Clients -> 0..MaxReqs \cup {Intr, Nil}]
        /\ passed' \subseteq Clients
    BY <1>11, <1>20, <1>21 DEF killcomm
  <2>2. /\ sendq' = [sendq EXCEPT ![d] = <<>>] /\ buf' = [buf EXCEPT ![d] = <<>>]
        /\ srv' \in {"free_write", "gone"}
        /\ UNCHANGED <<n, rcbuf, isopen, entry, ref, freed, held>>
    BY <1>11 DEF killcomm, filevars
  <2>3. sendq' \in [Dirs -> Seq(Clients)] /\ buf' \in [Dirs -> Seq(Messages)]
        /\ \A e \in Dirs : Len(buf'[e]) <= Slots
    BY <2>2, <1>22, <1>23
  <2> QED
    BY <2>1, <2>2, <2>3, <1>20, <1>21, <1>22, <1>23, <1>24, <1>25, <1>26
<1>12. ASSUME NEW r \in held, Reply(r) PROVE TypeOK'
  <2>1. /\ ans' \in [Clients -> 0..MaxReqs \cup {Intr, Nil}]
        /\ rcbuf' \in [Clients -> 1..MaxReqs \cup {Nil}]
        /\ pc' \in [Clients -> Places] /\ held' \subseteq Messages
    BY <1>12, <1>20, <1>21, <1>25, <1>26 DEF Reply, Go
  <2>2. UNCHANGED <<n, buf, sendq, isopen, entry, ref, freed, srv, passed>>
    BY <1>12 DEF Reply, filevars
  <2> QED
    BY <2>1, <2>2, <1>20, <1>21, <1>22, <1>23, <1>24, <1>25, <1>26
<1>13. CASE Vanish
  BY <1>13, <1>20, <1>21, <1>22, <1>23, <1>24, <1>25, <1>26 DEF Vanish, filevars
<1>14. CASE UNCHANGED vars
  BY <1>14, <1>20, <1>21, <1>22, <1>23, <1>24, <1>25, <1>26 DEF vars
<1> QED
  BY <1>1, <1>2, <1>3, <1>4, <1>5, <1>6, <1>7, <1>8, <1>9, <1>10, <1>11, <1>12,
     <1>13, <1>14 DEF Next

\* As long as a channel is there the links are changed by clients only, and
\* remain a ring of the waiting clients.
LEMMA NextRing ==
  ASSUME IInv, [Next]_vars
  PROVE  RingInv'
<1>20. pc \in [Clients -> Places] /\ isopen \in [Dirs -> BOOLEAN] /\ OpenInv
  BY DEF IInv, TypeOK
<1>21. next \in [Nodes -> Nodes] /\ prev \in [Nodes -> Nodes]
  BY DEF IInv, TypeOK
<1>22. /\ sendq \in [Dirs -> Seq(Clients)]
       /\ \A d \in Dirs : \A i \in DOMAIN sendq[d] : pc[sendq[d][i]] \in {"block", "blocked"}
  BY DEF IInv, TypeOK, QueueInv
<1>23. RingInv /\ In \subseteq Clients
  BY DEF IInv, In
<1>24. ASSUME UNCHANGED links, In' = In, UNCHANGED isopen PROVE RingInv'
  BY <1>23, <1>24 DEF RingInv, links
<1>25. ASSUME NEW c \in Clients, c \notin In, link(c), In' = In \cup {c}, UNCHANGED isopen
       PROVE  RingInv'
  <2>1. SUFFICES ASSUME Ring(next, prev, In) PROVE Ring(next', prev', In')
    BY <1>23, <1>25 DEF RingInv
  <2>2. Ring([next EXCEPT ![c] = File, ![prev[File]] = c],
             [prev EXCEPT ![c] = prev[File], ![File] = c], In \cup {c})
    BY <1>21, <1>23, <1>25, <2>1, RingLink
  <2> QED
    BY <1>25, <2>2 DEF link
<1>26. ASSUME NEW c \in In, unlink(c), In' = In \ {c}, UNCHANGED isopen
       PROVE  RingInv'
  <2>1. SUFFICES ASSUME Ring(next, prev, In) PROVE Ring(next', prev', In')
    BY <1>23, <1>26 DEF RingInv
  <2>2. Ring([next EXCEPT ![prev[c]] = next[c]], [prev EXCEPT ![next[c]] = prev[c]], In \ {c})
    BY <1>21, <1>23, <2>1, RingUnlink
  <2> QED
    BY <1>26, <2>2 DEF unlink
<1> USE DEF In
<1>1. ASSUME NEW c \in Clients, srvwalk(c) PROVE RingInv'
  BY <1>1, <1>20, <1>24 DEF srvwalk, Go, links
<1>2. ASSUME NEW c \in Clients, srvopen(c) PROVE RingInv'
  BY <1>2, <1>20, <1>24 DEF srvopen, Go, links, filevars
<1>3. ASSUME NEW c \in Clients, Sleep(c) PROVE RingInv'
  BY <1>3, <1>20, <1>24 DEF Sleep, Go, links, filevars
<1>4. ASSUME NEW c \in Clients, addwaiting(c) PROVE RingInv'
  <2>1. pc[c] = "sent" /\ UNCHANGED isopen
    BY <1>4 DEF addwaiting, filevars
  <2>2. CASE link(c) /\ pc' = [pc EXCEPT ![c] = "await"]
    <3>1. c \notin In /\ In' = In \cup {c}
      BY <2>1, <2>2, <1>20
    <3> QED
      BY <2>1, <2>2, <3>1, <1>25
  <2>3. CASE /\ pc' = [pc EXCEPT ![c] = "idle"]
             /\ next' = [next EXCEPT ![prev[File]] = File, ![c] = File]
             /\ prev' = [prev EXCEPT ![c] = prev[File]]
    <3>1. c \notin In /\ In' = In
      BY <2>1, <2>3, <1>20
    <3>2. SUFFICES ASSUME Ring(next, prev, In) PROVE Ring(next', prev', In)
      BY <2>1, <3>1, <1>23 DEF RingInv
    <3>3. c # File /\ In \cup {File} \subseteq Nodes /\ c \in Nodes /\ prev[File] \in In \cup {File}
          /\ next[prev[File]] = File
      BY <3>2, <1>23, DevSrvAssumption DEF Nodes, Ring
    <3> HIDE DEF In
    <3>4. \A x \in In \cup {File} : next'[x] = next[x] /\ prev'[x] = prev[x]
      BY <2>3, <3>1, <3>3, <1>21
    <3> QED
      BY <3>2, <3>4 DEF Ring
  <2> QED
    BY <1>4, <2>2, <2>3 DEF addwaiting, Go
<1>5. ASSUME NEW c \in Clients, delwaiting(c) PROVE RingInv'
  <2>1. c \in In /\ In' = In \ {c} /\ unlink(c) /\ UNCHANGED isopen
    BY <1>5, <1>20 DEF delwaiting, Go, filevars
  <2> QED
    BY <2>1, <1>26
<1>6. ASSUME NEW c \in Clients, interrupted(c) PROVE RingInv'
  <2>1. UNCHANGED isopen /\ In' = In \ {c}
    BY <1>6, <1>20 DEF interrupted, Go, filevars
  <2>2. CASE c \in In
    <3>1. unlink(c)
      BY <1>6, <2>2 DEF interrupted, leavelist
    <3> QED
      BY <2>1, <2>2, <3>1, <1>26
  <2>3. CASE c \notin In
    <3>1. UNCHANGED links
      BY <1>6, <2>3 DEF interrupted, leavelist
    <3>2. In' = In
      BY <2>1, <2>3
    <3> QED
      BY <2>1, <3>1, <3>2, <1>24
  <2> QED
    BY <2>2, <2>3
<1>7. ASSUME NEW c \in Clients, NEW d \in Dirs, srvread(c, d) PROVE RingInv'
  <2>1. pc[c] = "idle" /\ UNCHANGED isopen
    BY <1>7 DEF srvread, filevars
  <2>2. CASE UNCHANGED <<pc, next, prev>>
    BY <2>1, <2>2, <1>24 DEF links
  <2>3. CASE link(c) /\ pc' = [pc EXCEPT ![c] = "await"]
    <3>1. c \notin In /\ In' = In \cup {c}
      BY <2>1, <2>3, <1>20
    <3> QED
      BY <2>1, <2>3, <3>1, <1>25
  <2>4. CASE UNCHANGED links /\ pc' = [pc EXCEPT ![c] = "block"]
    <3>1. In' = In
      BY <2>1, <2>4, <1>20
    <3> QED
      BY <2>1, <2>4, <3>1, <1>24
  <2> QED
    BY <1>7, <2>2, <2>3, <2>4 DEF srvread, Go, links
<1>8. ASSUME NEW c \in Clients, NEW remove \in BOOLEAN, srvclunk(c, remove) PROVE RingInv'
  BY <1>8, <1>20, <1>24 DEF srvclunk, Go, links
<1>9. ASSUME NEW d \in Dirs, Receive(d) PROVE RingInv'
  <2>1. UNCHANGED links /\ UNCHANGED isopen
    BY <1>9 DEF Receive, filevars, links
  <2>2. CASE pc' = pc
    BY <2>1, <2>2, <1>24
  <2>3. CASE sendq[d] # <<>> /\ pc' = [pc EXCEPT ![Head(sendq[d])] = "sent"]
    <3>1. Head(sendq[d]) \in Clients /\ pc[Head(sendq[d])] \in {"block", "blocked"}
      BY <2>3, <1>22, TailElements
    <3>2. In' = In
      BY <2>3, <3>1, <1>20
    <3> QED
      BY <2>1, <3>2, <1>24
  <2> QED
    BY <1>9, <2>2, <2>3 DEF Receive, Go
<1>10. ASSUME NEW d \in Dirs, freechan(d) PROVE RingInv'
  <2>1. CASE d = "read"
    <3>1. UNCHANGED <<pc, next, prev>>
      BY <1>10, <2>1, <1>20 DEF freechan, srvfree, OpenInv, Dirs, links
    <3> QED
      BY <3>1, <2>1, <1>10, <1>20, <1>23 DEF RingInv, freechan, srvfree, OpenInv, Dirs
  <2>2. CASE d = "write"
    BY <1>10, <2>2, <1>20 DEF RingInv, freechan, srvfree, OpenInv, Dirs
  <2> QED
    BY <2>1, <2>2 DEF Dirs
<1>11. ASSUME NEW d \in Dirs, killcomm(d) PROVE RingInv'
  <2>1. UNCHANGED links /\ UNCHANGED isopen
    BY <1>11 DEF killcomm, filevars, links
  <2>2. In' = In
    BY <1>11, <1>20 DEF killcomm
  <2> QED
    BY <2>1, <2>2, <1>24
<1>12. ASSUME NEW r \in held, Reply(r) PROVE RingInv'
  <2>1. UNCHANGED links /\ UNCHANGED isopen
    BY <1>12 DEF Reply, filevars, links
  <2>2. In' = In
    BY <1>12, <1>20 DEF Reply, Go
  <2> QED
    BY <2>1, <2>2, <1>24
<1>13. CASE Vanish
  BY <1>13, <1>24 DEF Vanish, filevars, links
<1>14. CASE UNCHANGED vars
  BY <1>14, <1>24 DEF vars, links
<1> QED
  BY <1>1, <1>2, <1>3, <1>4, <1>5, <1>6, <1>7, <1>8, <1>9, <1>10, <1>11, <1>12,
     <1>13, <1>14 DEF Next

----------------------------------------------------------------------------
(* The theorems *)

\* The invariant holds at the start.
LEMMA InitIInv == Init => IInv
<1> SUFFICES ASSUME Init PROVE IInv
  OBVIOUS
<1>1. \A d \in Dirs : buf[d] = <<>> /\ sendq[d] = <<>>
  BY DEF Init
<1>2. TypeOK
  <2>1. buf \in [Dirs -> Seq(Messages)] /\ sendq \in [Dirs -> Seq(Clients)]
    BY DEF Init
  <2>2. \A d \in Dirs : Len(buf[d]) <= Slots
    BY <1>1, DevSrvAssumption
  <2>3. /\ pc \in [Clients -> Places] /\ n \in [Clients -> 0..MaxReqs]
        /\ ans \in [Clients -> 0..MaxReqs \cup {Intr, Nil}]
        /\ rcbuf \in [Clients -> 1..MaxReqs \cup {Nil}]
    BY DevSrvAssumption DEF Init, Places
  <2> QED
    BY <2>1, <2>2, <2>3 DEF Init, TypeOK, Nodes
<1>3. QueueInv /\ CountInv /\ TokenInv /\ NoticeInv
  BY <1>1 DEF Init, QueueInv, CountInv, TokenInv, NoticeInv, Pending
<1>4. OutInv /\ AnswerInv /\ OpenInv
  BY <1>1 DEF Init, OutInv, AnswerInv, RightAnswer, OpenInv, Dirs, Pending
<1>5. RefInv
  <2>1. Users = {}
    BY DEF Init, Users
  <2>2. Cardinality(Users) = 0
    BY <2>1, FS_EmptySet
  <2> QED
    BY <2>2 DEF Init, RefInv, Dirs
<1>6. RingInv
  <2>1. In = {}
    BY DEF Init, In
  <2>2. next[File] = File /\ prev[File] = File
    BY DEF Init, Nodes
  <2>3. [x \in Nodes |-> 0] \in [Nodes -> Nat]
    OBVIOUS
  <2> QED
    BY <2>1, <2>2, <2>3 DEF RingInv, Ring
<1> QED
  BY <1>2, <1>3, <1>4, <1>5, <1>6 DEF IInv

\* Every step of a client or of the server keeps the invariant.
LEMMA NextIInv == IInv /\ [Next]_vars => IInv'
<1> SUFFICES ASSUME IInv, [Next]_vars PROVE IInv'
  OBVIOUS
<1> QED
  BY NextType, NextRing, NextRef, NextOpen, NextQueue, NextCount, NextToken, NextOut, NextAnswer, NextNotice
  DEF IInv

\* The invariant holds in every state of the device.
THEOREM Invariant == Spec => []IInv
BY InitIInv, NextIInv, PTL DEF Spec

\* A read or write returns the server's answer to this very request or an
\* error, whatever the server answers late and whatever was interrupted
\* (srvread, srvwrite in devsrv.c).
THEOREM AnswersAreRight == Spec => []RightAnswer
<1>1. IInv => RightAnswer
  BY DEF IInv, AnswerInv
<1> QED
  BY <1>1, Invariant, PTL

\* While srvcancelreqs may come, its list is one ring in both directions, it
\* meets exactly the waiting clients on the way round and finds room in each of
\* their reply channels, so it never blocks under dev.l; and every variable has
\* its type, with no buffer above its slots.
THEOREM CancelDoesNotBlock == Spec => []CancelNeverBlocks
<1>1. IInv => CancelNeverBlocks
  <2> SUFFICES ASSUME IInv, \E d \in Dirs : isopen[d]
               PROVE  /\ waitlist = {c \in Clients : pc[c] \in {"await", "answered"}}
                      /\ \A c \in waitlist : rcbuf[c] = Nil
                      /\ \A x \in waitlist \cup {File} : next[prev[x]] = x /\ prev[next[x]] = x
    BY DEF CancelNeverBlocks, IInv
  <2>1. Ring(next, prev, In) /\ next \in [Nodes -> Nodes] /\ prev \in [Nodes -> Nodes]
    BY DEF IInv, RingInv, TypeOK
  <2>2. waitlist = In
    BY <2>1, ListIs
  <2>3. \A x \in In \cup {File} : next[prev[x]] = x /\ prev[next[x]] = x
    BY <2>1 DEF Ring
  <2>4. \A x \in Clients : rcbuf[x] # Nil /\ pc[x] \in Pending => pc[x] = "sent"
    BY DEF IInv, OutInv
  <2> QED
    BY <2>2, <2>3, <2>4 DEF In, Pending
<1> QED
  BY <1>1, Invariant, PTL

\* srvchkref frees the file exactly when no client has it and both channels
\* are gone: never under a client's feet, and never too late.
THEOREM FreedExactly == Spec => []FreedInTime
<1>1. IInv => FreedInTime
  <2> SUFFICES ASSUME IInv PROVE FreedInTime
    OBVIOUS
  <2>1. RefInv /\ Cardinality(Users) \in Nat /\ (Cardinality(Users) = 0 <=> Users = {})
    BY UsersCount DEF IInv
  <2>2. freed <=> Users = {} /\ ~\E d \in Dirs : isopen[d]
    BY <2>1 DEF RefInv
  <2>3. Users = {} <=> \A c \in Clients : pc[c] \in {"new", "closed"}
    BY DEF Users
  <2> QED
    BY <2>2, <2>3 DEF FreedInTime
<1> QED
  BY <1>1, Invariant, PTL

\* Nothing of a client follows its close notice on a channel (srvunblock), so
\* what a server hears of a fid after it is from the fid's next user.
THEOREM NoticeIsLast == Spec => []LastWord
<1>1. IInv => LastWord
  <2> SUFFICES ASSUME IInv, NEW c \in Clients, NEW d \in Dirs, pc[c] = "closed"
               PROVE  /\ \A i \in DOMAIN sendq[d] : sendq[d][i] # c
                      /\ \A i, j \in DOMAIN buf[d] :
                           i < j /\ buf[d][i] = Notice(c) => buf[d][j].c # c
    BY DEF LastWord
  <2>1. \A i \in DOMAIN sendq[d] : sendq[d][i] # c
    BY DEF IInv, QueueInv
  <2>2. Notice(c).c = c /\ Notice(c).n = Nil
    BY DEF Notice
  <2>3. NoticeInv
    BY DEF IInv
  <2> QED
    BY <2>1, <2>2, <2>3 DEF NoticeInv
<1> QED
  BY <1>1, Invariant, PTL

=============================================================================
