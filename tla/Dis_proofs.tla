----------------------------- MODULE Dis_proofs -----------------------------
(***************************************************************************)
(* Proofs about Dis for any processes, channels, alts and buffers.          *)
(***************************************************************************)
EXTENDS Dis, FiniteSetTheorems, TLAPS

Elems(s) == {s[i] : i \in 1..Len(s)}
Distinct(s) == \A i, j \in 1..Len(s) : s[i] = s[j] => i = j

\* A queue in the order in which its members began to wait.
OrderedBy(s, f) == \A i, j \in 1..Len(s) : i < j => s[i] \in f[s[j]]

\* The state of a channel.
Boxes == [send : Seq(Progs), recv : Seq(Progs), buf : Seq(Vals)]

\* Who waits has found those it is behind waiting, and has a value if it
\* offers one.
AheadInv ==
    /\ \A x, y \in Progs : y \in ahead[x] => want[y] # Nothing /\ x \notin ahead[y]
    /\ \A x \in Progs : want[x] = Nothing => ahead[x] = {} /\ ptr[x] = Nil
    /\ \A x \in Progs : want[x].s # {} => ptr[x] # Nil

\* The queues of a channel hold who waits for it, in order.
Senders(c)   == {p \in Progs : c \in want[p].s}
Receivers(c) == {p \in Progs : c \in want[p].r}
QueueInv ==
    \A c \in Chans :
      /\ Elems(chan[c].send) = Senders(c) /\ OrderedBy(chan[c].send, ahead)
      /\ Elems(chan[c].recv) = Receivers(c) /\ OrderedBy(chan[c].recv, ahead)

\* A channel that was made with a buffer keeps one.
CapInv == \A c \in Chans : Slots[c] > 0 => cap[c] > 0

\* A process in the middle of a call runs, or is without the interpreter;
\* one it is deleting stays off every queue.
DoingInv ==
    \A p \in Progs :
      /\ doing[p].op # "none" =>
           \/ state[p] = "release"
           \/ state[p] = "ready" /\ runq # <<>> /\ p = Head(runq)
      /\ doing[p].victim # Nil =>
           /\ state[p] = "release"
           /\ doing[p].victim = p \/ state[doing[p].victim] \in {"exiting", "dead"}
      /\ doing[p].op = "exit" <=> doing[p].victim = p

\* A group is led by the process it is named after, or that process is dead.
Led(g) == group[g] = g \/ state[g] = "dead"
GroupInv ==
    /\ \A q \in Progs : group[q] # Nil => state[q] \notin {"none", "dead"} /\ Led(group[q])
    /\ \A p \in Progs : doing[p].op \in {"killgrp", "wait"} => doing[p].g \in Progs /\ Led(doing[p].g)

\* p kills a group that still has members and took no freed group's place.
Claimed(p) ==
    /\ doing[p].op = "killgrp" /\ doing[p].g \notin reused
    /\ \E q \in Progs : group[q] = doing[p].g

\* One process at a time kills such a group, whose flag is set; those it has
\* not got to yet are on its list.
KillInv ==
    /\ \A p \in Progs : Claimed(p) =>
         /\ doing[p].g \in gkilled
         /\ \A q \in Members(doing[p].g) \ {p} : q \in doing[p].todo \/ Doomed(q)
    /\ \A p, q \in Progs : Claimed(p) /\ Claimed(q) /\ doing[p].g = doing[q].g => p = q

IInv ==
    /\ TypeOK /\ AheadInv /\ QueueInv /\ RunqMatches /\ NoMissedRendezvous /\ InOrder
    /\ CapInv /\ DoingInv /\ GroupInv /\ KillInv
----------------------------------------------------------------------------
(* Queues *)

\* A queue is empty exactly when it has no members; its head is one.
LEMMA ElemsOf ==
  ASSUME NEW S, NEW s \in Seq(S)
  PROVE  /\ Elems(s) \subseteq S /\ (s = <<>> <=> Elems(s) = {})
         /\ s # <<>> => Head(s) = s[1] /\ Head(s) \in Elems(s)
<1>1. Len(s) \in Nat /\ (s = <<>> <=> Len(s) = 0) /\ \A i \in 1..Len(s) : s[i] \in S
  OBVIOUS
<1>2. Elems(s) \subseteq S
  BY <1>1 DEF Elems
<1>3. s = <<>> => Elems(s) = {}
  BY <1>1 DEF Elems
<1>4. s # <<>> => Head(s) = s[1] /\ 1 \in 1..Len(s)
  BY <1>1
<1>5. s # <<>> => Head(s) \in Elems(s)
  BY <1>4 DEF Elems
<1> QED
  BY <1>2, <1>3, <1>4, <1>5

\* Joining a queue at its end (cqadd, addrun).
LEMMA JoinEnd ==
  ASSUME NEW S, NEW s \in Seq(S), NEW x \in S
  PROVE  /\ Append(s, x) \in Seq(S) /\ Append(s, x) # <<>>
         /\ Elems(Append(s, x)) = Elems(s) \cup {x}
         /\ Distinct(s) /\ x \notin Elems(s) => Distinct(Append(s, x))
         /\ s # <<>> => Head(Append(s, x)) = Head(s)
         /\ s = <<>> => Head(Append(s, x)) = x
<1> DEFINE a == Append(s, x)
<1>1. /\ a \in Seq(S) /\ a # <<>> /\ Len(s) \in Nat /\ Len(a) = Len(s) + 1
      /\ a[Len(s) + 1] = x /\ \A i \in 1..Len(s) : a[i] = s[i]
  OBVIOUS
<1>2. Head(a) = a[1] /\ (s # <<>> => Head(s) = s[1] /\ 1 \in 1..Len(s)) /\ (s = <<>> => Len(s) = 0)
  BY <1>1
<1> HIDE DEF a
<1>3. 1..Len(a) = 1..Len(s) \cup {Len(s) + 1}
  BY <1>1
<1>4. Elems(a) = Elems(s) \cup {x}
  BY <1>1, <1>3 DEF Elems
<1>5. Distinct(s) /\ x \notin Elems(s) => Distinct(a)
  BY <1>1, <1>3 DEF Elems, Distinct
<1> QED
  BY <1>1, <1>2, <1>4, <1>5 DEF a

\* Joining a queue at its head (runq at the end of acquire).
LEMMA JoinHead ==
  ASSUME NEW S, NEW s \in Seq(S), NEW x \in S
  PROVE  /\ <<x>> \o s \in Seq(S) /\ <<x>> \o s # <<>> /\ Head(<<x>> \o s) = x
         /\ Elems(<<x>> \o s) = Elems(s) \cup {x}
         /\ Distinct(s) /\ x \notin Elems(s) => Distinct(<<x>> \o s)
<1> DEFINE a == <<x>> \o s
<1>1. /\ a \in Seq(S) /\ a # <<>> /\ Len(a) = Len(s) + 1 /\ Len(s) \in Nat /\ a[1] = x
      /\ \A i \in 1..Len(s) : a[i + 1] = s[i]
  OBVIOUS
<1>2. Head(a) = x
  BY <1>1
<1> HIDE DEF a
<1>3. \A i \in 1..Len(a) : i = 1 \/ (i \in Nat /\ i - 1 \in 1..Len(s) /\ a[i] = s[i - 1])
  BY <1>1
<1>4. \A i \in 1..Len(s) : i \in Nat /\ i + 1 \in 1..Len(a) /\ a[i + 1] = s[i]
  BY <1>1
<1>5. Elems(a) = Elems(s) \cup {x}
  <2>1. 1 \in 1..Len(a)
    BY <1>1
  <2>2. \A y : y \in Elems(a) => y = x \/ y \in Elems(s)
    BY <1>1, <1>3 DEF Elems
  <2>3. \A y : y = x \/ y \in Elems(s) => y \in Elems(a)
    BY <1>1, <1>4, <2>1 DEF Elems
  <2> QED
    BY <2>2, <2>3
<1>6. ASSUME Distinct(s), x \notin Elems(s), NEW i \in 1..Len(a), NEW j \in 1..Len(a), a[i] = a[j]
      PROVE  i = j
  <2>1. \A n \in 1..Len(s) : s[n] # x
    BY <1>6 DEF Elems
  <2>2. CASE i = 1
    BY <1>1, <1>3, <1>6, <2>1, <2>2
  <2>3. CASE j = 1
    BY <1>1, <1>3, <1>6, <2>1, <2>3
  <2>4. CASE i # 1 /\ j # 1
    <3>1. i - 1 \in 1..Len(s) /\ j - 1 \in 1..Len(s) /\ s[i - 1] = s[j - 1] /\ i \in Nat /\ j \in Nat
      BY <1>3, <1>6, <2>4
    <3>2. i - 1 = j - 1
      BY <1>6, <3>1 DEF Distinct
    <3> QED
      BY <3>1, <3>2
  <2> QED
    BY <2>2, <2>3, <2>4
<1>7. Distinct(s) /\ x \notin Elems(s) => Distinct(a)
  BY <1>6 DEF Distinct
<1> QED
  BY <1>1, <1>2, <1>5, <1>7 DEF a

\* Leaving a queue at its head (delrun, release).
LEMMA LeaveHead ==
  ASSUME NEW S, NEW s \in Seq(S), s # <<>>, Distinct(s)
  PROVE  /\ Tail(s) \in Seq(S) /\ Distinct(Tail(s)) /\ Elems(Tail(s)) = Elems(s) \ {Head(s)}
<1> DEFINE a == Tail(s)
<1>1. /\ a \in Seq(S) /\ Len(a) = Len(s) - 1 /\ Len(s) \in Nat /\ Len(s) > 0 /\ Head(s) = s[1]
      /\ \A i \in 1..Len(a) : a[i] = s[i + 1]
  OBVIOUS
<1> HIDE DEF a
<1>3. \A i \in 1..Len(a) : i \in Nat /\ i > 0 /\ i + 1 \in 1..Len(s) /\ a[i] = s[i + 1]
  BY <1>1
<1>4. \A i \in 1..Len(s) : i = 1 \/ (i \in Nat /\ i - 1 \in 1..Len(a) /\ a[i - 1] = s[i])
  BY <1>1
<1>5. 1 \in 1..Len(s) /\ Head(s) = s[1]
  BY <1>1
<1>6. Distinct(a)
  BY <1>3 DEF Distinct
<1>7. Elems(a) = Elems(s) \ {s[1]}
  <2>1. \A i \in 1..Len(a) : a[i] # s[1]
    BY <1>3, <1>5 DEF Distinct
  <2>2. \A y \in Elems(a) : y \in Elems(s) /\ y # s[1]
    BY <1>3, <2>1 DEF Elems
  <2>3. \A y \in Elems(s) : y = s[1] \/ y \in Elems(a)
    BY <1>4 DEF Elems
  <2> QED
    BY <2>2, <2>3
<1> QED
  BY <1>1, <1>5, <1>6, <1>7 DEF a

\* What Without is: s itself, or s without its element at k.
LEMMA WithoutIs ==
  ASSUME NEW S, NEW s \in Seq(S), NEW p
  PROVE  \/ p \notin Elems(s) /\ Without(s, p) = s
         \/ \E k \in 1..Len(s) :
              /\ s[k] = p
              /\ Without(s, p) = [j \in 1..(Len(s) - 1) |-> IF j < k THEN s[j] ELSE s[j + 1]]
<1> DEFINE at == {i \in 1..Len(s) : s[i] = p}
<1>1. CASE at = {}
  BY <1>1 DEF Elems, Without
<1>2. CASE at # {}
  <2> DEFINE k == CHOOSE i \in at : TRUE
  <2>1. k \in at
    BY <1>2
  <2>2. Without(s, p) = [j \in 1..(Len(s) - 1) |-> IF j < k THEN s[j] ELSE s[j + 1]]
    BY <1>2 DEF Without
  <2> HIDE DEF k
  <2> QED
    BY <2>1, <2>2
<1> QED
  BY <1>1, <1>2

\* A process taken out of a queue (cqdelp, delrunq): the others keep their
\* order.
LEMMA WithoutOf ==
  ASSUME NEW S, NEW s \in Seq(S), NEW p, Distinct(s)
  PROVE  /\ Without(s, p) \in Seq(S) /\ Distinct(Without(s, p))
         /\ Elems(Without(s, p)) = Elems(s) \ {p}
         /\ p \notin Elems(s) => Without(s, p) = s
         /\ \A f : OrderedBy(s, f) => OrderedBy(Without(s, p), f)
<1> DEFINE w == Without(s, p)
<1>1. CASE p \notin Elems(s)
  <2>1. w = s
    BY <1>1, WithoutIs DEF Elems
  <2> HIDE DEF w
  <2>2. w \in Seq(S) /\ Distinct(w) /\ Elems(w) = Elems(s) \ {p} /\ \A f : OrderedBy(s, f) => OrderedBy(w, f)
    BY <1>1, <2>1
  <2> QED
    BY <2>1, <2>2 DEF w
<1>2. CASE p \in Elems(s)
  <2>1. PICK k \in 1..Len(s) :
          s[k] = p /\ w = [j \in 1..(Len(s) - 1) |-> IF j < k THEN s[j] ELSE s[j + 1]]
    BY <1>2, WithoutIs
  <2>2. Len(s) \in Nat /\ k \in Nat /\ \A i \in 1..Len(s) : s[i] \in S
    OBVIOUS
  <2> HIDE DEF w
  <2>3. w \in Seq(S) /\ Len(w) = Len(s) - 1
    BY <2>1, <2>2
  <2>4. \A i \in 1..Len(w) : i \in 1..(Len(s) - 1) /\ w[i] = IF i < k THEN s[i] ELSE s[i + 1]
    BY <2>1, <2>3
  <2> DEFINE at(i) == IF i < k THEN i ELSE i + 1
  <2>5. \A i \in 1..Len(w) : i \in Nat /\ at(i) \in 1..Len(s) /\ at(i) # k /\ w[i] = s[at(i)]
    BY <2>2, <2>3, <2>4
  <2>6. \A i, j \in 1..Len(w) : (i < j => at(i) < at(j)) /\ (at(i) = at(j) => i = j)
    BY <2>2, <2>3
  <2>7. \A i \in 1..Len(s) : i # k => \E j \in 1..Len(w) : at(j) = i
    <3>1. SUFFICES ASSUME NEW i \in 1..Len(s), i # k PROVE \E j \in 1..Len(w) : at(j) = i
      OBVIOUS
    <3>2. CASE i < k
      BY <2>2, <2>3, <3>2
    <3>3. CASE i > k
      <4>1. i - 1 \in 1..Len(w) /\ at(i - 1) = i
        BY <2>2, <2>3, <3>3
      <4> QED
        BY <4>1
    <3> QED
      BY <2>2, <3>1, <3>2, <3>3
  <2> HIDE DEF at
  <2>8. Distinct(w)
    BY <2>5, <2>6 DEF Distinct
  <2>9. Elems(w) = Elems(s) \ {p}
    <3>1. \A x \in Elems(w) : x \in Elems(s) /\ x # p
      BY <2>1, <2>5 DEF Elems, Distinct
    <3>2. \A x \in Elems(s) : x # p => x \in Elems(w)
      <4>1. SUFFICES ASSUME NEW i \in 1..Len(s), s[i] # p PROVE s[i] \in Elems(w)
        BY DEF Elems
      <4>2. PICK j \in 1..Len(w) : at(j) = i
        BY <2>1, <2>7, <4>1
      <4>3. w[j] = s[i]
        BY <2>5, <4>2
      <4> QED
        BY <4>3 DEF Elems
    <3> QED
      BY <3>1, <3>2
  <2>10. \A f : OrderedBy(s, f) => OrderedBy(w, f)
    BY <2>5, <2>6 DEF OrderedBy
  <2> QED
    BY <1>2, <2>3, <2>8, <2>9, <2>10 DEF w
<1> QED
  BY <1>1, <1>2

\* A mark that is removed again leaves nothing behind, whoever else left in
\* the meantime.
LEMMA MarkRemoved ==
  ASSUME NEW S, NEW s \in Seq(S), NEW p \in S, p \notin Elems(s)
  PROVE  /\ Without(Append(s, p), p) = s
         /\ Without(s, p) = s
<1> DEFINE a == Append(s, p)
           w == Without(a, p)
<1>1. /\ a \in Seq(S) /\ Len(s) \in Nat /\ Len(a) = Len(s) + 1
      /\ a[Len(s) + 1] = p /\ \A i \in 1..Len(s) : a[i] = s[i]
  OBVIOUS
<1> HIDE DEF a
<1>2. p \in Elems(a)
  BY <1>1 DEF Elems
<1>3. PICK k \in 1..Len(a) :
        a[k] = p /\ w = [j \in 1..(Len(a) - 1) |-> IF j < k THEN a[j] ELSE a[j + 1]]
  BY <1>1, <1>2, WithoutIs
<1>4. k = Len(s) + 1
  BY <1>1, <1>3 DEF Elems
<1>5. w = [j \in 1..Len(s) |-> s[j]]
  BY <1>1, <1>3, <1>4
<1>6. s = [j \in 1..Len(s) |-> s[j]]
  OBVIOUS
<1>7. Without(s, p) = s
  BY WithoutIs DEF Elems
<1> QED
  BY <1>5, <1>6, <1>7 DEF a

LEMMA MarkMoves ==
  ASSUME NEW S, NEW s \in Seq(S), NEW p \in S, NEW q, p # q
  PROVE  Without(Append(s, p), q) = Append(Without(s, q), p)
<1> DEFINE a == Append(s, p)
           at == {i \in 1..Len(s) : s[i] = q}
<1>1. /\ a \in Seq(S) /\ Len(s) \in Nat /\ Len(a) = Len(s) + 1
      /\ a[Len(s) + 1] = p /\ \A i \in 1..Len(s) : a[i] = s[i]
  OBVIOUS
<1> HIDE DEF a
<1>2. {i \in 1..Len(a) : a[i] = q} = at
  BY <1>1
<1>3. CASE at = {}
  BY <1>2, <1>3 DEF Without, a
<1>4. CASE at # {}
  <2> DEFINE k == CHOOSE i \in at : TRUE
             w == [j \in 1..(Len(s) - 1) |-> IF j < k THEN s[j] ELSE s[j + 1]]
  <2>1. k \in 1..Len(s)
    BY <1>4
  <2>2. Without(s, q) = w
    BY <1>4 DEF Without
  <2>3. Without(a, q) = [j \in 1..(Len(a) - 1) |-> IF j < k THEN a[j] ELSE a[j + 1]]
    BY <1>2, <1>4 DEF Without
  <2> HIDE DEF k
  <2>4. w \in Seq(S) /\ Len(w) = Len(s) - 1
    BY <1>1, <2>1
  <2>5. Append(w, p) = [j \in 1..Len(s) |-> IF j < Len(s) THEN w[j] ELSE p]
    BY <1>1, <2>1, <2>4
  <2>6. \A j \in 1..Len(s) : (IF j < k THEN a[j] ELSE a[j + 1]) = IF j < Len(s) THEN w[j] ELSE p
    <3> SUFFICES ASSUME NEW j \in 1..Len(s)
                 PROVE  (IF j < k THEN a[j] ELSE a[j + 1]) = IF j < Len(s) THEN w[j] ELSE p
      OBVIOUS
    <3>1. CASE j < k
      BY <1>1, <2>1, <3>1
    <3>2. CASE j >= k /\ j < Len(s)
      BY <1>1, <2>1, <3>2
    <3>3. CASE j = Len(s) /\ j >= k
      BY <1>1, <2>1, <3>3
    <3> QED
      BY <1>1, <2>1, <3>1, <3>2, <3>3
  <2>7. Without(a, q) = [j \in 1..Len(s) |-> IF j < k THEN a[j] ELSE a[j + 1]]
    BY <1>1, <2>3
  <2> HIDE DEF w
  <2>8. Without(a, q) = Append(w, p)
    BY <2>5, <2>6, <2>7
  <2> QED
    BY <2>2, <2>8 DEF a
<1> QED
  BY <1>3, <1>4

\* A queue in order holds nobody twice, and its head has waited longest.
LEMMA OrderedDistinct ==
  ASSUME NEW S, NEW s \in Seq(S), NEW f, OrderedBy(s, f),
         \A x, y \in S : y \in f[x] => x \notin f[y]
  PROVE  /\ Distinct(s)
         /\ s # <<>> => \A x \in Elems(s) : x \notin f[Head(s)]
<1>1. Len(s) \in Nat /\ \A i \in 1..Len(s) : s[i] \in S
  OBVIOUS
<1>2. Distinct(s)
  <2> SUFFICES ASSUME NEW i \in 1..Len(s), NEW j \in 1..Len(s), s[i] = s[j], i < j PROVE FALSE
    BY <1>1 DEF Distinct
  <2> QED
    BY <1>1 DEF OrderedBy
<1>3. ASSUME s # <<>>, NEW x \in Elems(s) PROVE x \notin f[Head(s)]
  <2>1. Head(s) = s[1] /\ 1 \in 1..Len(s)
    BY <1>1, <1>3
  <2>2. PICK i \in 1..Len(s) : x = s[i]
    BY <1>3 DEF Elems
  <2>3. CASE i = 1
    BY <1>1, <2>1, <2>2, <2>3
  <2>4. CASE i > 1
    BY <1>1, <2>1, <2>2, <2>4 DEF OrderedBy
  <2> QED
    BY <1>1, <2>3, <2>4
<1> QED
  BY <1>2, <1>3

\* A queue without repetition has as many places as members.
LEMMA DistinctCounts ==
  ASSUME NEW S, NEW s \in Seq(S), Distinct(s)
  PROVE  Len(s) = Cardinality(Elems(s))
<1> DEFINE f == [i \in 1..Len(s) |-> s[i]]
<1>1. Len(s) \in Nat
  OBVIOUS
<1>2. f \in [1..Len(s) -> Elems(s)]
  BY DEF Elems
<1>4. \A i, j \in 1..Len(s) : f[i] = f[j] => i = j
  BY DEF Distinct
<1>5. \A x \in Elems(s) : \E i \in 1..Len(s) : f[i] = x
  BY DEF Elems
<1> HIDE DEF f
<1>6. f \in Bijection(1..Len(s), Elems(s))
  BY <1>2, <1>4, <1>5 DEF Bijection, Injection, Surjection, IsInjective
<1>3. ExistsBijection(1..Len(s), Elems(s))
  BY <1>6 DEF ExistsBijection
<1> QED
  BY <1>1, <1>3, FS_CountingElements

----------------------------------------------------------------------------
(* Marks *)

\* Taking somebody out of a queue adds nobody.
LEMMA WithoutType ==
  ASSUME NEW S, NEW s \in Seq(S), NEW p
  PROVE  Without(s, p) \in Seq(S) /\ Elems(Without(s, p)) \subseteq Elems(s)
<1> DEFINE w == Without(s, p)
<1>1. CASE w = s
  BY <1>1
<1>2. ASSUME NEW k \in 1..Len(s), w = [j \in 1..(Len(s) - 1) |-> IF j < k THEN s[j] ELSE s[j + 1]]
      PROVE  w \in Seq(S) /\ Elems(w) \subseteq Elems(s)
  <2>1. Len(s) \in Nat /\ k \in Nat /\ \A i \in 1..Len(s) : s[i] \in S
    OBVIOUS
  <2> HIDE DEF w
  <2>2. w \in Seq(S) /\ Len(w) = Len(s) - 1
    BY <1>2, <2>1
  <2>3. \A i \in 1..Len(w) :
          (w[i] = s[i] /\ i \in 1..Len(s)) \/ (w[i] = s[i + 1] /\ i + 1 \in 1..Len(s))
    BY <1>2, <2>1, <2>2
  <2> QED
    BY <2>2, <2>3 DEF Elems
<1> QED
  BY <1>1, <1>2, WithoutIs

\* Two states of the channels with the same queues and buffers are the same.
LEMMA SameChans ==
  ASSUME NEW f \in [Chans -> Boxes], NEW g \in [Chans -> Boxes],
         \A c \in Chans : f[c].send = g[c].send /\ f[c].recv = g[c].recv /\ f[c].buf = g[c].buf
  PROVE  f = g
<1>1. ASSUME NEW x \in Boxes PROVE x = [send |-> x.send, recv |-> x.recv, buf |-> x.buf]
  BY DEF Boxes
<1>2. ASSUME NEW c \in Chans PROVE f[c] = g[c]
  <2>1. f[c] \in Boxes /\ g[c] \in Boxes
    BY Zenon
  <2> QED
    BY <1>1, <2>1
<1> QED
  BY <1>2

\* The queues and buffers after altmark, altdone and a change of a buffer.
LEMMA altmarkIs ==
  ASSUME NEW ch \in [Chans -> Boxes], NEW a \in Offers, NEW p \in Progs
  PROVE  /\ altmark(ch, a, p) \in [Chans -> Boxes]
         /\ \A c \in Chans :
              /\ altmark(ch, a, p)[c].recv = IF c \in a.r THEN Append(ch[c].recv, p) ELSE ch[c].recv
              /\ altmark(ch, a, p)[c].send = IF c \in a.s THEN Append(ch[c].send, p) ELSE ch[c].send
              /\ altmark(ch, a, p)[c].buf = ch[c].buf
<1>1. \A c \in Chans : ch[c] \in Boxes /\ ch[c].recv \in Seq(Progs) /\ ch[c].send \in Seq(Progs)
  BY DEF Boxes
<1>2. \A c \in Chans : Append(ch[c].recv, p) \in Seq(Progs) /\ Append(ch[c].send, p) \in Seq(Progs)
  BY <1>1
<1> QED
  BY <1>1, <1>2, ZenonT(30) DEF altmark, Boxes

LEMMA altdoneIs ==
  ASSUME NEW ch \in [Chans -> Boxes], NEW a \in Offers, NEW p
  PROVE  /\ altdone(ch, a, p) \in [Chans -> Boxes]
         /\ \A c \in Chans :
              /\ altdone(ch, a, p)[c].recv = IF c \in a.r THEN Without(ch[c].recv, p) ELSE ch[c].recv
              /\ altdone(ch, a, p)[c].send = IF c \in a.s THEN Without(ch[c].send, p) ELSE ch[c].send
              /\ altdone(ch, a, p)[c].buf = ch[c].buf
<1>1. \A c \in Chans : ch[c] \in Boxes /\ ch[c].recv \in Seq(Progs) /\ ch[c].send \in Seq(Progs)
  BY DEF Boxes
<1>2. \A c \in Chans : Without(ch[c].recv, p) \in Seq(Progs) /\ Without(ch[c].send, p) \in Seq(Progs)
  BY <1>1, WithoutType
<1> QED
  BY <1>1, <1>2, ZenonT(30) DEF altdone, Boxes

SetBuf(ch, c, b) == [ch EXCEPT ![c].buf = b]
LEMMA bufIs ==
  ASSUME NEW ch \in [Chans -> Boxes], NEW c \in Chans, NEW b \in Seq(Vals)
  PROVE  /\ SetBuf(ch, c, b) \in [Chans -> Boxes]
         /\ \A d \in Chans :
              /\ SetBuf(ch, c, b)[d].recv = ch[d].recv
              /\ SetBuf(ch, c, b)[d].send = ch[d].send
              /\ SetBuf(ch, c, b)[d].buf = IF d = c THEN b ELSE ch[d].buf
<1> DEFINE x == [ch[c] EXCEPT !.buf = b]
           e == SetBuf(ch, c, b)
<1>1. ch[c] \in Boxes /\ \A d \in Chans : ch[d] \in Boxes
  OBVIOUS
<1>2. x \in Boxes /\ x.send = ch[c].send /\ x.recv = ch[c].recv /\ x.buf = b
  BY <1>1 DEF Boxes
<1>3. e = [d \in Chans |-> IF d = c THEN x ELSE ch[d]]
  BY DEF SetBuf
<1> HIDE DEF x, e
<1>4. e \in [Chans -> Boxes]
  BY <1>1, <1>2, <1>3
<1>5. \A d \in Chans : e[d].recv = ch[d].recv /\ e[d].send = ch[d].send /\ e[d].buf = IF d = c THEN b ELSE ch[d].buf
  BY <1>2, <1>3
<1> QED
  BY <1>4, <1>5 DEF e

\* The marks of a process that was in no queue go as they came, whether or not
\* another process leaves, and whatever happens to a buffer.
Absent(ch, p) == \A c \in Chans : p \notin Elems(ch[c].send) /\ p \notin Elems(ch[c].recv)

LEMMA Unmark ==
  ASSUME NEW ch \in [Chans -> Boxes], NEW a \in Offers, NEW p \in Progs, Absent(ch, p)
  PROVE  altdone(altmark(ch, a, p), a, p) = ch
<1> DEFINE m == altmark(ch, a, p)
           d == altdone(m, a, p)
<1>1. m \in [Chans -> Boxes]
  BY altmarkIs
<1>2. d \in [Chans -> Boxes]
  BY <1>1, altdoneIs
<1>3. ASSUME NEW c \in Chans
      PROVE  d[c].send = ch[c].send /\ d[c].recv = ch[c].recv /\ d[c].buf = ch[c].buf
  <2>1. ch[c].send \in Seq(Progs) /\ ch[c].recv \in Seq(Progs)
    BY DEF Boxes
  <2>2. Without(Append(ch[c].send, p), p) = ch[c].send /\ Without(Append(ch[c].recv, p), p) = ch[c].recv
    BY <2>1, MarkRemoved DEF Absent
  <2>3. /\ m[c].recv = IF c \in a.r THEN Append(ch[c].recv, p) ELSE ch[c].recv
        /\ m[c].send = IF c \in a.s THEN Append(ch[c].send, p) ELSE ch[c].send
        /\ m[c].buf = ch[c].buf
    BY altmarkIs
  <2>4. /\ d[c].recv = IF c \in a.r THEN Without(m[c].recv, p) ELSE m[c].recv
        /\ d[c].send = IF c \in a.s THEN Without(m[c].send, p) ELSE m[c].send
        /\ d[c].buf = m[c].buf
    BY <1>1, altdoneIs
  <2> HIDE DEF m, d
  <2> QED
    BY <2>2, <2>3, <2>4
<1> HIDE DEF d
<1>4. d = ch
  BY <1>2, <1>3, SameChans
<1> QED
  BY <1>4 DEF d

LEMMA UnmarkBoth ==
  ASSUME NEW ch \in [Chans -> Boxes], NEW a \in Offers, NEW p \in Progs, Absent(ch, p),
         NEW w \in Offers, NEW q \in Progs, q # p
  PROVE  altdone(altdone(altmark(ch, a, p), w, q), a, p) = altdone(ch, w, q)
<1> DEFINE m == altmark(ch, a, p)
           e == altdone(ch, w, q)
           n == altdone(m, w, q)
<1>1. m \in [Chans -> Boxes] /\ e \in [Chans -> Boxes]
  BY altmarkIs, altdoneIs
<1>2. n \in [Chans -> Boxes] /\ altmark(e, a, p) \in [Chans -> Boxes]
  BY <1>1, altmarkIs, altdoneIs
<1>3. Absent(e, p)
  <2> SUFFICES ASSUME NEW c \in Chans PROVE p \notin Elems(e[c].send) /\ p \notin Elems(e[c].recv)
    BY DEF Absent
  <2>1. ch[c].send \in Seq(Progs) /\ ch[c].recv \in Seq(Progs)
    BY DEF Boxes
  <2>2. /\ Elems(Without(ch[c].send, q)) \subseteq Elems(ch[c].send)
        /\ Elems(Without(ch[c].recv, q)) \subseteq Elems(ch[c].recv)
    BY <2>1, WithoutType
  <2>3. p \notin Elems(ch[c].send) /\ p \notin Elems(ch[c].recv)
    BY DEF Absent
  <2>4. /\ e[c].recv = IF c \in w.r THEN Without(ch[c].recv, q) ELSE ch[c].recv
        /\ e[c].send = IF c \in w.s THEN Without(ch[c].send, q) ELSE ch[c].send
    BY altdoneIs
  <2> HIDE DEF e
  <2> QED
    BY <2>2, <2>3, <2>4
<1>4. ASSUME NEW c \in Chans
      PROVE  /\ n[c].send = altmark(e, a, p)[c].send /\ n[c].recv = altmark(e, a, p)[c].recv
             /\ n[c].buf = altmark(e, a, p)[c].buf
  <2>1. ch[c].send \in Seq(Progs) /\ ch[c].recv \in Seq(Progs)
    BY DEF Boxes
  <2>2. /\ Without(Append(ch[c].send, p), q) = Append(Without(ch[c].send, q), p)
        /\ Without(Append(ch[c].recv, p), q) = Append(Without(ch[c].recv, q), p)
    BY <2>1, MarkMoves
  <2>3. /\ m[c].recv = IF c \in a.r THEN Append(ch[c].recv, p) ELSE ch[c].recv
        /\ m[c].send = IF c \in a.s THEN Append(ch[c].send, p) ELSE ch[c].send
        /\ m[c].buf = ch[c].buf
    BY altmarkIs
  <2>4. /\ e[c].recv = IF c \in w.r THEN Without(ch[c].recv, q) ELSE ch[c].recv
        /\ e[c].send = IF c \in w.s THEN Without(ch[c].send, q) ELSE ch[c].send
        /\ e[c].buf = ch[c].buf
    BY altdoneIs
  <2>5. /\ n[c].recv = IF c \in w.r THEN Without(m[c].recv, q) ELSE m[c].recv
        /\ n[c].send = IF c \in w.s THEN Without(m[c].send, q) ELSE m[c].send
        /\ n[c].buf = m[c].buf
    BY <1>1, altdoneIs
  <2>6. /\ altmark(e, a, p)[c].recv = IF c \in a.r THEN Append(e[c].recv, p) ELSE e[c].recv
        /\ altmark(e, a, p)[c].send = IF c \in a.s THEN Append(e[c].send, p) ELSE e[c].send
        /\ altmark(e, a, p)[c].buf = e[c].buf
    BY <1>1, altmarkIs
  <2> HIDE DEF m, e, n
  <2> QED
    BY <2>2, <2>3, <2>4, <2>5, <2>6
<1>5. altdone(altmark(e, a, p), a, p) = e
  BY <1>1, <1>3, Unmark
<1> HIDE DEF n, e
<1>6. n = altmark(e, a, p)
  BY <1>2, <1>4, SameChans
<1>7. altdone(n, a, p) = e
  BY <1>5, <1>6
<1> QED
  BY <1>7 DEF n, e

LEMMA MarkBuf ==
  ASSUME NEW ch \in [Chans -> Boxes], NEW a \in Offers, NEW p \in Progs,
         NEW c \in Chans, NEW b \in Seq(Vals)
  PROVE  SetBuf(altmark(ch, a, p), c, b) = altmark(SetBuf(ch, c, b), a, p)
<1> DEFINE m == altmark(ch, a, p)
           e == SetBuf(ch, c, b)
           n == SetBuf(m, c, b)
           f == altmark(e, a, p)
<1>1. m \in [Chans -> Boxes] /\ e \in [Chans -> Boxes]
  BY altmarkIs, bufIs
<1>2. n \in [Chans -> Boxes] /\ f \in [Chans -> Boxes]
  BY <1>1, altmarkIs, bufIs
<1>3. ASSUME NEW d \in Chans
      PROVE  n[d].send = f[d].send /\ n[d].recv = f[d].recv /\ n[d].buf = f[d].buf
  <2>1. /\ m[d].recv = IF d \in a.r THEN Append(ch[d].recv, p) ELSE ch[d].recv
        /\ m[d].send = IF d \in a.s THEN Append(ch[d].send, p) ELSE ch[d].send
        /\ m[d].buf = ch[d].buf
    BY altmarkIs
  <2>2. e[d].recv = ch[d].recv /\ e[d].send = ch[d].send /\ e[d].buf = IF d = c THEN b ELSE ch[d].buf
    BY bufIs
  <2>3. n[d].recv = m[d].recv /\ n[d].send = m[d].send /\ n[d].buf = IF d = c THEN b ELSE m[d].buf
    BY <1>1, bufIs
  <2>4. /\ f[d].recv = IF d \in a.r THEN Append(e[d].recv, p) ELSE e[d].recv
        /\ f[d].send = IF d \in a.s THEN Append(e[d].send, p) ELSE e[d].send
        /\ f[d].buf = e[d].buf
    BY <1>1, altmarkIs
  <2> HIDE DEF m, e, n, f
  <2> QED
    BY <2>1, <2>2, <2>3, <2>4
<1> HIDE DEF n, f
<1>4. n = f
  BY <1>2, <1>3, SameChans
<1> QED
  BY <1>4 DEF n, f

\* No marks: the send and recv instructions.
LEMMA NoMarks ==
  ASSUME NEW ch \in [Chans -> Boxes], NEW p \in Progs
  PROVE  altmark(ch, Nothing, p) = ch
<1> DEFINE m == altmark(ch, Nothing, p)
<1>1. Nothing \in Offers /\ Nothing.s = {} /\ Nothing.r = {}
  BY DEF Nothing, Offers
<1>2. /\ m \in [Chans -> Boxes]
      /\ \A c \in Chans : m[c].send = ch[c].send /\ m[c].recv = ch[c].recv /\ m[c].buf = ch[c].buf
  BY <1>1, altmarkIs
<1> HIDE DEF m
<1>3. m = ch
  BY <1>2, SameChans
<1> QED
  BY <1>3 DEF m

----------------------------------------------------------------------------
(* What a step does to the channels and to those who wait *)

\* q leaves every queue and waits no longer.
Leaves(q) ==
    /\ \A d \in Chans : /\ chan'[d].send = Without(chan[d].send, q)
                        /\ chan'[d].recv = Without(chan[d].recv, q)
    /\ want' = [want EXCEPT ![q] = Nothing]
    /\ ptr' = [ptr EXCEPT ![q] = Nil]
    /\ ahead' = [x \in Progs |-> IF x = q THEN {} ELSE ahead[x] \ {q}]

\* Nobody joins or leaves a queue.
Stay ==
    /\ \A d \in Chans : chan'[d].send = chan[d].send /\ chan'[d].recv = chan[d].recv
    /\ UNCHANGED <<want, ptr, ahead>>

\* Only the buffer of c changes, to b.
Buffer(c, b) == \A d \in Chans : chan'[d].buf = IF d = c THEN b ELSE chan[d].buf

Quiet == UNCHANGED <<chan, cap, want, ptr, ahead, sent, rcvd>>

\* p waits for a, of which nothing can be done.
Blocks(p, a, v) ==
    /\ want[p] = Nothing /\ a # Nothing /\ a.s \cap a.r = {}
    /\ a.s # {} => v # Nil
    /\ \A c \in a.s : chan[c].recv = <<>> /\ ~CanPut(c)
    /\ \A c \in a.r : chan[c].send = <<>> /\ ~CanGet(c)
    /\ chan' = altmark(chan, a, p)
    /\ want' = [want EXCEPT ![p] = a]
    /\ ptr' = [ptr EXCEPT ![p] = v]
    /\ ahead' = [ahead EXCEPT ![p] = Waiting]
    /\ UNCHANGED <<cap, sent, rcvd>>

\* v goes to q, which has waited longest on c.
Gives(c, v, q) ==
    /\ chan[c].recv # <<>> /\ q = Head(chan[c].recv)
    /\ Leaves(q)
    /\ Buffer(c, chan[c].buf)
    /\ sent' = [sent EXCEPT ![c] = Append(@, v)]
    /\ rcvd' = [rcvd EXCEPT ![c] = Append(@, v)]
    /\ UNCHANGED cap

\* v goes into the buffer of c, which is there or is made.
Puts(c, v) ==
    /\ chan[c].recv = <<>>
    /\ \/ CanPut(c) /\ UNCHANGED cap
       \/ cap[c] = 0 /\ cap' = [cap EXCEPT ![c] = Room]
    /\ Stay
    /\ Buffer(c, Append(chan[c].buf, v))
    /\ sent' = [sent EXCEPT ![c] = Append(@, v)]
    /\ UNCHANGED rcvd

\* The send of q, which has waited longest on c, is complete.
Takes(c, q) ==
    /\ chan[c].send # <<>> /\ q = Head(chan[c].send)
    /\ Leaves(q)
    /\ Buffer(c, IF cap[c] > 0 THEN Append(Tail(chan[c].buf), ptr[q]) ELSE chan[c].buf)
    /\ rcvd' = [rcvd EXCEPT ![c] = Append(@, IF cap[c] > 0 THEN Head(chan[c].buf) ELSE ptr[q])]
    /\ sent' = [sent EXCEPT ![c] = Append(@, ptr[q])]
    /\ UNCHANGED cap

\* A value is received from the buffer of c.
Gets(c) ==
    /\ chan[c].send = <<>> /\ CanGet(c)
    /\ Stay
    /\ Buffer(c, Tail(chan[c].buf))
    /\ rcvd' = [rcvd EXCEPT ![c] = Append(@, Head(chan[c].buf))]
    /\ UNCHANGED <<cap, sent>>

\* q is killed; most often it waits for nothing.
Withdraws(q) ==
    /\ Leaves(q)
    /\ \A d \in Chans : chan'[d].buf = chan[d].buf
    /\ UNCHANGED <<cap, sent, rcvd>>

\* What it does to the run queue.
Wakes(q) == state' = [state EXCEPT ![q] = "ready"] /\ runq' = Append(runq, q)
Stops(p) ==
    /\ runq # <<>> /\ p = Head(runq) /\ doing[p].op = "none"
    /\ \E how \in {"send", "recv", "alt"} : state' = [state EXCEPT ![p] = how]
    /\ runq' = Tail(runq)
Breaks(p) ==
    /\ runq # <<>> /\ p = Head(runq) /\ doing[p].op = "none"
    /\ state' = [state EXCEPT ![p] = "broken"]
    /\ runq' = Tail(runq)
Runs == UNCHANGED <<state, runq>>

\* What send, recv, alt and csendalt may do.
Talks ==
    \/ Quiet /\ Runs
    \/ \E p \in Progs : Quiet /\ Breaks(p)
    \/ \E p \in Progs, a \in Offers, v \in Vals \cup {Nil} : Blocks(p, a, v) /\ Stops(p)
    \/ \E c \in Chans, v \in Vals, q \in Progs : Gives(c, v, q) /\ Wakes(q)
    \/ \E c \in Chans, v \in Vals : Puts(c, v) /\ Runs
    \/ \E c \in Chans, q \in Progs : Takes(c, q) /\ Wakes(q)
    \/ \E c \in Chans : Gets(c) /\ Runs

\* What any step may do to the channels.
Effect ==
    \/ Quiet
    \/ \E p \in Progs, a \in Offers, v \in Vals \cup {Nil} : Blocks(p, a, v)
    \/ \E c \in Chans, v \in Vals, q \in Progs : Gives(c, v, q)
    \/ \E c \in Chans, v \in Vals : Puts(c, v)
    \/ \E c \in Chans, q \in Progs : Takes(c, q)
    \/ \E c \in Chans : Gets(c)
    \/ \E q \in Progs : Withdraws(q)

\* The queues of the invariant.
LEMMA QueueFacts ==
  ASSUME IInv
  PROVE  /\ chan \in [Chans -> Boxes]
         /\ \A c \in Chans :
              /\ chan[c].send \in Seq(Progs) /\ chan[c].recv \in Seq(Progs) /\ chan[c].buf \in Seq(Vals)
              /\ Distinct(chan[c].send) /\ Distinct(chan[c].recv)
              /\ Elems(chan[c].send) = Senders(c) /\ Elems(chan[c].recv) = Receivers(c)
<1>1. chan \in [Chans -> Boxes]
  BY DEF IInv, TypeOK, Boxes
<1>2. \A c \in Chans :
        chan[c].send \in Seq(Progs) /\ chan[c].recv \in Seq(Progs) /\ chan[c].buf \in Seq(Vals)
  BY <1>1 DEF Boxes
<1>3. \A x, y \in Progs : y \in ahead[x] => x \notin ahead[y]
  BY DEF IInv, AheadInv
<1>4. \A c \in Chans : /\ OrderedBy(chan[c].send, ahead) /\ OrderedBy(chan[c].recv, ahead)
                       /\ Elems(chan[c].send) = Senders(c) /\ Elems(chan[c].recv) = Receivers(c)
  BY DEF IInv, QueueInv
<1>5. \A c \in Chans : Distinct(chan[c].send) /\ Distinct(chan[c].recv)
  BY <1>2, <1>3, <1>4, OrderedDistinct
<1> QED
  BY <1>1, <1>2, <1>4, <1>5

\* The running process is in no queue of a channel.
LEMMA Runner ==
  ASSUME IInv, NEW p, runq # <<>>, p = Head(runq)
  PROVE  p \in Progs /\ state[p] = "ready" /\ want[p] = Nothing /\ Absent(chan, p)
<1>1. runq \in Seq(Progs) /\ Elems(runq) = {q \in Progs : state[q] = "ready"}
  BY DEF IInv, TypeOK, RunqMatches, Elems
<1>2. p \in Progs /\ state[p] = "ready"
  BY <1>1, ElemsOf
<1>3. want[p] = Nothing
  BY <1>2 DEF IInv, RunqMatches
<1>4. want[p].s = {} /\ want[p].r = {}
  BY <1>3 DEF Nothing
<1>5. Absent(chan, p)
  BY <1>4, QueueFacts DEF Absent, Senders, Receivers
<1> QED
  BY <1>2, <1>3, <1>5

\* altdone of what q waits for takes it out of every queue.
LEMMA Gone ==
  ASSUME IInv, NEW q \in Progs, NEW ch \in [Chans -> Boxes],
         \A d \in Chans : ch[d].send = chan[d].send /\ ch[d].recv = chan[d].recv
  PROVE  /\ altdone(ch, want[q], q) \in [Chans -> Boxes]
         /\ \A d \in Chans :
              /\ altdone(ch, want[q], q)[d].send = Without(chan[d].send, q)
              /\ altdone(ch, want[q], q)[d].recv = Without(chan[d].recv, q)
              /\ altdone(ch, want[q], q)[d].buf = ch[d].buf
<1>1. want[q] \in Offers
  BY DEF IInv, TypeOK
<1>2. ASSUME NEW d \in Chans
      PROVE  /\ d \notin want[q].s => Without(chan[d].send, q) = chan[d].send
             /\ d \notin want[q].r => Without(chan[d].recv, q) = chan[d].recv
  BY QueueFacts, WithoutOf DEF Senders, Receivers
<1> QED
  BY <1>1, <1>2, altdoneIs

\* isend of the running process, with or without the marks of an alt.
LEMMA SendEffect ==
  ASSUME IInv, NEW p \in Progs, runq # <<>>, p = Head(runq),
         NEW a \in Offers, NEW c \in Chans, NEW v \in Vals,
         isend(Marked(a, p), a, p, c, v),
         \/ chan[c].recv # <<>> /\ UNCHANGED cap
         \/ /\ chan[c].recv = <<>> /\ c \notin a.r
            /\ \/ CanPut(c) /\ UNCHANGED cap
               \/ cap[c] = 0 /\ cap' = [cap EXCEPT ![c] = Room]
  PROVE  /\ chan' \in [Chans -> Boxes]
         /\ \/ \E q \in Progs : Gives(c, v, q) /\ Wakes(q)
            \/ Puts(c, v) /\ Runs
<1>1. /\ chan \in [Chans -> Boxes] /\ Absent(chan, p)
      /\ chan[c].recv \in Seq(Progs) /\ chan[c].buf \in Seq(Vals)
  BY QueueFacts, Runner
<1>2. /\ Marked(a, p)[c].recv = IF c \in a.r THEN Append(chan[c].recv, p) ELSE chan[c].recv
      /\ Marked(a, p)[c].buf = chan[c].buf
  BY <1>1, altmarkIs, SMTT(40) DEF Marked
<1>3. CASE chan[c].recv # <<>>
  <2> DEFINE q == Head(chan[c].recv)
  <2>1. q \in Elems(chan[c].recv) /\ q \in Progs
    BY <1>1, <1>3, ElemsOf
  <2>2. q # p
    BY <1>1, <2>1 DEF Absent
  <2>3. Marked(a, p)[c].recv # <<>> /\ Head(Marked(a, p)[c].recv) = q
    <3>1. Append(chan[c].recv, p) # <<>> /\ Head(Append(chan[c].recv, p)) = q
      BY <1>1, <1>3, JoinEnd
    <3> QED
      BY <1>2, <1>3, <3>1
  <2>4. /\ chan' = altdone(altdone(Marked(a, p), want[q], q), a, p)
        /\ rcvd' = [rcvd EXCEPT ![c] = Append(@, v)]
        /\ sent' = [sent EXCEPT ![c] = Append(@, v)]
        /\ addrun(q)
    BY <2>3 DEF isend
  <2> HIDE DEF q
  <2>5. want[q] \in Offers
    BY <2>1 DEF IInv, TypeOK
  <2>6. chan' = altdone(chan, want[q], q)
    BY <1>1, <2>1, <2>2, <2>4, <2>5, UnmarkBoth DEF Marked
  <2>7. /\ chan' \in [Chans -> Boxes]
        /\ \A d \in Chans : /\ chan'[d].send = Without(chan[d].send, q)
                            /\ chan'[d].recv = Without(chan[d].recv, q)
                            /\ chan'[d].buf = chan[d].buf
    BY <1>1, <2>1, <2>6, Gone, SMTT(40)
  <2>8. Leaves(q) /\ Wakes(q)
    BY <2>4, <2>7, SMTT(40) DEF Leaves, Wakes, addrun
  <2>9. Gives(c, v, q)
    BY <1>3, <2>4, <2>7, <2>8, ZenonT(30) DEF Gives, Buffer, q
  <2> QED
    BY <2>1, <2>7, <2>8, <2>9
<1>4. CASE chan[c].recv = <<>>
  <2> DEFINE b == Append(chan[c].buf, v)
             e == SetBuf(chan, c, b)
  <2>1. Marked(a, p)[c].recv = <<>>
    BY <1>2, <1>4
  <2>2. /\ chan' = altdone([Marked(a, p) EXCEPT ![c].buf = Append(Marked(a, p)[c].buf, v)], a, p)
        /\ sent' = [sent EXCEPT ![c] = Append(@, v)]
        /\ UNCHANGED <<state, runq, want, ptr, ahead, rcvd>>
    BY <2>1, <1>1, altmarkIs DEF isend, Marked
  <2>3. b \in Seq(Vals)
    BY <1>1
  <2>4. chan' = altdone(SetBuf(altmark(chan, a, p), c, b), a, p)
    BY <1>2, <2>2 DEF Marked, SetBuf
  <2> HIDE DEF b
  <2>5. /\ e \in [Chans -> Boxes]
        /\ \A d \in Chans : /\ e[d].recv = chan[d].recv /\ e[d].send = chan[d].send
                            /\ e[d].buf = IF d = c THEN b ELSE chan[d].buf
    BY <1>1, <2>3, bufIs
  <2>6. chan' = altdone(altmark(e, a, p), a, p)
    <3>1. SetBuf(altmark(chan, a, p), c, b) = altmark(SetBuf(chan, c, b), a, p)
      BY <1>1, <2>3, MarkBuf
    <3> QED
      BY <2>4, <3>1
  <2> HIDE DEF e
  <2>7. Absent(e, p)
    BY <1>1, <2>5 DEF Absent
  <2>8. chan' = e
    BY <2>5, <2>6, <2>7, Unmark
  <2>9. Stay /\ Buffer(c, b)
    BY <2>2, <2>5, <2>8 DEF Stay, Buffer
  <2>10. Puts(c, v)
    BY <1>4, <2>2, <2>9 DEF Puts, b
  <2> QED
    BY <2>2, <2>5, <2>8, <2>10 DEF Runs
<1> QED
  BY <1>3, <1>4

\* irecv of the running process, with or without the marks of an alt.
LEMMA RecvEffect ==
  ASSUME IInv, NEW p \in Progs, runq # <<>>, p = Head(runq),
         NEW a \in Offers, NEW c \in Chans,
         irecv(Marked(a, p), a, p, c), UNCHANGED cap,
         chan[c].send # <<>> \/ (CanGet(c) /\ c \notin a.s)
  PROVE  /\ chan' \in [Chans -> Boxes]
         /\ \/ \E q \in Progs : Takes(c, q) /\ Wakes(q)
            \/ Gets(c) /\ Runs
<1>1. /\ chan \in [Chans -> Boxes] /\ Absent(chan, p)
      /\ chan[c].send \in Seq(Progs) /\ chan[c].buf \in Seq(Vals)
  BY QueueFacts, Runner
<1>2. /\ Marked(a, p)[c].send = IF c \in a.s THEN Append(chan[c].send, p) ELSE chan[c].send
      /\ Marked(a, p)[c].buf = chan[c].buf
  BY <1>1, altmarkIs, SMTT(40) DEF Marked
<1>3. CASE chan[c].send # <<>>
  <2> DEFINE q == Head(chan[c].send)
             b == IF cap[c] > 0 THEN Append(Tail(chan[c].buf), ptr[q]) ELSE chan[c].buf
             e == SetBuf(chan, c, b)
  <2>1. q \in Elems(chan[c].send) /\ q \in Progs
    BY <1>1, <1>3, ElemsOf
  <2>2. q # p
    BY <1>1, <2>1 DEF Absent
  <2>3. Marked(a, p)[c].send # <<>> /\ Head(Marked(a, p)[c].send) = q
    <3>1. Append(chan[c].send, p) # <<>> /\ Head(Append(chan[c].send, p)) = q
      BY <1>1, <1>3, JoinEnd
    <3> QED
      BY <1>2, <1>3, <3>1
  <2>4. /\ chan' = altdone(altdone([Marked(a, p) EXCEPT ![c].buf =
                     IF cap[c] > 0 THEN Append(Tail(Marked(a, p)[c].buf), ptr[q])
                     ELSE Marked(a, p)[c].buf], want[q], q), a, p)
        /\ rcvd' = [rcvd EXCEPT ![c] =
                     Append(@, IF cap[c] > 0 THEN Head(Marked(a, p)[c].buf) ELSE ptr[q])]
        /\ sent' = [sent EXCEPT ![c] = Append(@, ptr[q])]
        /\ addrun(q)
    BY <2>3 DEF irecv
  <2>5. ptr[q] \in Vals /\ want[q] \in Offers /\ (cap[c] > 0 => chan[c].buf # <<>>)
    <3>1. want[q].s # {}
      BY <2>1, QueueFacts DEF Senders
    <3> QED
      BY <1>3, <2>1, <3>1 DEF IInv, AheadInv, TypeOK, NoMissedRendezvous
  <2>6. b \in Seq(Vals)
    BY <1>1, <2>5
  <2>7. chan' = altdone(altdone(SetBuf(altmark(chan, a, p), c, b), want[q], q), a, p)
    BY <1>2, <2>4 DEF Marked, SetBuf
  <2> HIDE DEF b
  <2>8. /\ e \in [Chans -> Boxes]
        /\ \A d \in Chans : /\ e[d].recv = chan[d].recv /\ e[d].send = chan[d].send
                            /\ e[d].buf = IF d = c THEN b ELSE chan[d].buf
    BY <1>1, <2>6, bufIs, SMTT(40)
  <2>9. chan' = altdone(altdone(altmark(e, a, p), want[q], q), a, p)
    <3>1. SetBuf(altmark(chan, a, p), c, b) = altmark(SetBuf(chan, c, b), a, p)
      BY <1>1, <2>6, MarkBuf
    <3> QED
      BY <2>7, <3>1
  <2> HIDE DEF q, e
  <2>10. Absent(e, p)
    BY <1>1, <2>8 DEF Absent
  <2>11. chan' = altdone(e, want[q], q)
    BY <2>1, <2>2, <2>5, <2>8, <2>9, <2>10, UnmarkBoth
  <2>12. /\ chan' \in [Chans -> Boxes]
         /\ \A d \in Chans : /\ chan'[d].send = Without(chan[d].send, q)
                             /\ chan'[d].recv = Without(chan[d].recv, q)
                             /\ chan'[d].buf = e[d].buf
    BY <2>1, <2>8, <2>11, Gone, SMTT(40)
  <2>13. Leaves(q) /\ Wakes(q)
    BY <2>4, <2>12 DEF Leaves, Wakes, addrun
  <2>14. Buffer(c, b)
    BY <2>8, <2>12 DEF Buffer
  <2>15. Takes(c, q)
    BY <1>2, <1>3, <2>4, <2>13, <2>14 DEF Takes, b, q
  <2> QED
    BY <2>1, <2>12, <2>13, <2>15
<1>4. CASE chan[c].send = <<>>
  <2> DEFINE b == Tail(chan[c].buf)
             e == SetBuf(chan, c, b)
  <2>1. Marked(a, p)[c].send = <<>>
    BY <1>2, <1>4
  <2>2. /\ chan' = altdone([Marked(a, p) EXCEPT ![c].buf = Tail(Marked(a, p)[c].buf)], a, p)
        /\ rcvd' = [rcvd EXCEPT ![c] = Append(@, Head(Marked(a, p)[c].buf))]
        /\ UNCHANGED <<state, runq, want, ptr, ahead, sent>>
    BY <2>1, <1>1, altmarkIs DEF irecv, Marked
  <2>3. b \in Seq(Vals)
    BY <1>1, <1>4 DEF CanGet
  <2>4. chan' = altdone(SetBuf(altmark(chan, a, p), c, b), a, p)
    BY <1>2, <2>2 DEF Marked, SetBuf
  <2> HIDE DEF b
  <2>5. /\ e \in [Chans -> Boxes]
        /\ \A d \in Chans : /\ e[d].recv = chan[d].recv /\ e[d].send = chan[d].send
                            /\ e[d].buf = IF d = c THEN b ELSE chan[d].buf
    BY <1>1, <2>3, bufIs
  <2>6. chan' = altdone(altmark(e, a, p), a, p)
    <3>1. SetBuf(altmark(chan, a, p), c, b) = altmark(SetBuf(chan, c, b), a, p)
      BY <1>1, <2>3, MarkBuf
    <3> QED
      BY <2>4, <3>1
  <2> HIDE DEF e
  <2>7. Absent(e, p)
    BY <1>1, <2>5 DEF Absent
  <2>8. chan' = e
    BY <2>5, <2>6, <2>7, Unmark
  <2>9. Stay /\ Buffer(c, b)
    BY <2>2, <2>5, <2>8 DEF Stay, Buffer
  <2>10. Gets(c)
    BY <1>2, <1>4, <2>2, <2>9 DEF Gets, b
  <2> QED
    BY <2>2, <2>5, <2>8, <2>10 DEF Runs
<1> QED
  BY <1>3, <1>4

\* The running process waits.
LEMMA BlockEffect ==
  ASSUME IInv, NEW p \in Progs, Running(p), NEW a \in Offers, a # Nothing, a.s \cap a.r = {},
         NEW v \in Vals \cup {Nil}, a.s # {} => v \in Vals, NEW how \in {"send", "recv", "alt"},
         \A c \in a.s : chan[c].recv = <<>> /\ ~CanPut(c),
         \A c \in a.r : chan[c].send = <<>> /\ ~CanGet(c),
         Block(p, a, altmark(chan, a, p), how, v), UNCHANGED cap
  PROVE  chan' \in [Chans -> Boxes] /\ Talks
<1> DEFINE x == IF a.s = {} THEN Nil ELSE v
<1>1. want[p] = Nothing /\ chan' \in [Chans -> Boxes]
  BY QueueFacts, Runner, altmarkIs DEF Running, Block
<1>2. x \in Vals \cup {Nil} /\ (a.s # {} => x # Nil)
  BY DisAssumption
<1>3. Blocks(p, a, x)
  <2> HIDE DEF x
  <2>1. ptr' = [ptr EXCEPT ![p] = x]
    BY DEF Block, x
  <2> QED
    BY <1>1, <1>2, <2>1 DEF Blocks, Block
<1>4. Stops(p)
  BY DEF Stops, Block, Running
<1> QED
  BY <1>1, <1>2, <1>3, <1>4 DEF Talks

LEMMA NoOffer == Nothing \in Offers /\ Nothing.s = {} /\ Nothing.r = {}
  BY DEF Nothing, Offers

\* The send instruction.
LEMMA SendTalks ==
  ASSUME IInv, NEW p \in Progs, NEW c \in Chans, NEW v \in Vals, Send(p, c, v)
  PROVE  chan' \in [Chans -> Boxes] /\ Talks
<1>1. runq # <<>> /\ p = Head(runq) /\ Running(p) /\ UNCHANGED cap
  BY DEF Send, Running
<1>2. Marked(Nothing, p) = chan
  BY QueueFacts, NoMarks DEF Marked
<1>3. CASE chan[c].recv # <<>> \/ CanPut(c)
  <2>1. isend(Marked(Nothing, p), Nothing, p, c, v)
    BY <1>2, <1>3 DEF Send
  <2> QED
    BY <1>1, <1>3, <2>1, NoOffer, SendEffect DEF Talks
<1>4. CASE ~(chan[c].recv # <<>> \/ CanPut(c))
  <2> DEFINE a == [s |-> {c}, r |-> {}]
  <2>1. a \in Offers /\ a # Nothing /\ a.s = {c} /\ a.r = {}
    BY DEF Offers, Nothing
  <2>2. Block(p, a, altmark(chan, a, p), "send", v)
    BY <1>4 DEF Send
  <2> HIDE DEF a
  <2> QED
    BY <1>1, <1>4, <2>1, <2>2, BlockEffect
<1> QED
  BY <1>3, <1>4

\* The recv instruction.
LEMMA RecvTalks ==
  ASSUME IInv, NEW p \in Progs, NEW c \in Chans, Recv(p, c)
  PROVE  chan' \in [Chans -> Boxes] /\ Talks
<1>1. runq # <<>> /\ p = Head(runq) /\ Running(p) /\ UNCHANGED cap
  BY DEF Recv, Running
<1>2. Marked(Nothing, p) = chan
  BY QueueFacts, NoMarks DEF Marked
<1>3. CASE chan[c].send # <<>> \/ CanGet(c)
  <2>1. irecv(Marked(Nothing, p), Nothing, p, c)
    BY <1>2, <1>3 DEF Recv
  <2> QED
    BY <1>1, <1>3, <2>1, NoOffer, RecvEffect DEF Talks
<1>4. CASE ~(chan[c].send # <<>> \/ CanGet(c))
  <2> DEFINE a == [s |-> {}, r |-> {c}]
  <2>1. a \in Offers /\ a # Nothing /\ a.s = {} /\ a.r = {c}
    BY DEF Offers, Nothing
  <2>2. Block(p, a, altmark(chan, a, p), "recv", Nil)
    BY <1>4 DEF Recv
  <2> HIDE DEF a
  <2> QED
    BY <1>1, <1>4, <2>1, <2>2, BlockEffect
<1> QED
  BY <1>3, <1>4

\* csendalt.
LEMMA csendaltTalks ==
  ASSUME IInv, NEW p \in Progs, NEW c \in Chans, NEW v \in Vals, csendalt(p, c, v)
  PROVE  chan' \in [Chans -> Boxes] /\ Talks
<1>1. runq # <<>> /\ p = Head(runq)
  BY DEF csendalt, Running
<1>2. Marked(Nothing, p) = chan
  BY QueueFacts, NoMarks DEF Marked
<1>3. CASE /\ chan[c].recv # <<>> \/ CanPut(c)
           /\ isend(chan, Nothing, p, c, v)
           /\ UNCHANGED cap
  <2>1. isend(Marked(Nothing, p), Nothing, p, c, v)
    BY <1>2, <1>3
  <2> QED
    BY <1>1, <1>3, <2>1, NoOffer, SendEffect DEF Talks
<1>4. CASE /\ chan[c].recv = <<>> /\ cap[c] = 0
           /\ cap' = [cap EXCEPT ![c] = Room]
           /\ isend(chan, Nothing, p, c, v)
  <2>1. isend(Marked(Nothing, p), Nothing, p, c, v)
    BY <1>2, <1>4
  <2> QED
    BY <1>1, <1>4, <2>1, NoOffer, SendEffect DEF Talks
<1>5. CASE UNCHANGED <<procvars, chanvars, history>>
  BY <1>5, QueueFacts DEF Talks, Quiet, Runs, procvars, chanvars, history
<1> QED
  BY <1>3, <1>4, <1>5 DEF csendalt

\* alt and nbalt: a channel chosen to send on has a waiting receiver other
\* than the process itself, or room; one chosen to receive on is not offered
\* for sending, or has a waiting sender.
LEMMA altTalks ==
  ASSUME IInv, NEW p \in Progs, NEW a \in Alts, NEW v \in Vals, NEW block \in BOOLEAN,
         xecalt(p, a, v, block)
  PROVE  chan' \in [Chans -> Boxes] /\ Talks
<1>1. runq # <<>> /\ p = Head(runq) /\ Running(p) /\ UNCHANGED cap
  BY DEF xecalt, Running
<1>2. a \in Offers /\ a # Nothing /\ (a.s \cap a.r # {} => \E c \in Chans : a.r = {c})
  BY DisAssumption
<1>3. chan \in [Chans -> Boxes] /\ Absent(chan, p)
  BY <1>1, QueueFacts, Runner
<1>4. altdone(Marked(a, p), a, p) = chan
  BY <1>2, <1>3, Unmark DEF Marked
<1>5. \A c \in Chans :
        Marked(a, p)[c].recv = IF c \in a.r THEN Append(chan[c].recv, p) ELSE chan[c].recv
  BY <1>2, <1>3, altmarkIs DEF Marked
<1>6. a.s \subseteq Chans /\ a.r \subseteq Chans
  BY <1>2 DEF Offers
<1>7. \A c \in Chans : /\ chan[c].recv \in Seq(Progs)
                       /\ Append(chan[c].recv, p) # <<>>
                       /\ chan[c].recv = <<>> => Head(Append(chan[c].recv, p)) = p
  BY QueueFacts, JoinEnd, SMTT(40)
<1>8. ASSUME ~Itself(a, p), NEW c \in a.s, c \in a.r PROVE chan[c].recv # <<>>
  BY <1>5, <1>6, <1>7, <1>8 DEF Itself
<1>9. CASE Itself(a, p) /\ chan' = altdone(Marked(a, p), a, p) /\ Runs
           /\ UNCHANGED <<want, ptr, kill, history>>
  BY <1>1, <1>3, <1>4, <1>9 DEF Talks, Quiet, history
<1>10. CASE /\ Itself(a, p) /\ chan' = altdone(Marked(a, p), a, p)
            /\ state' = [state EXCEPT ![p] = "broken"] /\ runq' = Tail(runq)
            /\ UNCHANGED <<want, ptr, kill, history>>
  <2>1. Quiet /\ chan' = chan
    BY <1>1, <1>4, <1>10 DEF Quiet, history
  <2>2. Breaks(p)
    BY <1>1, <1>10 DEF Breaks, Running
  <2> QED
    BY <1>3, <2>1, <2>2 DEF Talks
<1>11. ASSUME ~Itself(a, p), NEW c \in ReadySends(a, p), isend(Marked(a, p), a, p, c, v)
       PROVE  chan' \in [Chans -> Boxes] /\ Talks
  <2>1. c \in a.s /\ c \in Chans /\ (Marked(a, p)[c].recv # <<>> \/ CanPut(c))
    BY <1>6, <1>11 DEF ReadySends
  <2>2. chan[c].recv # <<>> \/ (chan[c].recv = <<>> /\ c \notin a.r /\ CanPut(c))
    <3>1. CASE c \in a.r
      BY <1>8, <1>11, <2>1, <3>1
    <3>2. CASE c \notin a.r
      BY <1>5, <2>1, <3>2
    <3> QED
      BY <3>1, <3>2
  <2> QED
    BY <1>1, <1>2, <1>11, <2>1, <2>2, SendEffect DEF Talks
<1>12. ASSUME ~Itself(a, p), NEW c \in ReadyRecvs(a), irecv(Marked(a, p), a, p, c)
       PROVE  chan' \in [Chans -> Boxes] /\ Talks
  <2>1. c \in a.r /\ c \in Chans /\ (chan[c].send # <<>> \/ CanGet(c))
    BY <1>6, <1>12 DEF ReadyRecvs
  <2>2. chan[c].recv = <<>>
    BY <2>1 DEF IInv, NoMissedRendezvous, CanGet
  <2>3. c \notin a.s
    BY <1>8, <1>12, <2>1, <2>2
  <2> QED
    BY <1>1, <1>2, <1>12, <2>1, <2>3, RecvEffect DEF Talks
<1>13. CASE ~Itself(a, p) /\ ReadySends(a, p) = {} /\ ReadyRecvs(a) = {}
            /\ Block(p, a, Marked(a, p), "alt", v)
  <2>1. ASSUME NEW c \in a.s PROVE c \notin a.r /\ chan[c].recv = <<>> /\ ~CanPut(c)
    <3>1. c \in Chans /\ Marked(a, p)[c].recv = <<>> /\ ~CanPut(c)
      BY <1>6, <1>13, <2>1 DEF ReadySends
    <3> QED
      BY <1>5, <1>7, <3>1
  <2>2. \A c \in a.r : chan[c].send = <<>> /\ ~CanGet(c)
    BY <1>13 DEF ReadyRecvs
  <2>3. a.s \cap a.r = {}
    BY <2>1
  <2> QED
    BY <1>1, <1>2, <1>13, <2>1, <2>2, <2>3, BlockEffect DEF Marked
<1>14. CASE chan' = altdone(Marked(a, p), a, p) /\ UNCHANGED <<procvars, history>>
  BY <1>1, <1>3, <1>4, <1>14 DEF Talks, Quiet, Runs, procvars, history
<1> QED
  BY <1>9, <1>10, <1>11, <1>12, <1>13, <1>14 DEF xecalt, Runs

\* The four together; they leave groups and kills alone.
TalkStep ==
    \/ \E p \in Progs, c \in Chans :
         \/ Recv(p, c)
         \/ \E v \in Vals : Send(p, c, v) \/ csendalt(p, c, v)
    \/ \E p \in Progs, a \in Alts, v \in Vals, block \in BOOLEAN : xecalt(p, a, v, block)

LEMMA TalkEffect ==
  ASSUME IInv, TalkStep
  PROVE  chan' \in [Chans -> Boxes] /\ Talks /\ UNCHANGED <<kill, group, gkilled, doing, reused>>
<1>1. chan' \in [Chans -> Boxes] /\ Talks
  BY SendTalks, RecvTalks, csendaltTalks, altTalks DEF TalkStep
<1>2. ASSUME NEW p \in Progs, NEW c \in Chans, Recv(p, c)
      PROVE  UNCHANGED <<kill, group, gkilled, doing, reused>>
  BY <1>2 DEF Recv, irecv, Block, grpvars
<1>3. ASSUME NEW p \in Progs, NEW c \in Chans, NEW v \in Vals, Send(p, c, v)
      PROVE  UNCHANGED <<kill, group, gkilled, doing, reused>>
  BY <1>3 DEF Send, isend, Block, grpvars
<1>4. ASSUME NEW p \in Progs, NEW c \in Chans, NEW v \in Vals, csendalt(p, c, v)
      PROVE  UNCHANGED <<kill, group, gkilled, doing, reused>>
  BY <1>4, SMTT(40) DEF csendalt, isend, grpvars, procvars
<1>5. ASSUME NEW p \in Progs, NEW a \in Alts, NEW v \in Vals, NEW block \in BOOLEAN,
             xecalt(p, a, v, block)
      PROVE  UNCHANGED <<kill, group, gkilled, doing, reused>>
  BY <1>5 DEF xecalt, isend, irecv, Block, grpvars, procvars
<1> QED
  BY <1>1, <1>2, <1>3, <1>4, <1>5 DEF TalkStep

\* killprog of the running process.
LEMMA KillEffect ==
  ASSUME IInv, NEW p \in Progs, NEW q \in Progs, NEW d, killprog(p, q, d)
  PROVE  chan' \in [Chans -> Boxes] /\ (Quiet \/ Withdraws(q))
<1>1. chan \in [Chans -> Boxes]
  BY QueueFacts
<1>2. CASE UNCHANGED <<chan, cap, want, ptr, history>>
  BY <1>1, <1>2 DEF Quiet, history
<1>3. CASE /\ chan' = altdone(chan, want[q], q)
           /\ want' = [want EXCEPT ![q] = Nothing]
           /\ ptr' = [ptr EXCEPT ![q] = Nil]
           /\ ahead' = [x \in Progs |-> IF x = q THEN {} ELSE ahead[x] \ {q}]
           /\ UNCHANGED <<cap, sent, rcvd>>
  <2>1. /\ chan' \in [Chans -> Boxes]
        /\ \A e \in Chans : /\ chan'[e].send = Without(chan[e].send, q)
                            /\ chan'[e].recv = Without(chan[e].recv, q)
                            /\ chan'[e].buf = chan[e].buf
    BY <1>1, <1>3, Gone
  <2> QED
    BY <1>3, <2>1 DEF Withdraws, Leaves
<1> QED
  BY <1>2, <1>3 DEF killprog, procvars, chanvars

\* Every step does to the channels what Effect says, and unless it leaves them
\* alone it is one of a process that does not wait.
Awake == \E p \in Progs : want[p] = Nothing

LEMMA Effects ==
  ASSUME IInv, [Next]_vars
  PROVE  chan' \in [Chans -> Boxes] /\ Effect /\ (Quiet \/ Awake)
<1>1. chan \in [Chans -> Boxes]
  BY QueueFacts
<1>20. ASSUME NEW p, runq # <<>>, p = Head(runq) PROVE Awake
  BY <1>20, Runner DEF Awake
<1>2. CASE TalkStep
  <2>1. Awake
    BY <1>2, <1>20, ZenonT(40) DEF TalkStep, Recv, Send, csendalt, xecalt, Running
  <2> QED
    BY <1>2, <2>1, TalkEffect DEF Talks, Effect
<1>3. ASSUME NEW p \in Progs, NEW q \in Progs, newprog(p, q) PROVE Quiet
  BY <1>3 DEF newprog, Quiet, history
<1>4. ASSUME NEW p \in Progs, NEW q \in Progs, Kill(p, q)
      PROVE  chan' \in [Chans -> Boxes] /\ Effect /\ Awake
  BY <1>4, <1>20, KillEffect DEF Kill, Running, Effect
<1>5. ASSUME NEW p \in Progs, NEW q \in Progs, killgrp(p, q) PROVE Quiet
  BY <1>5 DEF killgrp, Quiet, history
<1>6. ASSUME NEW p \in Progs, newgrp(p) PROVE Quiet
  BY <1>6 DEF newgrp, Quiet, history, procvars, chanvars
<1>7. ASSUME NEW p \in Progs, Syscall(p) \/ progexit(p) \/ acquire(p) PROVE Quiet
  BY <1>7 DEF Syscall, progexit, acquire, Quiet, history
<1>8. ASSUME NEW p \in Progs, killgrp_again(p) PROVE Quiet
  BY <1>8 DEF killgrp_again, Quiet, history
<1>9. ASSUME NEW p \in Progs, killgrp_next(p)
      PROVE  chan' \in [Chans -> Boxes] /\ Effect /\ Awake
  <2>5. Awake
    BY <1>9, <1>20 DEF killgrp_next
  <2>1. doing[p].todo \subseteq Progs
    BY DEF IInv, TypeOK
  <2>2. PICK f \in doing[p].todo :
          \/ killprog(p, f, [doing[p] EXCEPT !.todo = @ \ {f}])
          \/ UNCHANGED <<procvars, chanvars, group, gkilled, reused, history>>
    BY <1>9 DEF killgrp_next
  <2>3. CASE killprog(p, f, [doing[p] EXCEPT !.todo = @ \ {f}])
    BY <2>1, <2>3, <2>5, KillEffect DEF Effect
  <2>4. CASE UNCHANGED <<procvars, chanvars, group, gkilled, reused, history>>
    BY <1>1, <2>4, <2>5 DEF Effect, Quiet, history, procvars, chanvars
  <2> QED
    BY <2>2, <2>3, <2>4, <2>5
<1>10. ASSUME NEW p \in Progs, killgrp_end(p) PROVE Quiet
  BY <1>10 DEF killgrp_end, Quiet, history, procvars, chanvars
<1>11. CASE Rotate
  BY <1>1, <1>11 DEF Rotate, Quiet, Effect, history
<1>12. CASE UNCHANGED vars
  BY <1>1, <1>12 DEF vars, Quiet, Effect
<1>13. Quiet => chan' \in [Chans -> Boxes] /\ Effect
  BY <1>1 DEF Quiet, Effect
<1> QED
  BY <1>2, <1>3, <1>4, <1>5, <1>6, <1>7, <1>8, <1>9, <1>10, <1>11, <1>12, <1>13 DEF Next, TalkStep

----------------------------------------------------------------------------
(* The channels' part of the invariant *)

\* The types of what the effects change.
LEMMA WaitTypes ==
  ASSUME IInv
  PROVE  /\ want \in [Progs -> Offers] /\ ptr \in [Progs -> Vals \cup {Nil}]
         /\ ahead \in [Progs -> SUBSET Progs] /\ cap \in [Chans -> Nat]
         /\ sent \in [Chans -> Seq(Vals)] /\ rcvd \in [Chans -> Seq(Vals)]
         /\ \A c \in Chans : Len(chan[c].buf) \in Nat /\ Len(chan[c].buf) <= cap[c]
<1>1. \A c \in Chans : chan[c].buf \in Seq(Vals)
  BY QueueFacts
<1> QED
  BY <1>1 DEF IInv, TypeOK

\* Who leaves a queue that is not empty is somebody who waits.
LEMMA HeadWaits ==
  ASSUME IInv, NEW c \in Chans, NEW q
  PROVE  /\ chan[c].recv # <<>> /\ q = Head(chan[c].recv) => q \in Progs /\ c \in want[q].r
         /\ chan[c].send # <<>> /\ q = Head(chan[c].send) =>
              /\ q \in Progs /\ c \in want[q].s /\ ptr[q] \in Vals
              /\ cap[c] > 0 => chan[c].buf # <<>>
<1>1. chan[c].recv # <<>> /\ q = Head(chan[c].recv) => q \in Receivers(c)
  BY QueueFacts, ElemsOf
<1>2. chan[c].send # <<>> /\ q = Head(chan[c].send) => q \in Senders(c)
  BY QueueFacts, ElemsOf
<1>3. \A x \in Senders(c) : x \in Progs /\ c \in want[x].s /\ ptr[x] \in Vals
  BY WaitTypes DEF IInv, AheadInv, Senders
<1>4. chan[c].send # <<>> /\ cap[c] > 0 => chan[c].buf # <<>>
  BY DEF IInv, NoMissedRendezvous
<1> QED
  BY <1>1, <1>2, <1>3, <1>4 DEF Receivers

LEMMA NextWaitTypes ==
  ASSUME IInv, Effect
  PROVE  /\ want' \in [Progs -> Offers] /\ ptr' \in [Progs -> Vals \cup {Nil}]
         /\ ahead' \in [Progs -> SUBSET Progs]
<1>20. /\ want \in [Progs -> Offers] /\ ptr \in [Progs -> Vals \cup {Nil}]
       /\ ahead \in [Progs -> SUBSET Progs]
  BY WaitTypes
<1>21. Nothing \in Offers
  BY NoOffer
<1>1. ASSUME NEW q \in Progs, Leaves(q)
      PROVE  /\ want' \in [Progs -> Offers] /\ ptr' \in [Progs -> Vals \cup {Nil}]
             /\ ahead' \in [Progs -> SUBSET Progs]
  BY <1>1, <1>20, <1>21 DEF Leaves
<1>2. CASE UNCHANGED <<want, ptr, ahead>>
  BY <1>2, <1>20
<1>3. ASSUME NEW p \in Progs, NEW a \in Offers, NEW v \in Vals \cup {Nil}, Blocks(p, a, v)
      PROVE  /\ want' \in [Progs -> Offers] /\ ptr' \in [Progs -> Vals \cup {Nil}]
             /\ ahead' \in [Progs -> SUBSET Progs]
  BY <1>3, <1>20 DEF Blocks, Waiting
<1> QED
  BY <1>1, <1>2, <1>3 DEF Effect, Quiet, Gives, Puts, Takes, Gets, Withdraws, Stay

LEMMA NextAhead ==
  ASSUME IInv, Effect
  PROVE  AheadInv'
<1>20. /\ want \in [Progs -> Offers] /\ ptr \in [Progs -> Vals \cup {Nil}]
       /\ ahead \in [Progs -> SUBSET Progs]
  BY WaitTypes
<1>21. AheadInv
  BY DEF IInv
<1>1. ASSUME NEW q \in Progs, Leaves(q) PROVE AheadInv'
  <2>1. /\ want'[q] = Nothing /\ ptr'[q] = Nil /\ ahead'[q] = {}
        /\ \A x \in Progs : x # q =>
             want'[x] = want[x] /\ ptr'[x] = ptr[x] /\ ahead'[x] = ahead[x] \ {q}
    BY <1>1, <1>20 DEF Leaves
  <2>2. \A x, y \in Progs : y \in ahead'[x] => want'[y] # Nothing /\ x \notin ahead'[y]
    BY <1>21, <2>1 DEF AheadInv
  <2>3. \A x \in Progs : want'[x] = Nothing => ahead'[x] = {} /\ ptr'[x] = Nil
    BY <1>21, <2>1 DEF AheadInv
  <2>4. \A x \in Progs : want'[x].s # {} => ptr'[x] # Nil
    BY <1>21, <2>1, NoOffer DEF AheadInv
  <2> QED
    BY <2>2, <2>3, <2>4 DEF AheadInv
<1>2. CASE UNCHANGED <<want, ptr, ahead>>
  BY <1>2, <1>21 DEF AheadInv
<1>3. ASSUME NEW p \in Progs, NEW a \in Offers, NEW v \in Vals \cup {Nil}, Blocks(p, a, v)
      PROVE  AheadInv'
  <2>1. /\ want'[p] = a /\ ptr'[p] = v /\ ahead'[p] = {x \in Progs : want[x] # Nothing}
        /\ want[p] = Nothing /\ a # Nothing /\ (a.s # {} => v # Nil)
        /\ \A x \in Progs : x # p =>
             want'[x] = want[x] /\ ptr'[x] = ptr[x] /\ ahead'[x] = ahead[x]
    BY <1>3, <1>20 DEF Blocks, Waiting
  <2>2. \A x, y \in Progs : y \in ahead'[x] => want'[y] # Nothing /\ x \notin ahead'[y]
    BY <1>21, <2>1 DEF AheadInv
  <2>3. \A x \in Progs : want'[x] = Nothing => ahead'[x] = {} /\ ptr'[x] = Nil
    BY <1>21, <2>1 DEF AheadInv
  <2>4. \A x \in Progs : want'[x].s # {} => ptr'[x] # Nil
    BY <1>21, <2>1 DEF AheadInv
  <2> QED
    BY <2>2, <2>3, <2>4 DEF AheadInv
<1> QED
  BY <1>1, <1>2, <1>3 DEF Effect, Quiet, Gives, Puts, Takes, Gets, Withdraws, Stay

\* Who leaves is behind nobody and nobody is behind it; the order of the
\* others stays.
LEMMA OrderedLess ==
  ASSUME NEW s \in Seq(Progs), NEW f, NEW g, NEW q \in Progs, OrderedBy(s, f), q \notin Elems(s),
         \A x, y \in Progs : x # q /\ y # q /\ y \in f[x] => y \in g[x]
  PROVE  OrderedBy(s, g)
<1>1. \A i \in 1..Len(s) : s[i] \in Progs /\ s[i] # q
  BY DEF Elems
<1> QED
  BY <1>1 DEF OrderedBy

\* Who joins at the end is behind everybody who waits.
LEMMA OrderedMore ==
  ASSUME NEW s \in Seq(Progs), NEW f, NEW g, NEW p \in Progs, OrderedBy(s, f), p \notin Elems(s),
         \A x \in Progs : x # p => g[x] = f[x], Elems(s) \subseteq g[p]
  PROVE  OrderedBy(s, g) /\ OrderedBy(Append(s, p), g)
<1> DEFINE a == Append(s, p)
<1>1. \A i \in 1..Len(s) : s[i] \in Progs /\ s[i] # p /\ s[i] \in Elems(s)
  BY DEF Elems
<1>2. OrderedBy(s, g)
  BY <1>1 DEF OrderedBy
<1>3. /\ Len(s) \in Nat /\ Len(a) = Len(s) + 1
      /\ a[Len(s) + 1] = p /\ \A i \in 1..Len(s) : a[i] = s[i]
  OBVIOUS
<1> HIDE DEF a
<1>4. ASSUME NEW i \in 1..Len(a), NEW j \in 1..Len(a), i < j PROVE a[i] \in g[a[j]]
  <2>1. i \in 1..Len(s) /\ a[i] = s[i]
    BY <1>3, <1>4
  <2>2. CASE j = Len(s) + 1
    BY <1>1, <1>3, <2>1, <2>2
  <2>3. CASE j \in 1..Len(s)
    BY <1>2, <1>3, <1>4, <2>1, <2>3 DEF OrderedBy
  <2> QED
    BY <1>3, <2>2, <2>3
<1>5. OrderedBy(a, g)
  BY <1>4 DEF OrderedBy
<1> QED
  BY <1>2, <1>5 DEF a

LEMMA NextQueue ==
  ASSUME IInv, Effect
  PROVE  QueueInv'
<1>20. want \in [Progs -> Offers] /\ ahead \in [Progs -> SUBSET Progs]
  BY WaitTypes
<1>21. \A c \in Chans : OrderedBy(chan[c].send, ahead) /\ OrderedBy(chan[c].recv, ahead)
  BY DEF IInv, QueueInv
<1>1. ASSUME NEW q \in Progs, Leaves(q) PROVE QueueInv'
  <2>1. /\ want'[q] = Nothing /\ \A x \in Progs : x # q => want'[x] = want[x]
        /\ \A x \in Progs : x # q => ahead'[x] = ahead[x] \ {q}
    BY <1>1, <1>20 DEF Leaves
  <2>2. want'[q].s = {} /\ want'[q].r = {}
    BY <2>1, NoOffer
  <2>3. \A c \in Chans : Senders(c)' = Senders(c) \ {q} /\ Receivers(c)' = Receivers(c) \ {q}
    BY <2>1, <2>2 DEF Senders, Receivers
  <2>4. SUFFICES ASSUME NEW c \in Chans
                 PROVE  /\ Elems(chan'[c].send) = Senders(c)' /\ OrderedBy(chan'[c].send, ahead')
                        /\ Elems(chan'[c].recv) = Receivers(c)' /\ OrderedBy(chan'[c].recv, ahead')
    BY DEF QueueInv
  <2>5. chan'[c].send = Without(chan[c].send, q) /\ chan'[c].recv = Without(chan[c].recv, q)
    BY <1>1 DEF Leaves
  <2>6. /\ Elems(chan'[c].send) = Senders(c) \ {q} /\ chan'[c].send \in Seq(Progs)
        /\ OrderedBy(chan'[c].send, ahead)
    BY <1>21, <2>5, QueueFacts, WithoutOf
  <2>7. /\ Elems(chan'[c].recv) = Receivers(c) \ {q} /\ chan'[c].recv \in Seq(Progs)
        /\ OrderedBy(chan'[c].recv, ahead)
    BY <1>21, <2>5, QueueFacts, WithoutOf
  <2>8. OrderedBy(chan'[c].send, ahead')
    <3>1. q \notin Elems(chan'[c].send)
      BY <2>6
    <3>2. \A x, y \in Progs : x # q /\ y # q /\ y \in ahead[x] => y \in ahead'[x]
      BY <2>1
    <3> QED
      BY <2>6, <3>1, <3>2, OrderedLess
  <2>9. OrderedBy(chan'[c].recv, ahead')
    <3>1. q \notin Elems(chan'[c].recv)
      BY <2>7
    <3>2. \A x, y \in Progs : x # q /\ y # q /\ y \in ahead[x] => y \in ahead'[x]
      BY <2>1
    <3> QED
      BY <2>7, <3>1, <3>2, OrderedLess
  <2> QED
    BY <2>3, <2>6, <2>7, <2>8, <2>9
<1>2. CASE Stay
  <2>1. \A c \in Chans : Senders(c)' = Senders(c) /\ Receivers(c)' = Receivers(c)
    BY <1>2 DEF Stay, Senders, Receivers
  <2>2. /\ ahead' = ahead
        /\ \A c \in Chans : chan'[c].send = chan[c].send /\ chan'[c].recv = chan[c].recv
    BY <1>2 DEF Stay
  <2> QED
    BY <1>21, <2>1, <2>2, QueueFacts DEF QueueInv
<1>3. ASSUME NEW p \in Progs, NEW a \in Offers, NEW v \in Vals \cup {Nil}, Blocks(p, a, v)
      PROVE  QueueInv'
  <2>1. /\ want'[p] = a /\ ahead'[p] = {x \in Progs : want[x] # Nothing} /\ want[p] = Nothing
        /\ \A x \in Progs : x # p => want'[x] = want[x]
        /\ \A x \in Progs : x # p => ahead'[x] = ahead[x]
    BY <1>3, <1>20 DEF Blocks, Waiting
  <2>2. want[p].s = {} /\ want[p].r = {}
    BY <2>1, NoOffer
  <2>3. SUFFICES ASSUME NEW c \in Chans
                 PROVE  /\ Elems(chan'[c].send) = Senders(c)' /\ OrderedBy(chan'[c].send, ahead')
                        /\ Elems(chan'[c].recv) = Receivers(c)' /\ OrderedBy(chan'[c].recv, ahead')
    BY DEF QueueInv
  <2>4. /\ chan'[c].recv = IF c \in a.r THEN Append(chan[c].recv, p) ELSE chan[c].recv
        /\ chan'[c].send = IF c \in a.s THEN Append(chan[c].send, p) ELSE chan[c].send
    BY <1>3, QueueFacts, altmarkIs DEF Blocks
  <2>5. /\ chan[c].send \in Seq(Progs) /\ chan[c].recv \in Seq(Progs)
        /\ Elems(chan[c].send) = Senders(c) /\ Elems(chan[c].recv) = Receivers(c)
    BY QueueFacts
  <2>6. \A x \in Progs : x \in Senders(c) \/ x \in Receivers(c) => x # p /\ want[x] # Nothing
    BY <2>2, NoOffer DEF Senders, Receivers
  <2>7. /\ Senders(c) \subseteq ahead'[p] /\ Receivers(c) \subseteq ahead'[p]
        /\ p \notin Senders(c) /\ p \notin Receivers(c)
    BY <2>1, <2>6 DEF Senders, Receivers
  <2>8. OrderedBy(chan[c].send, ahead') /\ OrderedBy(Append(chan[c].send, p), ahead')
    <3>1. p \notin Elems(chan[c].send) /\ Elems(chan[c].send) \subseteq ahead'[p]
      BY <2>5, <2>7
    <3>2. OrderedBy(chan[c].send, ahead) /\ chan[c].send \in Seq(Progs)
      BY <1>21, <2>5
    <3> QED
      BY <2>1, <3>1, <3>2, OrderedMore
  <2>9. OrderedBy(chan[c].recv, ahead') /\ OrderedBy(Append(chan[c].recv, p), ahead')
    <3>1. p \notin Elems(chan[c].recv) /\ Elems(chan[c].recv) \subseteq ahead'[p]
      BY <2>5, <2>7
    <3>2. OrderedBy(chan[c].recv, ahead) /\ chan[c].recv \in Seq(Progs)
      BY <1>21, <2>5
    <3> QED
      BY <2>1, <3>1, <3>2, OrderedMore
  <2>10. /\ Senders(c)' = IF c \in a.s THEN Senders(c) \cup {p} ELSE Senders(c)
         /\ Receivers(c)' = IF c \in a.r THEN Receivers(c) \cup {p} ELSE Receivers(c)
    <3>1. Senders(c)' = {x \in Progs : c \in want'[x].s} /\ Receivers(c)' = {x \in Progs : c \in want'[x].r}
      BY DEF Senders, Receivers
    <3>2. Senders(c)' = IF c \in a.s THEN Senders(c) \cup {p} ELSE Senders(c)
      BY <2>1, <2>2, <3>1 DEF Senders
    <3>3. Receivers(c)' = IF c \in a.r THEN Receivers(c) \cup {p} ELSE Receivers(c)
      BY <2>1, <2>2, <3>1 DEF Receivers
    <3> QED
      BY <3>2, <3>3
  <2>11. /\ Elems(Append(chan[c].send, p)) = Senders(c) \cup {p}
         /\ Elems(Append(chan[c].recv, p)) = Receivers(c) \cup {p}
    BY <2>5, JoinEnd
  <2> QED
    BY <2>4, <2>5, <2>8, <2>9, <2>10, <2>11
<1>4. Quiet => Stay
  BY DEF Quiet, Stay
<1> QED
  BY <1>1, <1>2, <1>3, <1>4 DEF Effect, Gives, Puts, Takes, Gets, Withdraws

\* The buffers of the channels.
LEMMA NextBuffer ==
  ASSUME IInv, Effect
  PROVE  /\ cap' \in [Chans -> Nat] /\ CapInv'
         /\ \A c \in Chans : Len(chan'[c].buf) <= cap'[c]
<1>20. /\ cap \in [Chans -> Nat] /\ CapInv
       /\ \A c \in Chans : Len(chan[c].buf) \in Nat /\ Len(chan[c].buf) <= cap[c]
  BY WaitTypes DEF IInv
<1>21. \A c \in Chans : chan[c].buf \in Seq(Vals)
  BY QueueFacts
<1>1. ASSUME cap' = cap, \A d \in Chans : Len(chan'[d].buf) <= cap[d]
      PROVE  /\ cap' \in [Chans -> Nat] /\ CapInv'
             /\ \A c \in Chans : Len(chan'[c].buf) <= cap'[c]
  BY <1>1, <1>20 DEF CapInv
<1>2. CASE Quiet
  BY <1>1, <1>2, <1>20 DEF Quiet
<1>3. ASSUME NEW p \in Progs, NEW a \in Offers, NEW v \in Vals \cup {Nil}, Blocks(p, a, v)
      PROVE  cap' = cap /\ \A d \in Chans : Len(chan'[d].buf) <= cap[d]
  BY <1>3, <1>20, QueueFacts, altmarkIs DEF Blocks
<1>4. ASSUME NEW c \in Chans, NEW v \in Vals, NEW q \in Progs, Gives(c, v, q)
      PROVE  cap' = cap /\ \A d \in Chans : Len(chan'[d].buf) <= cap[d]
  BY <1>4, <1>20 DEF Gives, Buffer
<1>5. ASSUME NEW c \in Chans, NEW v \in Vals, Puts(c, v)
      PROVE  /\ cap' \in [Chans -> Nat] /\ CapInv'
             /\ \A d \in Chans : Len(chan'[d].buf) <= cap'[d]
  <2>1. \A d \in Chans :
          Len(chan'[d].buf) = IF d = c THEN Len(chan[c].buf) + 1 ELSE Len(chan[d].buf)
    <3>1. Len(Append(chan[c].buf, v)) = Len(chan[c].buf) + 1
      BY <1>21
    <3> QED
      BY <1>5, <3>1 DEF Puts, Buffer
  <2>2. CASE CanPut(c) /\ cap' = cap
    <3>1. \A d \in Chans : Len(chan'[d].buf) <= cap[d]
      BY <1>20, <2>1, <2>2 DEF CanPut
    <3> QED
      BY <1>1, <2>2, <3>1
  <2>3. CASE cap[c] = 0 /\ cap' = [cap EXCEPT ![c] = Room]
    <3>1. Room \in Nat /\ Room > 0 /\ Slots \in [Chans -> Nat]
      BY DisAssumption
    <3>2. cap' \in [Chans -> Nat] /\ \A d \in Chans : cap'[d] = IF d = c THEN Room ELSE cap[d]
      BY <1>20, <2>3, <3>1
    <3>3. CapInv'
      BY <1>20, <3>1, <3>2 DEF CapInv
    <3>4. \A d \in Chans : Len(chan'[d].buf) <= cap'[d]
      BY <1>20, <2>1, <2>3, <3>1, <3>2, SMTT(40)
    <3> QED
      BY <3>2, <3>3, <3>4
  <2> QED
    BY <1>5, <2>2, <2>3 DEF Puts
<1>6. ASSUME NEW c \in Chans, NEW q \in Progs, Takes(c, q)
      PROVE  cap' = cap /\ \A d \in Chans : Len(chan'[d].buf) <= cap[d]
  <2>1. q \in Progs /\ ptr[q] \in Vals /\ (cap[c] > 0 => chan[c].buf # <<>>)
    BY <1>6, HeadWaits DEF Takes
  <2>2. cap[c] > 0 => Len(Append(Tail(chan[c].buf), ptr[q])) = Len(chan[c].buf)
    BY <1>21, <2>1
  <2> QED
    BY <1>6, <1>20, <2>2 DEF Takes, Buffer
<1>7. ASSUME NEW c \in Chans, Gets(c)
      PROVE  cap' = cap /\ \A d \in Chans : Len(chan'[d].buf) <= cap[d]
  <2>1. Len(Tail(chan[c].buf)) = Len(chan[c].buf) - 1
    BY <1>7, <1>21 DEF Gets, CanGet
  <2>2. \A d \in Chans :
          Len(chan'[d].buf) = IF d = c THEN Len(chan[c].buf) - 1 ELSE Len(chan[d].buf)
    BY <1>7, <2>1 DEF Gets, Buffer
  <2>3. cap' = cap
    BY <1>7 DEF Gets
  <2> QED
    BY <1>20, <2>2, <2>3
<1>8. ASSUME NEW q \in Progs, Withdraws(q)
      PROVE  cap' = cap /\ \A d \in Chans : Len(chan'[d].buf) <= cap[d]
  BY <1>8, <1>20 DEF Withdraws
<1> QED
  BY <1>1, <1>2, <1>3, <1>4, <1>5, <1>6, <1>7, <1>8 DEF Effect

\* A queue that is empty stays empty when somebody leaves.
LEMMA LeavesEmpty ==
  ASSUME IInv, NEW q \in Progs, Leaves(q), NEW c \in Chans
  PROVE  /\ chan[c].send = <<>> => chan'[c].send = <<>>
         /\ chan[c].recv = <<>> => chan'[c].recv = <<>>
<1>1. chan'[c].send = Without(chan[c].send, q) /\ chan'[c].recv = Without(chan[c].recv, q)
  BY DEF Leaves
<1>2. chan[c].send \in Seq(Progs) /\ chan[c].recv \in Seq(Progs)
  BY QueueFacts
<1>3. ASSUME NEW s \in Seq(Progs), s = <<>> PROVE Without(s, q) = <<>>
  <2>1. Without(s, q) \in Seq(Progs) /\ Elems(Without(s, q)) \subseteq Elems(s)
    BY WithoutType
  <2>2. Elems(s) = {}
    BY <1>3, ElemsOf
  <2> QED
    BY <2>1, <2>2, ElemsOf
<1> QED
  BY <1>1, <1>2, <1>3

LEMMA NextMissed ==
  ASSUME IInv, Effect
  PROVE  NoMissedRendezvous'
<1> DEFINE Good(c, s, r, b, k) ==
             /\ r # <<>> => s = <<>> /\ b = <<>>
             /\ s # <<>> /\ k > 0 => b # <<>> /\ (Slots[c] > 0 => Len(b) = k)
<1>20. \A c \in Chans : Good(c, chan[c].send, chan[c].recv, chan[c].buf, cap[c])
  BY DEF IInv, NoMissedRendezvous
<1>21. SUFFICES ASSUME NEW d \in Chans
                PROVE  Good(d, chan'[d].send, chan'[d].recv, chan'[d].buf, cap'[d])
  BY DEF NoMissedRendezvous
<1>22. /\ chan[d].buf \in Seq(Vals) /\ Len(chan[d].buf) \in Nat /\ cap[d] \in Nat
       /\ Len(chan[d].buf) <= cap[d] /\ cap \in [Chans -> Nat]
  BY QueueFacts, WaitTypes
<1>1. CASE Quiet
  BY <1>1, <1>20 DEF Quiet
<1>2. ASSUME NEW p \in Progs, NEW a \in Offers, NEW v \in Vals \cup {Nil}, Blocks(p, a, v)
      PROVE  Good(d, chan'[d].send, chan'[d].recv, chan'[d].buf, cap'[d])
  <2>1. /\ chan'[d].recv = IF d \in a.r THEN Append(chan[d].recv, p) ELSE chan[d].recv
        /\ chan'[d].send = IF d \in a.s THEN Append(chan[d].send, p) ELSE chan[d].send
        /\ chan'[d].buf = chan[d].buf /\ cap'[d] = cap[d]
    BY <1>2, QueueFacts, altmarkIs DEF Blocks
  <2>2. /\ d \in a.s => chan[d].recv = <<>> /\ ~(Len(chan[d].buf) < cap[d]) /\ d \notin a.r
        /\ d \in a.r => chan[d].send = <<>> /\ chan[d].buf = <<>>
    BY <1>2 DEF Blocks, CanPut, CanGet
  <2>3. CASE d \in a.s
    <3>1. chan'[d].recv = <<>> /\ Len(chan[d].buf) = cap[d]
      BY <1>22, <2>1, <2>2, <2>3
    <3>2. cap[d] > 0 => chan[d].buf # <<>>
      BY <1>22, <3>1
    <3> QED
      BY <2>1, <3>1, <3>2
  <2>4. CASE d \in a.r
    BY <2>1, <2>2, <2>4
  <2>5. CASE d \notin a.s /\ d \notin a.r
    BY <1>20, <2>1, <2>5
  <2> QED
    BY <2>3, <2>4, <2>5
<1>3. ASSUME NEW q \in Progs, Leaves(q), chan'[d].buf = chan[d].buf, cap' = cap
      PROVE  Good(d, chan'[d].send, chan'[d].recv, chan'[d].buf, cap'[d])
  BY <1>3, <1>20, LeavesEmpty
<1>4. ASSUME NEW c \in Chans, NEW v \in Vals, Puts(c, v)
      PROVE  Good(d, chan'[d].send, chan'[d].recv, chan'[d].buf, cap'[d])
  <2>1. /\ chan'[d].send = chan[d].send /\ chan'[d].recv = chan[d].recv
        /\ chan'[d].buf = IF d = c THEN Append(chan[c].buf, v) ELSE chan[d].buf
        /\ chan[c].recv = <<>>
    BY <1>4 DEF Puts, Stay, Buffer
  <2>2. CASE d # c
    <3>1. cap'[d] = cap[d]
      BY <1>4, <1>22, <2>2 DEF Puts
    <3> QED
      BY <1>20, <2>1, <2>2, <3>1
  <2>3. CASE d = c
    <3>1. chan'[d].recv = <<>> /\ chan'[d].buf # <<>>
      BY <1>22, <2>1, <2>3
    <3>2. CASE chan[d].send = <<>>
      BY <2>1, <3>1, <3>2
    <3>3. CASE chan[d].send # <<>>
      <4>1. cap[d] = 0 \/ Len(chan[d].buf) < cap[d]
        BY <1>4, <2>3 DEF Puts, CanPut
      <4>2. ~(Slots[d] > 0)
        BY <1>20, <1>22, <3>3, <4>1 DEF IInv, CapInv
      <4> QED
        BY <2>1, <3>1, <4>2
    <3> QED
      BY <3>2, <3>3
  <2> QED
    BY <2>2, <2>3
<1>5. ASSUME NEW c \in Chans, NEW q \in Progs, Takes(c, q)
      PROVE  Good(d, chan'[d].send, chan'[d].recv, chan'[d].buf, cap'[d])
  <2>1. /\ Leaves(q) /\ cap' = cap /\ chan[c].send # <<>>
        /\ chan'[d].buf = IF d = c
                          THEN IF cap[c] > 0 THEN Append(Tail(chan[c].buf), ptr[q]) ELSE chan[c].buf
                          ELSE chan[d].buf
    BY <1>5 DEF Takes, Buffer
  <2>2. CASE d # c
    BY <1>3, <2>1, <2>2
  <2>3. CASE d = c
    <3>1. chan'[d].recv = <<>>
      BY <1>20, <2>1, <2>3, LeavesEmpty
    <3>2. ptr[q] \in Vals /\ (cap[d] > 0 => chan[d].buf # <<>> /\ (Slots[d] > 0 => Len(chan[d].buf) = cap[d]))
      BY <1>5, <1>20, <2>1, <2>3, HeadWaits DEF Takes
    <3>3. CASE cap[d] > 0
      <4>1. /\ Append(Tail(chan[d].buf), ptr[q]) # <<>>
            /\ Len(Append(Tail(chan[d].buf), ptr[q])) = Len(chan[d].buf)
        BY <1>22, <3>2, <3>3, SMTT(40)
      <4> QED
        BY <2>1, <2>3, <3>1, <3>2, <3>3, <4>1
    <3>4. CASE ~(cap[d] > 0)
      BY <2>1, <3>1, <3>4
    <3> QED
      BY <3>3, <3>4
  <2> QED
    BY <2>2, <2>3
<1>6. ASSUME NEW c \in Chans, Gets(c)
      PROVE  Good(d, chan'[d].send, chan'[d].recv, chan'[d].buf, cap'[d])
  <2>1. /\ chan'[d].send = chan[d].send /\ chan'[d].recv = chan[d].recv /\ cap'[d] = cap[d]
        /\ chan'[d].buf = IF d = c THEN Tail(chan[c].buf) ELSE chan[d].buf
        /\ chan[c].send = <<>> /\ chan[c].buf # <<>>
    BY <1>6 DEF Gets, Stay, Buffer, CanGet
  <2>2. CASE d = c
    BY <1>20, <2>1, <2>2
  <2>3. CASE d # c
    BY <1>20, <2>1, <2>3
  <2> QED
    BY <2>2, <2>3
<1>7. ASSUME NEW c \in Chans, NEW v \in Vals, NEW q \in Progs, Gives(c, v, q)
      PROVE  Leaves(q) /\ chan'[d].buf = chan[d].buf /\ cap' = cap
  BY <1>7 DEF Gives, Buffer
<1>8. ASSUME NEW q \in Progs, Withdraws(q)
      PROVE  Leaves(q) /\ chan'[d].buf = chan[d].buf /\ cap' = cap
  BY <1>8 DEF Withdraws
<1> HIDE DEF Good
<1> QED
  BY <1>1, <1>2, <1>3, <1>4, <1>5, <1>6, <1>7, <1>8 DEF Effect

\* A value through a buffer.
LEMMA AppendConcat ==
  ASSUME NEW r \in Seq(Vals), NEW b \in Seq(Vals), NEW v \in Vals
  PROVE  Append(r \o b, v) = r \o Append(b, v)
  OBVIOUS

LEMMA Through ==
  ASSUME NEW r \in Seq(Vals), NEW b \in Seq(Vals), NEW v \in Vals
  PROVE  /\ Append(r \o b, v) = r \o Append(b, v)
         /\ b # <<>> => /\ r \o b = Append(r, Head(b)) \o Tail(b)
                        /\ Append(r \o b, v) = Append(r, Head(b)) \o Append(Tail(b), v)
                        /\ Head(b) \in Vals /\ Tail(b) \in Seq(Vals)
         /\ b = <<>> => Append(r \o b, v) = Append(r, v) \o b
<1>1. Append(r \o b, v) = r \o Append(b, v)
  BY AppendConcat
<1>2. b # <<>> => /\ r \o b = Append(r, Head(b)) \o Tail(b)
                  /\ Head(b) \in Vals /\ Tail(b) \in Seq(Vals)
  OBVIOUS
<1>3. b # <<>> => Append(r \o b, v) = Append(r, Head(b)) \o Append(Tail(b), v)
  <2>1. SUFFICES ASSUME b # <<>> PROVE Append(r \o b, v) = Append(r, Head(b)) \o Append(Tail(b), v)
    OBVIOUS
  <2> DEFINE r1 == Append(r, Head(b))
             t == Tail(b)
  <2>2. r1 \in Seq(Vals) /\ t \in Seq(Vals) /\ r \o b = r1 \o t
    BY <1>2, <2>1
  <2> HIDE DEF r1, t
  <2>3. Append(r1 \o t, v) = r1 \o Append(t, v)
    BY <2>2, AppendConcat
  <2> QED
    BY <2>2, <2>3 DEF r1, t
<1>4. b = <<>> => Append(r \o b, v) = Append(r, v) \o b
  OBVIOUS
<1> QED
  BY <1>1, <1>2, <1>3, <1>4

LEMMA NextInOrder ==
  ASSUME IInv, Effect
  PROVE  /\ sent' \in [Chans -> Seq(Vals)] /\ rcvd' \in [Chans -> Seq(Vals)]
         /\ InOrder'
<1>20. sent \in [Chans -> Seq(Vals)] /\ rcvd \in [Chans -> Seq(Vals)]
  BY WaitTypes
<1>21. \A c \in Chans : /\ sent[c] = rcvd[c] \o chan[c].buf /\ chan[c].buf \in Seq(Vals)
                        /\ rcvd[c] \in Seq(Vals) /\ sent[c] \in Seq(Vals)
  BY <1>20, QueueFacts DEF IInv, InOrder
<1> DEFINE Goal == /\ sent' \in [Chans -> Seq(Vals)] /\ rcvd' \in [Chans -> Seq(Vals)]
                   /\ InOrder'
<1>1. ASSUME sent' = sent, rcvd' = rcvd, \A d \in Chans : chan'[d].buf = chan[d].buf
      PROVE  Goal
  BY <1>1, <1>20, <1>21 DEF InOrder
\* One channel changes.
<1>2. ASSUME NEW c \in Chans, NEW s \in Seq(Vals), NEW r \in Seq(Vals), NEW b,
             sent' = [sent EXCEPT ![c] = s], rcvd' = [rcvd EXCEPT ![c] = r], Buffer(c, b), s = r \o b
      PROVE  Goal
  <2>1. sent' \in [Chans -> Seq(Vals)] /\ rcvd' \in [Chans -> Seq(Vals)]
    BY <1>2, <1>20
  <2>2. \A d \in Chans : sent'[d] = rcvd'[d] \o chan'[d].buf
    BY <1>2, <1>20, <1>21 DEF Buffer
  <2> QED
    BY <2>1, <2>2 DEF InOrder
<1> HIDE DEF Goal
<1>3. ASSUME Quiet PROVE Goal
  BY <1>1, <1>3 DEF Quiet
<1>4. ASSUME NEW p \in Progs, NEW a \in Offers, NEW v \in Vals \cup {Nil}, Blocks(p, a, v) PROVE Goal
  BY <1>1, <1>4, QueueFacts, altmarkIs DEF Blocks
<1>5. ASSUME NEW c \in Chans, NEW v \in Vals, NEW q \in Progs, Gives(c, v, q) PROVE Goal
  <2>20. /\ sent[c] = rcvd[c] \o chan[c].buf /\ chan[c].buf \in Seq(Vals)
         /\ rcvd[c] \in Seq(Vals) /\ sent[c] \in Seq(Vals)
    BY <1>21
  <2>1. chan[c].buf = <<>>
    BY <1>5 DEF Gives, IInv, NoMissedRendezvous
  <2>2. Append(sent[c], v) = Append(rcvd[c], v) \o chan[c].buf
    BY <2>20, <2>1, Through
  <2>3. Append(sent[c], v) \in Seq(Vals) /\ Append(rcvd[c], v) \in Seq(Vals)
    BY <2>20
  <2> QED
    BY <1>2, <1>5, <2>2, <2>3 DEF Gives
<1>6. ASSUME NEW c \in Chans, NEW v \in Vals, Puts(c, v) PROVE Goal
  <2>20. /\ sent[c] = rcvd[c] \o chan[c].buf /\ chan[c].buf \in Seq(Vals)
         /\ rcvd[c] \in Seq(Vals) /\ sent[c] \in Seq(Vals)
    BY <1>21
  <2>1. Append(sent[c], v) = rcvd[c] \o Append(chan[c].buf, v)
    <3>1. Append(rcvd[c] \o chan[c].buf, v) = rcvd[c] \o Append(chan[c].buf, v)
      BY <2>20, AppendConcat
    <3> QED
      BY <2>20, <3>1
  <2>2. Append(sent[c], v) \in Seq(Vals) /\ rcvd[c] \in Seq(Vals)
    BY <2>20
  <2>3. rcvd' = [rcvd EXCEPT ![c] = rcvd[c]]
    BY <1>6, <1>20 DEF Puts
  <2> QED
    BY <1>2, <1>6, <2>1, <2>2, <2>3 DEF Puts
<1>7. ASSUME NEW c \in Chans, NEW q \in Progs, Takes(c, q) PROVE Goal
  <2>20. /\ sent[c] = rcvd[c] \o chan[c].buf /\ chan[c].buf \in Seq(Vals)
         /\ rcvd[c] \in Seq(Vals) /\ sent[c] \in Seq(Vals)
    BY <1>21
  <2>1. ptr[q] \in Vals /\ (cap[c] > 0 => chan[c].buf # <<>>) /\ (~(cap[c] > 0) => chan[c].buf = <<>>)
    <3>1. ~(cap[c] > 0) => chan[c].buf = <<>>
      BY <2>20, WaitTypes
    <3> QED
      BY <1>7, <3>1, HeadWaits DEF Takes
  <2> DEFINE r == Append(rcvd[c], IF cap[c] > 0 THEN Head(chan[c].buf) ELSE ptr[q])
             b == IF cap[c] > 0 THEN Append(Tail(chan[c].buf), ptr[q]) ELSE chan[c].buf
  <2>2. r \in Seq(Vals) /\ Append(sent[c], ptr[q]) \in Seq(Vals)
    BY <2>20, <2>1
  <2>3. Append(sent[c], ptr[q]) = r \o b
    <3>1. Append(rcvd[c] \o chan[c].buf, ptr[q]) = r \o b
      <4>1. CASE cap[c] > 0
        <5>1. r = Append(rcvd[c], Head(chan[c].buf)) /\ b = Append(Tail(chan[c].buf), ptr[q])
          BY <4>1
        <5>2. chan[c].buf \in Seq(Vals) /\ chan[c].buf # <<>> /\ rcvd[c] \in Seq(Vals) /\ ptr[q] \in Vals
          BY <2>20, <2>1, <4>1
        <5>3. Append(rcvd[c] \o chan[c].buf, ptr[q])
                = Append(rcvd[c], Head(chan[c].buf)) \o Append(Tail(chan[c].buf), ptr[q])
          BY <5>2, Through, ZenonT(60)
        <5> QED
          BY <5>1, <5>3
      <4>2. CASE ~(cap[c] > 0)
        <5>1. r = Append(rcvd[c], ptr[q]) /\ b = chan[c].buf
          BY <4>2
        <5>2. chan[c].buf \in Seq(Vals) /\ chan[c].buf = <<>> /\ rcvd[c] \in Seq(Vals) /\ ptr[q] \in Vals
          BY <2>20, <2>1, <4>2
        <5>3. Append(rcvd[c] \o chan[c].buf, ptr[q]) = Append(rcvd[c], ptr[q]) \o chan[c].buf
          BY <5>2, Through, ZenonT(60)
        <5> QED
          BY <5>1, <5>3
      <4> QED
        BY <4>1, <4>2
    <3> QED
      BY <2>20, <3>1
  <2>4. Buffer(c, b) /\ rcvd' = [rcvd EXCEPT ![c] = r] /\ sent' = [sent EXCEPT ![c] = Append(sent[c], ptr[q])]
    BY <1>7 DEF Takes
  <2> HIDE DEF r, b
  <2> QED
    BY <1>2, <2>2, <2>3, <2>4
<1>8. ASSUME NEW c \in Chans, Gets(c) PROVE Goal
  <2>20. /\ sent[c] = rcvd[c] \o chan[c].buf /\ chan[c].buf \in Seq(Vals)
         /\ rcvd[c] \in Seq(Vals) /\ sent[c] \in Seq(Vals)
    BY <1>21
  <2>1. chan[c].buf # <<>>
    BY <1>8 DEF Gets, CanGet
  <2>2. Head(chan[c].buf) \in Vals /\ sent[c] = Append(rcvd[c], Head(chan[c].buf)) \o Tail(chan[c].buf)
    <3>1. PICK v \in Vals : TRUE
      BY DisAssumption
    <3> QED
      BY <2>20, <2>1, Through
  <2>3. Append(rcvd[c], Head(chan[c].buf)) \in Seq(Vals) /\ sent[c] \in Seq(Vals)
    BY <2>20, <2>2
  <2>4. sent' = [sent EXCEPT ![c] = sent[c]]
    BY <1>8, <1>20 DEF Gets
  <2> QED
    BY <1>2, <1>8, <2>2, <2>3, <2>4 DEF Gets
<1>9. ASSUME NEW q \in Progs, Withdraws(q) PROVE Goal
  BY <1>1, <1>9 DEF Withdraws
<1>10. Goal
  BY <1>3, <1>4, <1>5, <1>6, <1>7, <1>8, <1>9 DEF Effect
<1> QED
  BY <1>10 DEF Goal

----------------------------------------------------------------------------
(* What a step does to processes, groups and kills *)

States == {"none", "ready", "send", "recv", "alt", "release", "broken", "exiting", "dead"}
Calls == [op : {"none", "call", "exit", "kill", "killgrp", "wait"},
          victim : Progs \cup {Nil}, todo : SUBSET Progs, g : Progs \cup {Nil}]

AtHead(p) == runq # <<>> /\ p = Head(runq)

\* p is in call o now, with victim v, todo t and group g.
Does(p, o, v, t, g) ==
    /\ doing' \in [Progs -> Calls]
    /\ \A x \in Progs : x # p => doing'[x] = doing[x]
    /\ doing'[p].op = o /\ doing'[p].victim = v /\ doing'[p].todo = t /\ doing'[p].g = g

\* p goes on after it has dealt with q, by kill or in the loop of killgrp.
Proceeds(p, q, v) ==
    /\ AtHead(p)
    /\ \/ doing[p].op = "none" /\ \E o \in {"none", "kill"} : Does(p, o, v, {}, Nil)
       \/ /\ doing[p].op = "killgrp" /\ q \in doing[p].todo
          /\ Does(p, "killgrp", v, doing[p].todo \ {q}, doing[p].g)

Spawns(p, n) ==
    /\ AtHead(p) /\ group[p] \notin gkilled /\ state[n] = "none"
    /\ state' = [state EXCEPT ![n] = "ready"]
    /\ runq' = Append(runq, n)
    /\ group' = [group EXCEPT ![n] = group[p]]
    /\ UNCHANGED <<want, kill, gkilled, doing, reused>>

\* A spawn into a group that is being killed.
Fails(p) ==
    /\ kill' = [kill EXCEPT ![p] = TRUE]
    /\ UNCHANGED <<state, runq, want, group, gkilled, doing, reused>>

\* p leads a group of its own, in the place of old if that is not p.
Leads(p, old) ==
    /\ AtHead(p) /\ group[p] # p
    /\ group' = [group EXCEPT ![p] = p]
    /\ old # p => \A x \in Progs : group[x] # old
    /\ doing' \in [Progs -> Calls]
    /\ \A x \in Progs :
         /\ doing'[x].op = doing[x].op /\ doing'[x].victim = doing[x].victim
         /\ doing'[x].todo = doing[x].todo
         /\ doing'[x].g = IF doing[x].g = old THEN p ELSE doing[x].g
    /\ gkilled' = gkilled \ {old}
    /\ reused' = IF old = p THEN reused ELSE reused \cup {p}
    /\ UNCHANGED <<state, runq, want, kill>>

\* p releases the interpreter, in call o.
Goes(p, o, v, g) ==
    /\ AtHead(p) /\ doing[p].op \in {"none", "wait"}
    /\ \/ o = "call" /\ v = Nil
       \/ o = "exit" /\ v = p
       \/ o = "wait" /\ v = Nil /\ g \in Progs /\ Led(g)
    /\ \E t \in SUBSET Progs : Does(p, o, v, t, g)
    /\ state' = [state EXCEPT ![p] = "release"]
    /\ runq' = Tail(runq)
    /\ UNCHANGED <<want, kill, group, gkilled, reused>>

\* p runs again, having deleted its victim v.
Returns(p, v) ==
    /\ state[p] = "release" /\ ~Busy /\ v = doing[p].victim
    /\ state' = [q \in Progs |-> IF q = v THEN "dead" ELSE IF q = p THEN "ready" ELSE state[q]]
    /\ group' = [q \in Progs |-> IF q = v THEN Nil ELSE group[q]]
    /\ runq' = IF v = p THEN runq ELSE <<p>> \o runq
    /\ IF doing[p].op \in {"killgrp", "wait"}
       THEN Does(p, doing[p].op, Nil, doing[p].todo, doing[p].g)
       ELSE Does(p, "none", Nil, {}, Nil)
    /\ UNCHANGED <<want, kill, gkilled, reused>>

\* q is told to die.
Dooms(p, q) ==
    /\ Proceeds(p, q, Nil) /\ (q = p \/ state[q] = "release")
    /\ kill' = [kill EXCEPT ![q] = TRUE]
    /\ UNCHANGED <<state, runq, want, group, gkilled, reused>>

\* q is not there any more.
Skips(p, q) ==
    /\ Proceeds(p, q, Nil) /\ state[q] \in {"exiting", "dead", "none"}
    /\ UNCHANGED <<state, runq, want, kill, group, gkilled, reused>>

\* q is taken off every queue, and p releases the interpreter to delete it.
Cuts(p, q) ==
    /\ Proceeds(p, q, q) /\ q # p /\ state[q] \in {"ready", "send", "recv", "alt", "broken"}
    /\ doing'[p].op # "none"
    /\ state' = [state EXCEPT ![q] = "exiting", ![p] = "release"]
    /\ runq' = Without(Tail(runq), q)
    /\ want' = [want EXCEPT ![q] = Nothing]
    /\ UNCHANGED <<kill, group, gkilled, reused>>

\* p begins to kill the group g, and is done with it.
Begins(p, g) ==
    /\ AtHead(p) /\ doing[p].op \in {"none", "wait"} /\ g \in Progs /\ Led(g)
    /\ g \notin gkilled \/ \A x \in Progs : group[x] # g
    /\ gkilled' = gkilled \cup {g}
    /\ Does(p, "killgrp", Nil, Members(g) \ {p}, g)
    /\ UNCHANGED <<state, runq, want, kill, group, reused>>
Ends(p) ==
    /\ AtHead(p) /\ doing[p].op = "killgrp" /\ doing[p].todo = {}
    /\ gkilled' = gkilled \ {doing[p].g}
    /\ Does(p, "none", Nil, {}, Nil)
    /\ UNCHANGED <<state, runq, want, kill, group, reused>>

Turns ==
    /\ ~Busy /\ runq # <<>> /\ runq' = Append(Tail(runq), Head(runq))
    /\ UNCHANGED <<state, want, kill, group, gkilled, doing, reused>>

Move ==
    \/ Talks /\ UNCHANGED <<kill, group, gkilled, doing, reused>>
    \/ \E p \in Progs : Fails(p) \/ Ends(p)
    \/ \E p, n \in Progs : Spawns(p, n) \/ Leads(p, n) \/ Begins(p, n)
    \/ \E p \in Progs, o \in {"call", "exit", "wait"}, v, g \in Progs \cup {Nil} : Goes(p, o, v, g)
    \/ \E p \in Progs, v \in Progs \cup {Nil} : Returns(p, v)
    \/ \E p, q \in Progs : Dooms(p, q) \/ Skips(p, q) \/ Cuts(p, q)
    \/ Turns

LEMMA Types ==
  ASSUME IInv
  PROVE  /\ state \in [Progs -> States] /\ runq \in Seq(Progs) /\ kill \in [Progs -> BOOLEAN]
         /\ group \in [Progs -> Progs \cup {Nil}] /\ gkilled \in SUBSET Progs
         /\ doing \in [Progs -> Calls] /\ reused \in SUBSET Progs
  BY DEF IInv, TypeOK, States, Calls

LEMMA DoesIs ==
  ASSUME IInv, NEW p \in Progs, NEW d \in Calls, doing' = [doing EXCEPT ![p] = d]
  PROVE  Does(p, d.op, d.victim, d.todo, d.g)
  BY Types DEF Does

LEMMA IdleIs ==
  Idle \in Calls /\ Idle.op = "none" /\ Idle.victim = Nil /\ Idle.todo = {} /\ Idle.g = Nil
  BY DEF Idle, Calls

\* The running process deletes nobody.
LEMMA RunnerFree ==
  ASSUME IInv, NEW p, AtHead(p)
  PROVE  p \in Progs /\ state[p] = "ready" /\ want[p] = Nothing /\ doing[p].victim = Nil
<1>1. p \in Progs /\ state[p] = "ready" /\ want[p] = Nothing
  BY Runner DEF AtHead
<1> QED
  BY <1>1 DEF IInv, DoingInv

\* killprog, for kill and for the loop of killgrp.
LEMMA KillMoves ==
  ASSUME IInv, NEW p \in Progs, NEW q \in Progs, AtHead(p), NEW d \in Calls,
         d.victim = Nil, killprog(p, q, d),
         \/ doing[p].op = "none" /\ d.op = "none" /\ d.todo = {} /\ d.g = Nil
            /\ state[q] \notin {"ready", "send", "recv", "alt", "broken"}
         \/ doing[p].op = "none" /\ d.op = "none" /\ d.todo = {} /\ d.g = Nil /\ q = p
         \/ doing[p].op = "none" /\ d.op = "kill" /\ d.todo = {} /\ d.g = Nil
         \/ doing[p].op = "killgrp" /\ q \in doing[p].todo /\ d.op = "killgrp"
            /\ d.todo = doing[p].todo \ {q} /\ d.g = doing[p].g
  PROVE  Dooms(p, q) \/ Skips(p, q) \/ Cuts(p, q)
<1>1. ASSUME doing' = [doing EXCEPT ![p] = d] PROVE Proceeds(p, q, Nil)
  <2>1. Does(p, d.op, Nil, d.todo, d.g)
    BY <1>1, DoesIs
  <2> QED
    BY <2>1 DEF Proceeds
<1>2. CASE /\ q = p \/ state[q] = "release"
           /\ kill' = [kill EXCEPT ![q] = TRUE]
           /\ doing' = [doing EXCEPT ![p] = d]
           /\ UNCHANGED <<state, runq, want, group, gkilled, reused>>
  BY <1>1, <1>2 DEF Dooms
<1>3. CASE /\ state[q] \in {"exiting", "dead"}
           /\ doing' = [doing EXCEPT ![p] = d]
           /\ UNCHANGED <<state, runq, want, kill, group, gkilled, reused>>
  BY <1>1, <1>3 DEF Skips
<1>4. CASE /\ q # p /\ state[q] \in {"ready", "send", "recv", "alt", "broken"}
           /\ state' = [state EXCEPT ![q] = "exiting", ![p] = "release"]
           /\ runq' = Without(Tail(runq), q)
           /\ want' = [want EXCEPT ![q] = Nothing]
           /\ doing' = [doing EXCEPT ![p] = [d EXCEPT !.victim = q]]
           /\ UNCHANGED <<kill, group, gkilled, reused>>
  <2> DEFINE e == [d EXCEPT !.victim = q]
  <2>1. e \in Calls /\ e.op = d.op /\ e.victim = q /\ e.todo = d.todo /\ e.g = d.g
    BY DEF Calls
  <2>2. doing' = [doing EXCEPT ![p] = e]
    BY <1>4
  <2> HIDE DEF e
  <2>3. Does(p, d.op, q, d.todo, d.g)
    BY <2>1, <2>2, DoesIs
  <2>4. d.op # "none"
    BY <1>4
  <2>5. Proceeds(p, q, q)
    BY <1>4, <2>3 DEF Proceeds
  <2> QED
    BY <1>4, <2>3, <2>4, <2>5 DEF Cuts, Does
<1> QED
  BY <1>2, <1>3, <1>4 DEF killprog, procvars

\* Every step is one of these moves.
LEMMA Moves ==
  ASSUME IInv, [Next]_vars
  PROVE  Move
<1>20. /\ doing \in [Progs -> Calls] /\ group \in [Progs -> Progs \cup {Nil}]
       /\ \A p \in Progs : doing[p] \in Calls /\ doing[p].todo \subseteq Progs
                           /\ doing[p].victim \in Progs \cup {Nil} /\ doing[p].g \in Progs \cup {Nil}
  BY Types DEF Calls
<1>1. CASE TalkStep
  BY <1>1, TalkEffect DEF Move
<1>2. ASSUME NEW p \in Progs, NEW n \in Progs, newprog(p, n) PROVE Move
  <2>1. AtHead(p)
    BY <1>2 DEF newprog, Running, AtHead
  <2>2. CASE kill' = [kill EXCEPT ![p] = TRUE] /\ UNCHANGED <<state, runq, group>>
    BY <1>2, <2>2 DEF newprog, Fails, Move
  <2>3. CASE /\ group[p] \notin gkilled /\ state[n] = "none"
             /\ state' = [state EXCEPT ![n] = "ready"]
             /\ runq' = Append(runq, n)
             /\ group' = [group EXCEPT ![n] = group[p]]
             /\ UNCHANGED kill
    BY <1>2, <2>1, <2>3 DEF newprog, Spawns, Move
  <2> QED
    BY <1>2, <2>2, <2>3 DEF newprog
<1>3. ASSUME NEW p \in Progs, NEW q \in Progs, Kill(p, q) PROVE Move
  <2>1. AtHead(p) /\ doing[p].op = "none"
    BY <1>3 DEF Kill, Running, AtHead
  <2> DEFINE k == q # p /\ state[q] \in {"ready", "send", "recv", "alt", "broken"}
             e == [Idle EXCEPT !.op = "kill"]
  <2>2. /\ Idle \in Calls /\ Idle.op = "none" /\ Idle.victim = Nil /\ Idle.todo = {} /\ Idle.g = Nil
        /\ e \in Calls /\ e.op = "kill" /\ e.victim = Nil /\ e.todo = {} /\ e.g = Nil
    BY DEF Idle, Calls
  <2>3. killprog(p, q, IF k THEN e ELSE Idle)
    BY <1>3 DEF Kill
  <2> HIDE DEF e
  <2>4. CASE k
    <3>1. killprog(p, q, e)
      BY <2>3, <2>4
    <3> QED
      BY <2>1, <2>2, <3>1, KillMoves DEF Move
  <2>5. CASE ~k
    <3>1. killprog(p, q, Idle)
      BY <2>3, <2>5
    <3>2. q = p \/ state[q] \notin {"ready", "send", "recv", "alt", "broken"}
      BY <2>5
    <3> QED
      BY <2>1, <2>2, <3>1, <3>2, KillMoves DEF Move
  <2> QED
    BY <2>4, <2>5
<1>4. ASSUME NEW p \in Progs, NEW q \in Progs, killgrp(p, q) PROVE Move
  <2> DEFINE g == group[q]
             b == [Idle EXCEPT !.op = "killgrp", !.g = g, !.todo = Members(g) \ {p}]
             w == [Idle EXCEPT !.op = "wait", !.g = g]
  <2>1. AtHead(p) /\ doing[p].op = "none" /\ g # Nil
    BY <1>4 DEF killgrp, Running, AtHead
  <2>2. g \in Progs /\ Led(g)
    BY <1>20, <2>1 DEF IInv, GroupInv
  <2>3. /\ b \in Calls /\ b.op = "killgrp" /\ b.victim = Nil /\ b.todo = Members(g) \ {p} /\ b.g = g
        /\ w \in Calls /\ w.op = "wait" /\ w.victim = Nil /\ w.todo = {} /\ w.g = g
    <3>1. Members(g) \ {p} \in SUBSET Progs
      BY DEF Members
    <3> QED
      BY <2>2, <3>1 DEF Idle, Calls
  <2>4. CASE /\ g \notin gkilled /\ gkilled' = gkilled \cup {g}
             /\ doing' = [doing EXCEPT ![p] = b]
             /\ UNCHANGED <<state, runq>>
    <3> HIDE DEF b
    <3>1. Does(p, "killgrp", Nil, Members(g) \ {p}, g)
      BY <2>3, <2>4, DoesIs
    <3>2. Begins(p, g)
      BY <1>4, <2>1, <2>2, <2>4, <3>1 DEF Begins, killgrp
    <3> QED
      BY <2>2, <3>2 DEF Move
  <2>5. CASE release(p, w) /\ UNCHANGED gkilled
    <3> HIDE DEF w
    <3>1. Does(p, "wait", Nil, {}, g)
      BY <2>3, <2>5, DoesIs DEF release
    <3>2. Goes(p, "wait", Nil, g)
      BY <1>4, <2>1, <2>2, <2>5, <3>1 DEF Goes, killgrp, release
    <3> QED
      BY <2>2, <3>2 DEF Move
  <2> QED
    BY <1>4, <2>4, <2>5 DEF killgrp
<1>5. ASSUME NEW p \in Progs, newgrp(p) PROVE Move
  <2>1. PICK old \in {p} \cup {g \in Known : Freed(g)} :
          /\ doing' = [x \in Progs |-> IF doing[x].g = old THEN [doing[x] EXCEPT !.g = p] ELSE doing[x]]
          /\ gkilled' = gkilled \ {old}
          /\ reused' = IF old = p THEN reused ELSE reused \cup {p}
    BY <1>5 DEF newgrp
  <2>2. /\ AtHead(p) /\ group[p] # p /\ group' = [group EXCEPT ![p] = p]
        /\ UNCHANGED <<state, runq, want, kill>>
    BY <1>5 DEF newgrp, Running, AtHead, procvars
  <2>3. Known \subseteq Progs
    BY DEF Known, IInv, GroupInv
  <2>4. old \in Progs /\ (old # p => \A x \in Progs : group[x] # old)
    BY <2>3 DEF Freed, Members
  <2>5. ASSUME NEW d \in Calls
        PROVE  LET e == [d EXCEPT !.g = p]
               IN  e \in Calls /\ e.op = d.op /\ e.victim = d.victim /\ e.todo = d.todo /\ e.g = p
    BY DEF Calls
  <2>6. doing' \in [Progs -> Calls]
    BY <1>20, <2>1, <2>5
  <2>7. \A x \in Progs :
          /\ doing'[x].op = doing[x].op /\ doing'[x].victim = doing[x].victim
          /\ doing'[x].todo = doing[x].todo
          /\ doing'[x].g = IF doing[x].g = old THEN p ELSE doing[x].g
    BY <1>20, <2>1, <2>5
  <2>8. Leads(p, old)
    BY <2>1, <2>2, <2>4, <2>6, <2>7 DEF Leads
  <2> QED
    BY <2>4, <2>8 DEF Move
<1>6. ASSUME NEW p \in Progs, Syscall(p) PROVE Move
  <2> DEFINE e == [Idle EXCEPT !.op = "call"]
  <2>1. e \in Calls /\ e.op = "call" /\ e.victim = Nil /\ e.todo = {} /\ e.g = Nil
    BY DEF Idle, Calls
  <2>2. AtHead(p) /\ doing[p].op = "none" /\ release(p, e) /\ UNCHANGED <<want, kill, group, gkilled, reused>>
    BY <1>6 DEF Syscall, Running, AtHead
  <2> HIDE DEF e
  <2>3. Does(p, "call", Nil, {}, Nil)
    BY <2>1, <2>2, DoesIs DEF release
  <2>4. Goes(p, "call", Nil, Nil)
    BY <2>2, <2>3 DEF Goes, release
  <2> QED
    BY <2>4 DEF Move
<1>7. ASSUME NEW p \in Progs, progexit(p) PROVE Move
  <2> DEFINE e == [Idle EXCEPT !.op = "exit", !.victim = p]
  <2>1. e \in Calls /\ e.op = "exit" /\ e.victim = p /\ e.todo = {} /\ e.g = Nil
    BY DEF Idle, Calls
  <2>2. AtHead(p) /\ doing[p].op = "none" /\ release(p, e) /\ UNCHANGED <<want, kill, group, gkilled, reused>>
    BY <1>7 DEF progexit, AtHead
  <2> HIDE DEF e
  <2>3. Does(p, "exit", p, {}, Nil)
    BY <2>1, <2>2, DoesIs DEF release
  <2>4. Goes(p, "exit", p, Nil)
    BY <2>2, <2>3 DEF Goes, release
  <2> QED
    BY <2>4 DEF Move
<1>8. ASSUME NEW p \in Progs, acquire(p) PROVE Move
  <2> DEFINE e == [doing[p] EXCEPT !.victim = Nil]
             d == IF doing[p].op \in {"killgrp", "wait"} THEN e ELSE Idle
  <2>1. /\ e \in Calls /\ e.op = doing[p].op /\ e.victim = Nil
        /\ e.todo = doing[p].todo /\ e.g = doing[p].g
    BY <1>20 DEF Calls
  <2>2. doing' = [doing EXCEPT ![p] = d]
    BY <1>8, <1>20 DEF acquire
  <2> HIDE DEF e
  <2>3. IF doing[p].op \in {"killgrp", "wait"}
        THEN Does(p, doing[p].op, Nil, doing[p].todo, doing[p].g)
        ELSE Does(p, "none", Nil, {}, Nil)
    <3>1. CASE doing[p].op \in {"killgrp", "wait"}
      BY <2>1, <2>2, <3>1, DoesIs
    <3>2. CASE doing[p].op \notin {"killgrp", "wait"}
      BY <2>2, <3>2, IdleIs, DoesIs
    <3> QED
      BY <3>1, <3>2
  <2>4. Returns(p, doing[p].victim)
    BY <1>8, <2>3 DEF Returns, acquire
  <2> QED
    BY <1>20, <2>4 DEF Move
<1>9. ASSUME NEW p \in Progs, killgrp_again(p) PROVE Move
  <2> DEFINE g == doing[p].g
             b == [doing[p] EXCEPT !.op = "killgrp", !.todo = Members(g) \ {p}]
  <2>1. AtHead(p) /\ doing[p].op = "wait" /\ UNCHANGED <<want, kill, group, reused>>
    BY <1>9 DEF killgrp_again, AtHead
  <2>2. g \in Progs /\ Led(g) /\ doing[p].victim = Nil
    BY <2>1, RunnerFree DEF IInv, GroupInv
  <2>3. /\ b \in Calls /\ b.op = "killgrp" /\ b.victim = Nil /\ b.todo = Members(g) \ {p} /\ b.g = g
    <3>1. Members(g) \ {p} \in SUBSET Progs
      BY DEF Members
    <3> QED
      <4> DEFINE d == doing[p]
                 t == Members(g) \ {p}
      <4>1. d \in Calls /\ t \in SUBSET Progs /\ d.victim = Nil
        BY <1>20, <2>2, <3>1
      <4> HIDE DEF d, t
      <4>2. [d EXCEPT !.op = "killgrp", !.todo = t] \in Calls
        BY <4>1 DEF Calls
      <4>3. LET e == [d EXCEPT !.op = "killgrp", !.todo = t]
            IN  e.op = "killgrp" /\ e.victim = Nil /\ e.todo = t /\ e.g = d.g
        BY <4>1 DEF Calls
      <4> QED
        BY <4>2, <4>3 DEF d, t
  <2>4. CASE release(p, doing[p]) /\ UNCHANGED gkilled
    <3>1. release(p, doing[p]) /\ UNCHANGED gkilled
      BY <2>4
    <3>2. Does(p, "wait", Nil, doing[p].todo, g)
      BY <1>20, <2>1, <2>2, <3>1, DoesIs DEF release
    <3>3. doing[p].todo \in SUBSET Progs
      BY <1>20
    <3>4. Goes(p, "wait", Nil, g)
      BY <2>1, <2>2, <3>1, <3>2, <3>3 DEF Goes, release
    <3> QED
      BY <2>2, <3>4 DEF Move
  <2>5. CASE /\ g \notin gkilled \/ Freed(g)
             /\ gkilled' = gkilled \cup {g}
             /\ doing' = [doing EXCEPT ![p] = [doing[p] EXCEPT !.op = "killgrp",
                                                              !.todo = Members(g) \ {p}]]
             /\ UNCHANGED <<state, runq>>
    <3>1. /\ gkilled' = gkilled \cup {g} /\ doing' = [doing EXCEPT ![p] = b]
          /\ UNCHANGED <<state, runq>>
      BY <2>5
    <3>4. g \notin gkilled \/ \A x \in Progs : group[x] # g
      BY <2>5 DEF Freed, Members
    <3> HIDE DEF b
    <3>2. Does(p, "killgrp", Nil, Members(g) \ {p}, g)
      BY <2>3, <3>1, DoesIs
    <3>3. Begins(p, g)
      BY <2>1, <2>2, <3>1, <3>2, <3>4 DEF Begins
    <3> QED
      BY <2>2, <3>3 DEF Move
  <2> QED
    BY <1>9, <1>20, <2>4, <2>5 DEF killgrp_again
<1>10. ASSUME NEW p \in Progs, killgrp_next(p) PROVE Move
  <2>1. AtHead(p) /\ doing[p].op = "killgrp" /\ doing[p].victim = Nil
    BY <1>10, RunnerFree DEF killgrp_next, AtHead
  <2>2. PICK f \in doing[p].todo :
          LET d == [doing[p] EXCEPT !.todo = doing[p].todo \ {f}] IN
          IF Exists(f) THEN killprog(p, f, d)
          ELSE /\ doing' = [doing EXCEPT ![p] = d]
               /\ UNCHANGED <<procvars, chanvars, group, gkilled, reused, history>>
    BY <1>10, <1>20 DEF killgrp_next
  <2> DEFINE d == [doing[p] EXCEPT !.todo = doing[p].todo \ {f}]
  <2>3. f \in Progs
    BY <1>20
  <2>4. /\ d \in Calls /\ d.op = "killgrp" /\ d.victim = Nil
        /\ d.todo = doing[p].todo \ {f} /\ d.g = doing[p].g
    <3>1. doing[p].todo \ {f} \in SUBSET Progs
      BY <1>20
    <3> QED
      BY <1>20, <2>1, <3>1 DEF Calls
  <2>5. CASE Exists(f)
    <3>1. killprog(p, f, d)
      BY <2>2, <2>5
    <3> HIDE DEF d
    <3> QED
      BY <2>1, <2>3, <2>4, <3>1, KillMoves DEF Move
  <2>6. CASE ~Exists(f)
    <3>1. doing' = [doing EXCEPT ![p] = d] /\ UNCHANGED <<state, runq, want, kill, group, gkilled, reused>>
      BY <2>2, <2>6 DEF procvars
    <3> HIDE DEF d
    <3>2. Does(p, "killgrp", Nil, doing[p].todo \ {f}, doing[p].g)
      BY <2>4, <3>1, DoesIs
    <3>3. Proceeds(p, f, Nil)
      BY <2>1, <3>2 DEF Proceeds
    <3>4. Skips(p, f)
      BY <2>6, <3>1, <3>3 DEF Skips, Exists
    <3> QED
      BY <2>3, <3>4 DEF Move
  <2> QED
    BY <2>5, <2>6
<1>11. ASSUME NEW p \in Progs, killgrp_end(p) PROVE Move
  <2>1. /\ AtHead(p) /\ doing[p].op = "killgrp" /\ doing[p].todo = {}
        /\ gkilled' = gkilled \ {doing[p].g} /\ doing' = [doing EXCEPT ![p] = Idle]
        /\ UNCHANGED <<state, runq, want, kill, group, reused>>
    BY <1>11 DEF killgrp_end, AtHead, procvars
  <2>2. Does(p, "none", Nil, {}, Nil)
    BY <2>1, IdleIs, DoesIs
  <2> QED
    BY <2>1, <2>2 DEF Ends, Move
<1>12. CASE Rotate
  <2>1. runq # <<>>
    BY <1>12, Types DEF Rotate
  <2> QED
    BY <1>12, <2>1 DEF Rotate, Turns, Move, grpvars
<1>13. CASE UNCHANGED vars
  BY <1>13 DEF vars, Talks, Quiet, Runs, Move
<1> QED
  BY <1>1, <1>2, <1>3, <1>4, <1>5, <1>6, <1>7, <1>8, <1>9, <1>10, <1>11, <1>12, <1>13
     DEF Next, TalkStep

\* What talking does to the processes: nothing, or the running one stops, or
\* one that waited is ready.
Waits == {"send", "recv", "alt"}
Halts(p, h) ==
    /\ AtHead(p) /\ doing[p].op = "none"
    /\ state' = [state EXCEPT ![p] = h]
    /\ runq' = Tail(runq)
    /\ \A x \in Progs : x # p => want'[x] = want[x]
    /\ want'[p] # Nothing <=> h \in Waits
Awakes(q) ==
    /\ state[q] \in Waits
    /\ Wakes(q)
    /\ want' = [want EXCEPT ![q] = Nothing]

LEMMA TalkMoves ==
  ASSUME IInv, Talks
  PROVE  \/ Runs /\ UNCHANGED want
         \/ \E p \in Progs, h \in Waits \cup {"broken"} : Halts(p, h)
         \/ \E q \in Progs : Awakes(q)
<1>20. want \in [Progs -> Offers]
  BY WaitTypes
<1>21. \A p \in Progs : want[p] # Nothing <=> state[p] \in Waits
  BY DEF IInv, RunqMatches, Waits
<1>1. ASSUME NEW p \in Progs, Quiet, Breaks(p) PROVE Halts(p, "broken")
  <2>1. AtHead(p) /\ want[p] = Nothing
    BY <1>1, RunnerFree DEF Breaks, AtHead
  <2> QED
    BY <1>1, <2>1 DEF Quiet, Breaks, Halts, Waits
<1>2. ASSUME NEW p \in Progs, NEW a \in Offers, NEW v \in Vals \cup {Nil}, Blocks(p, a, v), Stops(p)
      PROVE  \E h \in Waits : Halts(p, h)
  <2>1. PICK h \in Waits : state' = [state EXCEPT ![p] = h]
    BY <1>2 DEF Stops, Waits
  <2>2. want'[p] # Nothing /\ \A x \in Progs : x # p => want'[x] = want[x]
    BY <1>2, <1>20 DEF Blocks
  <2>3. Halts(p, h)
    BY <1>2, <2>1, <2>2 DEF Stops, Halts, AtHead
  <2> QED
    BY <2>1, <2>3
<1>3. ASSUME NEW c \in Chans, NEW v \in Vals, NEW q \in Progs, Gives(c, v, q), Wakes(q)
      PROVE  Awakes(q)
  <2>1. c \in want[q].r
    BY <1>3, HeadWaits DEF Gives
  <2>2. want[q] # Nothing
    BY <2>1, NoOffer
  <2> QED
    BY <1>3, <1>21, <2>2 DEF Gives, Leaves, Awakes
<1>4. ASSUME NEW c \in Chans, NEW q \in Progs, Takes(c, q), Wakes(q)
      PROVE  Awakes(q)
  <2>1. c \in want[q].s
    BY <1>4, HeadWaits DEF Takes
  <2>2. want[q] # Nothing
    BY <2>1, NoOffer
  <2> QED
    BY <1>4, <1>21, <2>2 DEF Takes, Leaves, Awakes
<1>5. ASSUME NEW c \in Chans, NEW v \in Vals, Puts(c, v) \/ Gets(c) PROVE UNCHANGED want
  BY <1>5 DEF Puts, Gets, Stay
<1>6. Quiet => UNCHANGED want
  BY DEF Quiet
<1>7. \E v \in Vals : TRUE
  BY DisAssumption
<1> QED
  BY <1>1, <1>2, <1>3, <1>4, <1>5, <1>6, <1>7 DEF Talks

----------------------------------------------------------------------------
(* The processes' part of the invariant *)

Ready == {p \in Progs : state[p] = "ready"}

\* Off the run queue, and onto it.
LEMMA OffRunq ==
  ASSUME IInv, NEW p, AtHead(p), NEW h \in States, h # "ready",
         state' = [state EXCEPT ![p] = h], runq' = Tail(runq)
  PROVE  /\ state' \in [Progs -> States]
         /\ runq' \in Seq(Progs) /\ Distinct(runq') /\ Elems(runq') = Ready'
<1>1. p \in Progs /\ state[p] = "ready"
  BY RunnerFree
<1>2. state \in [Progs -> States] /\ runq \in Seq(Progs) /\ Distinct(runq) /\ Elems(runq) = Ready
  BY Types DEF IInv, RunqMatches, Distinct, Elems, Ready
<1>3. state' \in [Progs -> States] /\ Ready' = Ready \ {p}
  BY <1>1, <1>2 DEF Ready
<1>4. Tail(runq) \in Seq(Progs) /\ Distinct(Tail(runq)) /\ Elems(Tail(runq)) = Elems(runq) \ {p}
  BY <1>2, LeaveHead DEF AtHead
<1> QED
  BY <1>2, <1>3, <1>4

LEMMA OntoRunq ==
  ASSUME IInv, NEW q \in Progs, state[q] # "ready",
         state' = [state EXCEPT ![q] = "ready"], runq' = Append(runq, q)
  PROVE  /\ state' \in [Progs -> States]
         /\ runq' \in Seq(Progs) /\ Distinct(runq') /\ Elems(runq') = Ready'
<1>2. state \in [Progs -> States] /\ runq \in Seq(Progs) /\ Distinct(runq) /\ Elems(runq) = Ready
  BY Types DEF IInv, RunqMatches, Distinct, Elems, Ready
<1>3. state' \in [Progs -> States] /\ Ready' = Ready \cup {q} /\ q \notin Ready
  BY <1>2 DEF Ready, States
<1>4. Append(runq, q) \in Seq(Progs) /\ Distinct(Append(runq, q)) /\ Elems(Append(runq, q)) = Elems(runq) \cup {q}
  BY <1>2, <1>3, JoinEnd
<1> QED
  BY <1>2, <1>3, <1>4

LEMMA NextListed ==
  ASSUME IInv, Move
  PROVE  /\ state' \in [Progs -> States]
         /\ runq' \in Seq(Progs) /\ Distinct(runq') /\ Elems(runq') = Ready'
<1> DEFINE Goal == /\ state' \in [Progs -> States]
                   /\ runq' \in Seq(Progs) /\ Distinct(runq') /\ Elems(runq') = Ready'
<1>20. state \in [Progs -> States] /\ runq \in Seq(Progs) /\ Distinct(runq) /\ Elems(runq) = Ready
  BY Types DEF IInv, RunqMatches, Distinct, Elems, Ready
<1>1. ASSUME UNCHANGED <<state, runq>> PROVE Goal
  <2>1. Ready' = Ready
    BY <1>1 DEF Ready
  <2> QED
    BY <1>1, <1>20, <2>1
<1>2. ASSUME NEW p \in Progs, NEW h \in Waits \cup {"broken"}, Halts(p, h) PROVE Goal
  <2>1. h \in States /\ h # "ready"
    BY DEF Waits, States
  <2> QED
    BY <1>2, <2>1, OffRunq DEF Halts
<1>3. ASSUME NEW q \in Progs, Awakes(q) PROVE Goal
  BY <1>3, OntoRunq DEF Awakes, Wakes, Waits
<1>4. ASSUME NEW p \in Progs, NEW n \in Progs, Spawns(p, n) PROVE Goal
  BY <1>4, OntoRunq DEF Spawns
<1>5. ASSUME NEW p \in Progs, NEW o, NEW v, NEW g, Goes(p, o, v, g) PROVE Goal
  <2>1. "release" \in States
    BY DEF States
  <2> QED
    BY <1>5, <2>1, OffRunq DEF Goes
<1>6. ASSUME NEW p \in Progs, NEW v \in Progs \cup {Nil}, Returns(p, v) PROVE Goal
  <2>1. /\ state[p] = "release"
        /\ \A q \in Progs : state'[q] = IF q = v THEN "dead" ELSE IF q = p THEN "ready" ELSE state[q]
        /\ state' \in [Progs -> States]
    BY <1>6, <1>20 DEF Returns, States
  <2>2. v # p => v = Nil \/ state[v] # "ready"
    BY <1>6 DEF Returns, IInv, DoingInv
  <2>3. Nil \notin Progs
    BY DisAssumption
  <2>4. CASE v = p
    <3>1. Ready' = Ready /\ runq' = runq
      BY <1>6, <2>1, <2>4 DEF Returns, Ready
    <3> QED
      BY <1>20, <2>1, <3>1
  <2>5. CASE v # p
    <3>1. Ready' = Ready \cup {p} /\ p \notin Ready /\ runq' = <<p>> \o runq
      BY <1>6, <2>1, <2>2, <2>3, <2>5 DEF Returns, Ready
    <3>2. /\ <<p>> \o runq \in Seq(Progs) /\ Distinct(<<p>> \o runq)
          /\ Elems(<<p>> \o runq) = Elems(runq) \cup {p}
      BY <1>20, <3>1, JoinHead
    <3> QED
      BY <1>20, <2>1, <3>1, <3>2
  <2> QED
    BY <2>4, <2>5
<1>7. ASSUME NEW p \in Progs, NEW q \in Progs, Cuts(p, q) PROVE Goal
  <2>1. AtHead(p) /\ state[p] = "ready" /\ q # p
    BY <1>7, RunnerFree DEF Cuts, Proceeds
  <2>2. /\ \A x \in Progs : state'[x] = IF x = p THEN "release" ELSE IF x = q THEN "exiting" ELSE state[x]
        /\ state' \in [Progs -> States]
    BY <1>7, <1>20 DEF Cuts, States
  <2>3. Tail(runq) \in Seq(Progs) /\ Distinct(Tail(runq)) /\ Elems(Tail(runq)) = Elems(runq) \ {p}
    BY <1>20, <2>1, LeaveHead DEF AtHead
  <2>4. /\ Without(Tail(runq), q) \in Seq(Progs) /\ Distinct(Without(Tail(runq), q))
        /\ Elems(Without(Tail(runq), q)) = Elems(Tail(runq)) \ {q}
    BY <2>3, WithoutOf
  <2>5. Ready' = (Ready \ {p}) \ {q}
    BY <2>1, <2>2 DEF Ready
  <2>6. runq' = Without(Tail(runq), q)
    BY <1>7 DEF Cuts
  <2> QED
    BY <1>20, <2>2, <2>3, <2>4, <2>5, <2>6
<1>8. ASSUME Turns PROVE Goal
  <2> DEFINE t == Tail(runq)
             p == Head(runq)
  <2>1. runq # <<>> /\ runq' = Append(t, p) /\ state' = state
    BY <1>8 DEF Turns
  <2>2. p \in Progs /\ p \in Elems(runq)
    BY <1>20, <2>1, ElemsOf
  <2>3. t \in Seq(Progs) /\ Distinct(t) /\ Elems(t) = Elems(runq) \ {p}
    BY <1>20, <2>1, LeaveHead
  <2> HIDE DEF t, p
  <2>4. Append(t, p) \in Seq(Progs) /\ Distinct(Append(t, p)) /\ Elems(Append(t, p)) = Elems(t) \cup {p}
    BY <2>2, <2>3, JoinEnd
  <2>5. Ready' = Ready
    BY <2>1 DEF Ready
  <2> QED
    BY <1>20, <2>1, <2>2, <2>3, <2>4, <2>5
<1> HIDE DEF Goal
<1>9. ASSUME Talks PROVE Goal
  BY <1>1, <1>2, <1>3, <1>9, TalkMoves DEF Runs
<1>10. ASSUME NEW p \in Progs, NEW q \in Progs,
              \/ Fails(p) \/ Leads(p, q) \/ Ends(p) \/ Begins(p, q) \/ Dooms(p, q) \/ Skips(p, q)
       PROVE  Goal
  BY <1>1, <1>10 DEF Fails, Leads, Ends, Begins, Dooms, Skips
<1>11. Goal
  BY <1>4, <1>5, <1>6, <1>7, <1>8, <1>9, <1>10 DEF Move
<1> QED
  BY <1>11 DEF Goal

\* Who waits is in a blocked state.
LEMMA NextBlocked ==
  ASSUME IInv, Move
  PROVE  \A x \in Progs : want'[x] # Nothing <=> state'[x] \in Waits
<1>20. want \in [Progs -> Offers] /\ state \in [Progs -> States]
  BY WaitTypes, Types
<1>21. \A x \in Progs : want[x] # Nothing <=> state[x] \in Waits
  BY DEF IInv, RunqMatches, Waits
<1> DEFINE Goal == \A x \in Progs : want'[x] # Nothing <=> state'[x] \in Waits
<1>1. ASSUME UNCHANGED <<state, want>> PROVE Goal
  BY <1>1, <1>21
<1>2. ASSUME NEW p \in Progs, NEW h \in Waits \cup {"broken"}, Halts(p, h) PROVE Goal
  <2>1. state'[p] = h /\ \A x \in Progs : x # p => state'[x] = state[x]
    BY <1>2, <1>20 DEF Halts
  <2> QED
    BY <1>2, <1>21, <2>1 DEF Halts
<1>3. ASSUME NEW q \in Progs, Awakes(q) PROVE Goal
  <2>1. /\ state'[q] = "ready" /\ \A x \in Progs : x # q => state'[x] = state[x]
        /\ want'[q] = Nothing /\ \A x \in Progs : x # q => want'[x] = want[x]
    BY <1>3, <1>20 DEF Awakes, Wakes
  <2> QED
    BY <1>21, <2>1 DEF Waits
<1>4. ASSUME NEW p \in Progs, NEW n \in Progs, Spawns(p, n) PROVE Goal
  <2>1. /\ state'[n] = "ready" /\ state[n] = "none" /\ want' = want
        /\ \A x \in Progs : x # n => state'[x] = state[x]
    BY <1>4, <1>20 DEF Spawns
  <2> QED
    BY <1>21, <2>1 DEF Waits
<1>5. ASSUME NEW p \in Progs, NEW o, NEW v, NEW g, Goes(p, o, v, g) PROVE Goal
  <2>1. /\ state'[p] = "release" /\ want[p] = Nothing /\ want' = want
        /\ \A x \in Progs : x # p => state'[x] = state[x]
    BY <1>5, <1>20, RunnerFree DEF Goes
  <2> QED
    BY <1>21, <2>1 DEF Waits
<1>6. ASSUME NEW p \in Progs, NEW v \in Progs \cup {Nil}, Returns(p, v) PROVE Goal
  <2>1. /\ state[p] = "release" /\ want' = want
        /\ \A q \in Progs : state'[q] = IF q = v THEN "dead" ELSE IF q = p THEN "ready" ELSE state[q]
    BY <1>6 DEF Returns
  <2>2. v # p => v = Nil \/ state[v] \in {"exiting", "dead"}
    BY <1>6 DEF Returns, IInv, DoingInv
  <2>3. Nil \notin Progs
    BY DisAssumption
  <2> QED
    BY <1>21, <2>1, <2>2, <2>3 DEF Waits
<1>7. ASSUME NEW p \in Progs, NEW q \in Progs, Cuts(p, q) PROVE Goal
  <2>1. AtHead(p) /\ want[p] = Nothing /\ q # p
    BY <1>7, RunnerFree DEF Cuts, Proceeds
  <2>2. /\ \A x \in Progs : state'[x] = IF x = p THEN "release" ELSE IF x = q THEN "exiting" ELSE state[x]
        /\ \A x \in Progs : want'[x] = IF x = q THEN Nothing ELSE want[x]
    BY <1>7, <1>20 DEF Cuts
  <2> QED
    BY <1>21, <2>1, <2>2 DEF Waits
<1> HIDE DEF Goal
<1>9. ASSUME Talks PROVE Goal
  BY <1>1, <1>2, <1>3, <1>9, TalkMoves DEF Runs
<1>10. ASSUME NEW p \in Progs, NEW q \in Progs,
              \/ Fails(p) \/ Leads(p, q) \/ Ends(p) \/ Begins(p, q) \/ Dooms(p, q) \/ Skips(p, q)
              \/ Turns
       PROVE  Goal
  BY <1>1, <1>10 DEF Fails, Leads, Ends, Begins, Dooms, Skips, Turns
<1>11. Goal
  BY <1>4, <1>5, <1>6, <1>7, <1>9, <1>10, DisAssumption DEF Move
<1> QED
  BY <1>11 DEF Goal

\* Calls: who is in one runs or is without the interpreter.
Placed(x, s, h) == s[x] = "release" \/ (s[x] = "ready" /\ h)
Deleting(x, s, d) ==
    /\ d[x].victim # Nil => s[x] = "release" /\ (d[x].victim = x \/ s[d[x].victim] \in {"exiting", "dead"})
    /\ d[x].op = "exit" <=> d[x].victim = x

LEMMA DoingIs ==
  DoingInv <=> \A x \in Progs : /\ doing[x].op # "none" => Placed(x, state, AtHead(x))
                                /\ Deleting(x, state, doing)
  BY DEF DoingInv, Placed, Deleting, AtHead

LEMMA NextDoing ==
  ASSUME IInv, Move
  PROVE  DoingInv'
<1>20. /\ state \in [Progs -> States] /\ runq \in Seq(Progs) /\ doing \in [Progs -> Calls]
       /\ \A x \in Progs : doing[x].victim \in Progs \cup {Nil}
  BY Types DEF Calls
<1>21. \A x \in Progs : /\ doing[x].op # "none" => Placed(x, state, AtHead(x))
                        /\ Deleting(x, state, doing)
  BY DoingIs DEF IInv
<1>22. Nil \notin Progs
  BY DisAssumption
<1>23. \A x \in Progs : AtHead(x) => state[x] = "ready" /\ doing[x].victim = Nil
  BY RunnerFree
<1> DEFINE Goal == \A x \in Progs : /\ doing'[x].op # "none" => Placed(x, state', AtHead(x)')
                                    /\ Deleting(x, state', doing')
\* No more processes run or are without the interpreter, no call changes.
<1>1. ASSUME UNCHANGED <<state, runq, doing>> PROVE Goal
  BY <1>1, <1>21 DEF Placed, Deleting, AtHead
<1>2. ASSUME NEW p \in Progs, NEW h \in Waits \cup {"broken"}, Halts(p, h), UNCHANGED doing PROVE Goal
  <2>1. state'[p] = h /\ \A x \in Progs : x # p => state'[x] = state[x]
    BY <1>2, <1>20 DEF Halts
  <2>2. AtHead(p) /\ doing[p].op = "none" /\ \A x \in Progs : AtHead(x) => x = p
    BY <1>2 DEF Halts, AtHead
  <2>3. \A x \in Progs : doing[x].op # "none" => Placed(x, state', AtHead(x)')
    BY <1>21, <1>23, <2>1, <2>2 DEF Placed
  <2>4. \A x \in Progs : Deleting(x, state', doing)
    BY <1>20, <1>21, <1>23, <2>1, <2>2 DEF Deleting
  <2> QED
    BY <1>2, <2>3, <2>4
<1>3. ASSUME NEW q \in Progs, state[q] \notin {"release", "ready", "exiting", "dead"}, Wakes(q), UNCHANGED doing
      PROVE  Goal
  <2>1. state'[q] = "ready" /\ \A x \in Progs : x # q => state'[x] = state[x]
    BY <1>3, <1>20 DEF Wakes
  <2>2. \A x \in Progs : AtHead(x) => AtHead(x)'
    <3>1. runq # <<>> => Append(runq, q) # <<>> /\ Head(Append(runq, q)) = Head(runq)
      BY <1>20, JoinEnd
    <3> QED
      BY <1>3, <3>1 DEF Wakes, AtHead
  <2>3. \A x \in Progs : doing[x].op # "none" => Placed(x, state', AtHead(x)')
    BY <1>3, <1>21, <2>1, <2>2 DEF Placed
  <2>4. \A x \in Progs : Deleting(x, state', doing)
    BY <1>3, <1>20, <1>21, <2>1 DEF Deleting
  <2> QED
    BY <1>3, <2>3, <2>4
<1>4. ASSUME NEW p \in Progs, NEW n \in Progs, Spawns(p, n) PROVE Goal
  BY <1>3, <1>4 DEF Spawns, Wakes
<1>5. ASSUME NEW p \in Progs, NEW o, NEW v, NEW g, Goes(p, o, v, g) PROVE Goal
  <2>1. state'[p] = "release" /\ \A x \in Progs : x # p => state'[x] = state[x]
    BY <1>5, <1>20 DEF Goes
  <2>2. AtHead(p) /\ \A x \in Progs : AtHead(x) => x = p
    BY <1>5 DEF Goes, AtHead
  <2>3. /\ \A x \in Progs : x # p => doing'[x] = doing[x]
        /\ doing'[p].op = o /\ doing'[p].victim = v
        /\ (o = "exit" /\ v = p) \/ (o # "exit" /\ v = Nil)
    BY <1>5 DEF Goes, Does
  <2>4. \A x \in Progs : doing'[x].op # "none" => Placed(x, state', AtHead(x)')
    BY <1>21, <1>23, <2>1, <2>2, <2>3 DEF Placed
  <2>5. \A x \in Progs : Deleting(x, state', doing')
    BY <1>20, <1>21, <1>22, <1>23, <2>1, <2>2, <2>3 DEF Deleting
  <2> QED
    BY <2>4, <2>5
<1>6. ASSUME NEW p \in Progs, NEW v \in Progs \cup {Nil}, Returns(p, v) PROVE Goal
  <2>1. /\ state[p] = "release" /\ v = doing[p].victim
        /\ \A x \in Progs : state'[x] = IF x = v THEN "dead" ELSE IF x = p THEN "ready" ELSE state[x]
    BY <1>6 DEF Returns
  <2>2. v # p => v = Nil \/ state[v] \in {"exiting", "dead"}
    BY <1>21, <2>1 DEF Deleting
  <2>3. \A x \in Progs : AtHead(x) => doing[x].op = "none"
    BY <1>6 DEF Returns, Busy, AtHead
  <2>4. /\ \A x \in Progs : x # p => doing'[x] = doing[x]
        /\ doing'[p].victim = Nil /\ doing'[p].op # "exit"
        /\ doing'[p].op # "none" => doing'[p].op = doing[p].op /\ doing[p].op # "exit"
    BY <1>6 DEF Returns, Does
  <2>5. v # p => AtHead(p)'
    <3>1. <<p>> \o runq # <<>> /\ Head(<<p>> \o runq) = p
      BY <1>20, JoinHead
    <3> QED
      BY <1>6, <3>1 DEF Returns, AtHead
  <2>6. v = p => doing[p].op = "exit"
    BY <1>21, <2>1 DEF Deleting
  <2>7. \A x \in Progs : doing'[x].op # "none" => Placed(x, state', AtHead(x)')
    BY <1>21, <1>22, <2>1, <2>2, <2>3, <2>4, <2>5, <2>6 DEF Placed
  <2>8. \A x \in Progs : Deleting(x, state', doing')
    BY <1>20, <1>21, <1>22, <2>1, <2>2, <2>4 DEF Deleting
  <2> QED
    BY <2>7, <2>8
\* Only p's call changes, and p keeps running.
<1>7. ASSUME NEW p \in Progs, AtHead(p), UNCHANGED <<state, runq>>, NEW o, NEW t, NEW g,
             Does(p, o, Nil, t, g), o # "exit"
      PROVE  Goal
  <2>1. /\ \A x \in Progs : x # p => doing'[x] = doing[x]
        /\ doing'[p].op = o /\ doing'[p].victim = Nil
    BY <1>7 DEF Does
  <2>2. \A x \in Progs : AtHead(x)' <=> AtHead(x)
    BY <1>7 DEF AtHead
  <2>3. \A x \in Progs : doing'[x].op # "none" => Placed(x, state', AtHead(x)')
    BY <1>7, <1>21, <1>23, <2>1, <2>2 DEF Placed
  <2>4. \A x \in Progs : Deleting(x, state', doing')
    BY <1>7, <1>21, <1>22, <2>1 DEF Deleting
  <2> QED
    BY <2>3, <2>4
<1>8. ASSUME NEW p \in Progs, NEW q \in Progs, Proceeds(p, q, Nil), UNCHANGED <<state, runq>> PROVE Goal
  BY <1>7, <1>8 DEF Proceeds
<1>9. ASSUME NEW p \in Progs, NEW q \in Progs, Cuts(p, q) PROVE Goal
  <2>1. AtHead(p) /\ q # p /\ \A x \in Progs : AtHead(x) => x = p
    BY <1>9 DEF Cuts, Proceeds, AtHead
  <2>2. /\ \A x \in Progs : state'[x] = IF x = p THEN "release" ELSE IF x = q THEN "exiting" ELSE state[x]
        /\ state[q] \notin {"release", "exiting", "dead"}
    BY <1>9, <1>20 DEF Cuts
  <2>3. /\ \A x \in Progs : x # p => doing'[x] = doing[x]
        /\ doing'[p].victim = q /\ doing'[p].op # "exit"
    BY <1>9 DEF Cuts, Proceeds, Does
  <2>4. \A x \in Progs : doing'[x].op # "none" => Placed(x, state', AtHead(x)')
    BY <1>21, <2>1, <2>2, <2>3 DEF Placed
  <2>5. \A x \in Progs : Deleting(x, state', doing')
    BY <1>20, <1>21, <1>22, <1>23, <2>1, <2>2, <2>3 DEF Deleting
  <2> QED
    BY <2>4, <2>5
<1>10. ASSUME Turns PROVE Goal
  <2>1. \A x \in Progs : AtHead(x) => doing[x].op = "none"
    BY <1>10 DEF Turns, Busy, AtHead
  <2>2. UNCHANGED <<state, doing>>
    BY <1>10 DEF Turns
  <2>3. \A x \in Progs : doing[x].op # "none" => Placed(x, state, AtHead(x)')
    BY <1>21, <2>1 DEF Placed
  <2> QED
    BY <1>21, <2>2, <2>3
<1> HIDE DEF Goal
<1>11. ASSUME Talks, UNCHANGED doing PROVE Goal
  BY <1>1, <1>2, <1>3, <1>11, TalkMoves DEF Runs, Awakes, Waits
<1>12. ASSUME NEW p \in Progs, Fails(p) PROVE Goal
  BY <1>1, <1>12 DEF Fails
<1>16. ASSUME NEW p \in Progs, NEW q \in Progs, Leads(p, q) PROVE Goal
  <2>1. UNCHANGED <<state, runq>> /\ \A x \in Progs :
          doing'[x].op = doing[x].op /\ doing'[x].victim = doing[x].victim
    BY <1>16 DEF Leads
  <2>2. \A x \in Progs : AtHead(x)' <=> AtHead(x)
    BY <2>1 DEF AtHead
  <2> QED
    BY <1>21, <2>1, <2>2 DEF Goal, Placed, Deleting
<1>13. ASSUME NEW p \in Progs, NEW q \in Progs, Ends(p) \/ Begins(p, q) PROVE Goal
  BY <1>7, <1>13 DEF Ends, Begins
<1>14. ASSUME NEW p \in Progs, NEW q \in Progs, Dooms(p, q) \/ Skips(p, q) PROVE Goal
  BY <1>8, <1>14 DEF Dooms, Skips
<1>15. Goal
  BY <1>4, <1>5, <1>6, <1>9, <1>10, <1>11, <1>12, <1>13, <1>14, <1>16 DEF Move
<1> QED
  BY <1>15 DEF Goal, DoingInv, Placed, Deleting, AtHead

\* The types of groups, kills and calls.
LEMMA NextProcTypes ==
  ASSUME IInv, Move
  PROVE  /\ kill' \in [Progs -> BOOLEAN] /\ group' \in [Progs -> Progs \cup {Nil}]
         /\ gkilled' \in SUBSET Progs /\ doing' \in [Progs -> Calls] /\ reused' \in SUBSET Progs
<1>20. /\ kill \in [Progs -> BOOLEAN] /\ group \in [Progs -> Progs \cup {Nil}]
       /\ gkilled \in SUBSET Progs /\ doing \in [Progs -> Calls] /\ reused \in SUBSET Progs
  BY Types
<1>1. kill' \in [Progs -> BOOLEAN]
  <2>1. ASSUME NEW p \in Progs, kill' = [kill EXCEPT ![p] = TRUE] PROVE kill' \in [Progs -> BOOLEAN]
    BY <1>20, <2>1
  <2> QED
    BY <1>20, <2>1 DEF Move, Fails, Leads, Ends, Spawns, Begins, Goes, Returns, Dooms, Skips, Cuts, Turns
<1>2. group' \in [Progs -> Progs \cup {Nil}]
  <2>1. ASSUME NEW p \in Progs, NEW g \in Progs \cup {Nil}, group' = [group EXCEPT ![p] = g]
        PROVE  group' \in [Progs -> Progs \cup {Nil}]
    BY <1>20, <2>1
  <2>2. ASSUME NEW p \in Progs, NEW v \in Progs \cup {Nil}, Returns(p, v)
        PROVE  group' \in [Progs -> Progs \cup {Nil}]
    BY <1>20, <2>2 DEF Returns
  <2> QED
    BY <1>20, <2>1, <2>2 DEF Move, Fails, Leads, Ends, Spawns, Begins, Goes, Dooms, Skips, Cuts, Turns
<1>3. gkilled' \in SUBSET Progs
  BY <1>20 DEF Move, Fails, Leads, Ends, Spawns, Begins, Goes, Returns, Dooms, Skips, Cuts, Turns
<1>4. doing' \in [Progs -> Calls]
  <2>1. ASSUME NEW p, NEW o, NEW v, NEW t, NEW g, Does(p, o, v, t, g) PROVE doing' \in [Progs -> Calls]
    BY <2>1 DEF Does
  <2>2. ASSUME NEW p, NEW q, NEW v, Proceeds(p, q, v) PROVE doing' \in [Progs -> Calls]
    BY <2>1, <2>2 DEF Proceeds
  <2>3. ASSUME NEW p \in Progs, NEW v \in Progs \cup {Nil}, Returns(p, v) PROVE doing' \in [Progs -> Calls]
    BY <2>1, <2>3 DEF Returns
  <2>4. ASSUME NEW p \in Progs, NEW q \in Progs,
               Ends(p) \/ Begins(p, q) \/ Dooms(p, q) \/ Skips(p, q) \/ Cuts(p, q)
        PROVE  doing' \in [Progs -> Calls]
    BY <2>1, <2>2, <2>4 DEF Ends, Begins, Dooms, Skips, Cuts
  <2>5. ASSUME NEW p, NEW o, NEW v, NEW g, Goes(p, o, v, g) PROVE doing' \in [Progs -> Calls]
    BY <2>1, <2>5 DEF Goes
  <2> QED
    BY <1>20, <2>3, <2>4, <2>5 DEF Move, Fails, Leads, Spawns, Turns
<1>5. reused' \in SUBSET Progs
  <2>1. ASSUME NEW p \in Progs, NEW q \in Progs, Leads(p, q) PROVE reused' \in SUBSET Progs
    BY <1>20, <2>1 DEF Leads
  <2>2. ASSUME UNCHANGED reused PROVE reused' \in SUBSET Progs
    BY <1>20, <2>2
  <2> QED
    BY <2>1, <2>2 DEF Move, Fails, Ends, Spawns, Begins, Goes, Returns, Dooms, Skips, Cuts, Turns
<1> QED
  BY <1>1, <1>2, <1>3, <1>4, <1>5

\* Led after the step.
LedNext(g) == group'[g] = g \/ state'[g] = "dead"

\* A group is led, or its leader is dead.
LEMMA NextGroup ==
  ASSUME IInv, Move
  PROVE  GroupInv'
<1>20. /\ state \in [Progs -> States] /\ group \in [Progs -> Progs \cup {Nil}]
       /\ doing \in [Progs -> Calls]
  BY Types
<1>21. Nil \notin Progs
  BY DisAssumption
<1>22. /\ \A q \in Progs : group[q] # Nil => state[q] \notin {"none", "dead"} /\ Led(group[q])
       /\ \A p \in Progs : doing[p].op \in {"killgrp", "wait"} => doing[p].g \in Progs /\ Led(doing[p].g)
  BY DEF IInv, GroupInv
\* Nobody dies, no group changes, and a killer of a group found it led.
<1>1. ASSUME UNCHANGED group,
             \A x \in Progs : /\ state[x] \notin {"none", "dead"} => state'[x] \notin {"none", "dead"}
                              /\ state[x] = "dead" => state'[x] = "dead",
             \A x \in Progs : doing'[x].op \in {"killgrp", "wait"} =>
                                doing'[x].g \in Progs /\ Led(doing'[x].g)
      PROVE  GroupInv'
  <2>1. \A g \in Progs : Led(g) => LedNext(g)
    BY <1>1 DEF Led, LedNext
  <2>2. \A q \in Progs : group'[q] # Nil => state'[q] \notin {"none", "dead"} /\ LedNext(group'[q])
    BY <1>1, <1>20, <1>22, <2>1 DEF Led, LedNext
  <2>3. \A p \in Progs : doing'[p].op \in {"killgrp", "wait"} => doing'[p].g \in Progs /\ LedNext(doing'[p].g)
    BY <1>1, <2>1 DEF Led, LedNext
  <2> QED
    BY <2>2, <2>3 DEF GroupInv, Led, LedNext
<1>2. ASSUME UNCHANGED <<group, state, doing>> PROVE GroupInv'
  BY <1>1, <1>2, <1>22
<1>3. ASSUME NEW p \in Progs, NEW h \in Waits \cup {"broken"}, Halts(p, h), UNCHANGED <<group, doing>>
      PROVE  GroupInv'
  <2>1. state'[p] = h /\ state[p] = "ready" /\ \A x \in Progs : x # p => state'[x] = state[x]
    BY <1>3, <1>20, RunnerFree DEF Halts
  <2> QED
    BY <1>1, <1>3, <1>22, <2>1 DEF Waits
<1>4. ASSUME NEW q \in Progs, Awakes(q), UNCHANGED <<group, doing>> PROVE GroupInv'
  <2>1. state'[q] = "ready" /\ state[q] \in Waits /\ \A x \in Progs : x # q => state'[x] = state[x]
    BY <1>4, <1>20 DEF Awakes, Wakes
  <2> QED
    BY <1>1, <1>4, <1>22, <2>1 DEF Waits
<1>5. ASSUME NEW p \in Progs, NEW o, NEW v, NEW g, Goes(p, o, v, g) PROVE GroupInv'
  <2>1. state'[p] = "release" /\ state[p] = "ready" /\ \A x \in Progs : x # p => state'[x] = state[x]
    BY <1>5, <1>20, RunnerFree DEF Goes
  <2>2. /\ \A x \in Progs : x # p => doing'[x] = doing[x]
        /\ doing'[p].op \in {"killgrp", "wait"} => doing'[p].g \in Progs /\ Led(doing'[p].g)
        /\ group' = group
    BY <1>5 DEF Goes, Does
  <2> QED
    BY <1>1, <1>22, <2>1, <2>2
<1>6. ASSUME NEW p \in Progs, UNCHANGED <<group, state>>, NEW o, NEW v, NEW t, NEW g, Does(p, o, v, t, g),
             o \in {"killgrp", "wait"} => g \in Progs /\ Led(g)
      PROVE  GroupInv'
  BY <1>1, <1>6, <1>22 DEF Does
<1>7. ASSUME NEW p \in Progs, NEW q \in Progs, Proceeds(p, q, Nil), UNCHANGED <<group, state>>
      PROVE  GroupInv'
  BY <1>6, <1>7, <1>22 DEF Proceeds
<1>8. ASSUME NEW p \in Progs, NEW q \in Progs, Cuts(p, q) PROVE GroupInv'
  <2>1. AtHead(p) /\ state[p] = "ready" /\ q # p
    BY <1>8, RunnerFree DEF Cuts, Proceeds
  <2>2. /\ \A x \in Progs : state'[x] = IF x = p THEN "release" ELSE IF x = q THEN "exiting" ELSE state[x]
        /\ state[q] \notin {"none", "dead"} /\ group' = group
    BY <1>8, <1>20 DEF Cuts
  <2>3. /\ \A x \in Progs : x # p => doing'[x] = doing[x]
        /\ doing'[p].op \in {"killgrp", "wait"} => doing[p].op = "killgrp" /\ doing'[p].g = doing[p].g
    BY <1>8 DEF Cuts, Proceeds, Does
  <2>4. \A x \in Progs : doing'[x].op \in {"killgrp", "wait"} =>
                           doing'[x].g \in Progs /\ Led(doing'[x].g)
    BY <1>22, <2>3
  <2> QED
    BY <1>1, <2>1, <2>2, <2>4
<1>9. ASSUME NEW p \in Progs, NEW n \in Progs, Spawns(p, n) PROVE GroupInv'
  <2>1. /\ state'[n] = "ready" /\ state[n] = "none" /\ doing' = doing
        /\ \A x \in Progs : x # n => state'[x] = state[x] /\ group'[x] = group[x]
        /\ group'[n] = group[p]
    BY <1>9, <1>20 DEF Spawns
  <2>2. ~Led(n)
    BY <1>21, <1>22, <2>1 DEF Led, LedNext
  <2>3. \A g \in Progs : Led(g) => LedNext(g)
    BY <2>1, <2>2 DEF Led, LedNext
  <2>4. \A q \in Progs : group'[q] # Nil => state'[q] \notin {"none", "dead"} /\ LedNext(group'[q])
    <3>1. ASSUME NEW q \in Progs, group'[q] # Nil
          PROVE  state'[q] \notin {"none", "dead"} /\ group'[q] \in Progs /\ Led(group'[q])
      BY <1>20, <1>22, <2>1, <3>1
    <3> QED
      BY <2>3, <3>1 DEF Led, LedNext
  <2>5. \A x \in Progs : doing'[x].op \in {"killgrp", "wait"} => doing'[x].g \in Progs /\ LedNext(doing'[x].g)
    BY <1>22, <2>1, <2>3 DEF Led, LedNext
  <2> QED
    BY <2>4, <2>5 DEF GroupInv, Led, LedNext
<1>10. ASSUME NEW p \in Progs, NEW old \in Progs, Leads(p, old) PROVE GroupInv'
  <2>1. /\ state[p] = "ready" /\ state' = state /\ group[p] # p
        /\ \A x \in Progs : doing'[x].op = doing[x].op /\ doing'[x].g \in {p, doing[x].g}
        /\ \A x \in Progs : x # p => group'[x] = group[x]
        /\ group'[p] = p
    BY <1>10, <1>20, RunnerFree DEF Leads
  <2>2. \A g \in Progs : Led(g) => LedNext(g)
    BY <2>1 DEF Led, LedNext
  <2>3. LedNext(p)
    BY <2>1 DEF Led, LedNext
  <2>4. \A q \in Progs : group'[q] # Nil => state'[q] \notin {"none", "dead"} /\ LedNext(group'[q])
    <3>1. ASSUME NEW q \in Progs, group'[q] # Nil
          PROVE  state'[q] \notin {"none", "dead"} /\ group'[q] \in Progs /\ LedNext(group'[q])
      <4>1. CASE q = p
        BY <2>1, <2>3, <4>1 DEF Led, LedNext
      <4>2. CASE q # p
        <5>1. group'[q] = group[q] /\ group[q] \in Progs /\ Led(group[q]) /\ state'[q] \notin {"none", "dead"}
          BY <1>20, <1>22, <2>1, <3>1, <4>2
        <5> QED
          BY <2>2, <5>1 DEF Led, LedNext
      <4> QED
        BY <4>1, <4>2
    <3> QED
      BY <3>1 DEF Led, LedNext
  <2>5. \A x \in Progs : doing'[x].op \in {"killgrp", "wait"} => doing'[x].g \in Progs /\ LedNext(doing'[x].g)
    <3>1. ASSUME NEW x \in Progs, doing'[x].op \in {"killgrp", "wait"}
          PROVE  doing'[x].g \in Progs /\ LedNext(doing'[x].g)
      <4>1. CASE doing'[x].g = p
        BY <2>3, <4>1 DEF LedNext
      <4>2. CASE doing'[x].g = doing[x].g
        BY <1>22, <2>1, <2>2, <3>1, <4>2 DEF Led, LedNext
      <4> QED
        BY <2>1, <4>1, <4>2
    <3> QED
      BY <3>1 DEF LedNext
  <2> QED
    BY <2>4, <2>5 DEF GroupInv, Led, LedNext
<1>11. ASSUME NEW p \in Progs, NEW v \in Progs \cup {Nil}, Returns(p, v) PROVE GroupInv'
  <2>1. /\ state[p] = "release"
        /\ \A x \in Progs : state'[x] = IF x = v THEN "dead" ELSE IF x = p THEN "ready" ELSE state[x]
        /\ \A x \in Progs : group'[x] = IF x = v THEN Nil ELSE group[x]
        /\ \A x \in Progs : x # p => doing'[x] = doing[x]
        /\ doing'[p].op \in {"killgrp", "wait"} => doing[p].op \in {"killgrp", "wait"} /\ doing'[p].g = doing[p].g
    BY <1>11 DEF Returns, Does
  <2>2. \A g \in Progs : Led(g) => LedNext(g)
    BY <2>1 DEF Led, LedNext
  <2>4. \A q \in Progs : group'[q] # Nil => state'[q] \notin {"none", "dead"} /\ LedNext(group'[q])
    <3>1. ASSUME NEW q \in Progs, group'[q] # Nil
          PROVE  state'[q] \notin {"none", "dead"} /\ group'[q] \in Progs /\ Led(group'[q])
      BY <1>20, <1>22, <2>1, <3>1
    <3> QED
      BY <2>2, <3>1 DEF Led, LedNext
  <2>5. \A x \in Progs : doing'[x].op \in {"killgrp", "wait"} => doing'[x].g \in Progs /\ LedNext(doing'[x].g)
    <3>1. ASSUME NEW x \in Progs, doing'[x].op \in {"killgrp", "wait"}
          PROVE  doing'[x].g \in Progs /\ Led(doing'[x].g)
      BY <1>22, <2>1, <3>1
    <3> QED
      BY <2>2, <3>1 DEF Led, LedNext
  <2> QED
    BY <2>4, <2>5 DEF GroupInv, Led, LedNext
<1>12. ASSUME Talks, UNCHANGED <<group, doing>> PROVE GroupInv'
  BY <1>2, <1>3, <1>4, <1>12, TalkMoves DEF Runs
<1>13. ASSUME NEW p \in Progs, NEW q \in Progs, Ends(p) \/ Begins(p, q) PROVE GroupInv'
  BY <1>6, <1>13 DEF Ends, Begins
<1>14. ASSUME NEW p \in Progs, NEW q \in Progs, Dooms(p, q) \/ Skips(p, q) PROVE GroupInv'
  BY <1>7, <1>14 DEF Dooms, Skips
<1>15. ASSUME NEW p \in Progs, Fails(p) \/ Turns PROVE GroupInv'
  BY <1>2, <1>15 DEF Fails, Turns
<1> QED
  BY <1>5, <1>8, <1>9, <1>10, <1>11, <1>12, <1>13, <1>14, <1>15, DisAssumption DEF Move

\* Who will not execute again never will.
LEMMA NextDoomed ==
  ASSUME IInv, Move, NEW x \in Progs, Doomed(x)
  PROVE  Doomed(x)'
<1>20. /\ state \in [Progs -> States] /\ kill \in [Progs -> BOOLEAN]
  BY Types
<1>21. \A p \in Progs : doing[p].op = "exit" <=> doing[p].victim = p
  BY DEF IInv, DoingInv
<1>22. kill'[x] = kill[x] \/ kill'[x] = TRUE
  BY <1>20 DEF Move, Fails, Leads, Ends, Spawns, Begins, Goes, Returns, Dooms, Skips, Cuts, Turns
<1>1. CASE kill[x]
  BY <1>1, <1>22 DEF Doomed
<1>2. CASE state[x] \in {"exiting", "dead"}
  <2>1. ASSUME NEW p \in Progs, AtHead(p) PROVE x # p
    BY <1>2, <2>1, RunnerFree
  <2>2. ASSUME NEW p \in Progs, NEW v \in Progs \cup {Nil}, Returns(p, v) PROVE state'[x] \in {"exiting", "dead"}
    BY <1>2, <2>2 DEF Returns
  <2>3. ASSUME Talks PROVE state'[x] = state[x]
    BY <1>2, <1>20, <2>1, <2>3, TalkMoves DEF Runs, Halts, Awakes, Wakes, Waits
  <2>4. ASSUME NEW p \in Progs, NEW n \in Progs, Spawns(p, n) PROVE state'[x] = state[x]
    BY <1>2, <1>20, <2>4 DEF Spawns
  <2>5. ASSUME NEW p \in Progs, NEW o, NEW v, NEW g, Goes(p, o, v, g) PROVE state'[x] = state[x]
    BY <1>2, <1>20, <2>1, <2>5 DEF Goes
  <2>6. ASSUME NEW p \in Progs, NEW q \in Progs, Cuts(p, q) PROVE state'[x] = state[x]
    BY <1>2, <1>20, <2>1, <2>6 DEF Cuts, Proceeds
  <2>7. state'[x] \in {"exiting", "dead"}
    BY <1>2, <2>2, <2>3, <2>4, <2>5, <2>6 DEF Move, Fails, Leads, Ends, Begins, Dooms, Skips, Turns
  <2> QED
    BY <2>7 DEF Doomed
<1>3. CASE doing[x].op = "exit"
  <2>1. ASSUME NEW p \in Progs, NEW o, NEW v, NEW t, NEW g, Does(p, o, v, t, g), doing[p].op # "exit"
        PROVE  doing'[x].op = "exit"
    BY <1>3, <2>1 DEF Does
  <2>2. ASSUME NEW p \in Progs, NEW v \in Progs \cup {Nil}, Returns(p, v) PROVE Doomed(x)'
    <3>1. CASE x = p
      BY <1>3, <1>21, <2>2, <3>1 DEF Returns, Doomed
    <3>2. CASE x # p
      BY <1>3, <2>2, <3>2 DEF Returns, Does, Doomed
    <3> QED
      BY <3>1, <3>2
  <2>3. ASSUME NEW p \in Progs, NEW q, NEW v, Proceeds(p, q, v) PROVE doing'[x].op = "exit"
    BY <2>1, <2>3 DEF Proceeds
  <2>4. ASSUME NEW p \in Progs, NEW o, NEW v, NEW g, Goes(p, o, v, g) PROVE doing'[x].op = "exit"
    BY <2>1, <2>4 DEF Goes
  <2>5. ASSUME NEW p \in Progs, NEW q \in Progs, Ends(p) \/ Begins(p, q) PROVE doing'[x].op = "exit"
    BY <2>1, <2>5 DEF Ends, Begins
  <2>6. ASSUME NEW p \in Progs, NEW q \in Progs, Dooms(p, q) \/ Skips(p, q) \/ Cuts(p, q)
        PROVE  doing'[x].op = "exit"
    BY <2>3, <2>6 DEF Dooms, Skips, Cuts
  <2>7. ASSUME UNCHANGED doing PROVE doing'[x].op = "exit"
    BY <1>3, <2>7
  <2> QED
    BY <1>3, <2>2, <2>4, <2>5, <2>6, <2>7 DEF Move, Fails, Leads, Spawns, Turns, Doomed
<1> QED
  BY <1>1, <1>2, <1>3 DEF Doomed

\* x is still at the killgrp it was at, and those it turned to are done.
Keeps(x) ==
    /\ doing[x].op = "killgrp" /\ doing'[x].g = doing[x].g
    /\ \A y \in doing[x].todo : y \in doing'[x].todo \/ (group'[y] = doing[x].g => Doomed(y)')

\* A step that begins and ends no killgrp, and adds nobody to a group that is
\* being killed.
LEMMA KeepsKill ==
  ASSUME IInv, Move,
         \A x \in Progs : Claimed(x)' => Claimed(x) /\ Keeps(x),
         \A x \in Progs : Claimed(x) /\ doing[x].g \in gkilled => doing[x].g \in gkilled',
         \A x, y \in Progs : Claimed(x) /\ group'[y] = doing[x].g => group[y] = doing[x].g
  PROVE  KillInv'
<1>1. /\ \A x \in Progs : Claimed(x) =>
           /\ doing[x].g \in gkilled
           /\ \A y \in Members(doing[x].g) \ {x} : y \in doing[x].todo \/ Doomed(y)
      /\ \A x, y \in Progs : Claimed(x) /\ Claimed(y) /\ doing[x].g = doing[y].g => x = y
  BY DEF IInv, KillInv
<1>2. ASSUME NEW x \in Progs, Claimed(x)'
      PROVE  /\ doing'[x].g \in gkilled'
             /\ \A y \in Progs : y # x /\ group'[y] = doing'[x].g => y \in doing'[x].todo \/ Doomed(y)'
  <2>1. Claimed(x) /\ Keeps(x) /\ doing'[x].g = doing[x].g /\ doing[x].g \in gkilled
    BY <1>1, <1>2 DEF Keeps
  <2>2. ASSUME NEW y \in Progs, y # x, group'[y] = doing'[x].g
        PROVE  y \in doing'[x].todo \/ Doomed(y)'
    <3>1. group[y] = doing[x].g
      BY <2>1, <2>2
    <3>2. y \in doing[x].todo \/ Doomed(y)
      BY <1>1, <2>1, <2>2, <3>1 DEF Members
    <3>4. CASE y \in doing[x].todo
      BY <2>1, <2>2, <3>4 DEF Keeps
    <3>5. CASE Doomed(y)
      BY <3>5, NextDoomed
    <3> QED
      BY <3>2, <3>4, <3>5
  <2> QED
    BY <2>1, <2>2
<1>3. \A x, y \in Progs : Claimed(x)' /\ Claimed(y)' /\ doing'[x].g = doing'[y].g => x = y
  BY <1>1 DEF Keeps
<1> QED
  BY <1>2, <1>3 DEF KillInv, Members

\* The members of a group that is being killed are on the list of its killer,
\* or will not execute again.
LEMMA NextKill ==
  ASSUME IInv, Move
  PROVE  KillInv'
<1>20. /\ state \in [Progs -> States] /\ kill \in [Progs -> BOOLEAN]
       /\ group \in [Progs -> Progs \cup {Nil}] /\ doing \in [Progs -> Calls]
  BY Types
<1>21. Nil \notin Progs
  BY DisAssumption
<1>22. /\ \A q \in Progs : group[q] # Nil => state[q] \notin {"none", "dead"} /\ Led(group[q])
       /\ \A p \in Progs : doing[p].op \in {"killgrp", "wait"} => doing[p].g \in Progs /\ Led(doing[p].g)
  BY DEF IInv, GroupInv
<1>23. /\ \A x \in Progs : Claimed(x) =>
            /\ doing[x].g \in gkilled
            /\ \A y \in Members(doing[x].g) \ {x} : y \in doing[x].todo \/ Doomed(y)
       /\ \A x, y \in Progs : Claimed(x) /\ Claimed(y) /\ doing[x].g = doing[y].g => x = y
  BY DEF IInv, KillInv
<1>24. \A p \in Progs : doing[p].op = "exit" <=> doing[p].victim = p
  BY DEF IInv, DoingInv
<1>1. ASSUME UNCHANGED <<group, gkilled, reused>>, \A x \in Progs : doing'[x].op = "killgrp" => Keeps(x)
      PROVE  KillInv'
  <2>1. \A x \in Progs : Claimed(x)' => Claimed(x) /\ Keeps(x)
    BY <1>1 DEF Claimed, Keeps
  <2> QED
    BY <1>1, <2>1, KeepsKill
<1>2. ASSUME NEW x \in Progs, doing'[x] = doing[x], doing[x].op = "killgrp" PROVE Keeps(x)
  BY <1>2 DEF Keeps
<1>3. ASSUME UNCHANGED <<group, gkilled, doing, reused>> PROVE KillInv'
  BY <1>1, <1>2, <1>3
<1>4. ASSUME NEW p \in Progs, NEW n \in Progs, Spawns(p, n) PROVE KillInv'
  <2>1. /\ doing' = doing /\ gkilled' = gkilled /\ reused' = reused /\ group[p] \notin gkilled
        /\ \A x \in Progs : x # n => group'[x] = group[x]
        /\ group'[n] = group[p]
    BY <1>4, <1>20 DEF Spawns
  <2>2. \A x \in Progs : Claimed(x)' => Claimed(x) /\ Keeps(x)
    <3>1. ASSUME NEW x \in Progs, Claimed(x)' PROVE Claimed(x)
      BY <2>1, <3>1 DEF Claimed
    <3> QED
      BY <1>2, <2>1, <3>1 DEF Claimed
  <2>3. \A x, y \in Progs : Claimed(x) /\ group'[y] = doing[x].g => group[y] = doing[x].g
    BY <1>23, <2>1
  <2> QED
    BY <2>1, <2>2, <2>3, KeepsKill
\* Nobody kills a group led by p yet; who knew old now kills one in reused.
<1>5. ASSUME NEW p \in Progs, NEW old \in Progs, Leads(p, old) PROVE KillInv'
  <2>1. /\ group[p] # p /\ state[p] = "ready" /\ gkilled' = gkilled \ {old}
        /\ \A x \in Progs : x # p => group'[x] = group[x]
        /\ group'[p] = p
        /\ reused' = IF old = p THEN reused ELSE reused \cup {p}
        /\ old # p => \A x \in Progs : group[x] # old
    BY <1>5, <1>20, RunnerFree DEF Leads
  <2>2. \A x \in Progs : /\ doing'[x].op = doing[x].op /\ doing'[x].todo = doing[x].todo
                          /\ doing'[x].g = IF doing[x].g = old THEN p ELSE doing[x].g
    BY <1>5 DEF Leads
  <2>3. \A x \in Progs : doing[x].op = "killgrp" => doing[x].g # p
    BY <1>22, <2>1 DEF Led
  <2>4. ASSUME NEW x \in Progs, Claimed(x)' PROVE Claimed(x) /\ Keeps(x)
    <3>1. doing'[x].op = "killgrp" /\ doing'[x].g \notin reused'
      BY <2>4 DEF Claimed
    <3>2. doing[x].op = "killgrp" /\ doing[x].g # p
      BY <2>2, <2>3, <3>1
    <3>3. doing[x].g # old /\ doing'[x].g = doing[x].g /\ doing[x].g \notin reused
      BY <2>1, <2>2, <3>1, <3>2
    <3>4. PICK y \in Progs : group'[y] = doing'[x].g
      BY <2>4 DEF Claimed
    <3>5. group[y] = doing[x].g
      BY <2>1, <3>2, <3>3, <3>4
    <3> QED
      BY <2>2, <3>2, <3>3, <3>5 DEF Claimed, Keeps
  <2>5. \A x \in Progs : Claimed(x) => doing[x].g # p /\ doing[x].g # old
    BY <2>1, <2>3 DEF Claimed
  <2>6. \A x, y \in Progs : Claimed(x) /\ group'[y] = doing[x].g => group[y] = doing[x].g
    BY <2>1, <2>5
  <2>7. \A x \in Progs : Claimed(x) /\ doing[x].g \in gkilled => doing[x].g \in gkilled'
    BY <2>1, <2>5
  <2> QED
    BY <2>4, <2>6, <2>7, KeepsKill
<1>6. ASSUME NEW p \in Progs, NEW o, NEW v, NEW g, Goes(p, o, v, g) PROVE KillInv'
  <2>1. /\ group' = group /\ gkilled' = gkilled /\ reused' = reused
        /\ \A x \in Progs : x # p => doing'[x] = doing[x]
        /\ doing'[p].op # "killgrp"
    BY <1>6 DEF Goes, Does
  <2> QED
    BY <1>1, <1>2, <2>1
<1>7. ASSUME NEW p \in Progs, NEW v \in Progs \cup {Nil}, Returns(p, v) PROVE KillInv'
  <2>1. /\ gkilled' = gkilled /\ reused' = reused
        /\ \A x \in Progs : group'[x] = IF x = v THEN Nil ELSE group[x]
        /\ \A x \in Progs : x # p => doing'[x] = doing[x]
        /\ doing'[p].op = "killgrp" =>
             doing[p].op = "killgrp" /\ doing'[p].g = doing[p].g /\ doing'[p].todo = doing[p].todo
    BY <1>7 DEF Returns, Does
  <2>2. \A x \in Progs : doing'[x].op = "killgrp" => Keeps(x)
    BY <2>1 DEF Keeps
  <2>3. \A x, y \in Progs : doing[x].op = "killgrp" /\ group'[y] = doing[x].g => group[y] = doing[x].g
    BY <1>21, <1>22, <2>1
  <2>4. ASSUME NEW x \in Progs, Claimed(x)' PROVE Claimed(x) /\ Keeps(x)
    <3>1. doing'[x].op = "killgrp" /\ Keeps(x)
      BY <2>2, <2>4 DEF Claimed
    <3> QED
      BY <2>1, <2>3, <2>4, <3>1 DEF Claimed, Keeps
  <2> QED
    BY <2>1, <2>3, <2>4, KeepsKill DEF Claimed
\* The process the killer turns to.
<1>8. ASSUME NEW p \in Progs, NEW q \in Progs, NEW v, Proceeds(p, q, v),
             UNCHANGED <<group, gkilled, reused>>, group[q] # Nil => Doomed(q)'
      PROVE  KillInv'
  <2>1. /\ \A x \in Progs : x # p => doing'[x] = doing[x]
        /\ doing'[p].op = "killgrp" =>
             /\ doing[p].op = "killgrp" /\ doing'[p].g = doing[p].g
             /\ doing'[p].todo = doing[p].todo \ {q}
    BY <1>8 DEF Proceeds, Does
  <2>2. ASSUME doing'[p].op = "killgrp" PROVE Keeps(p)
    <3>1. doing[p].g \in Progs
      BY <1>22, <2>1, <2>2
    <3>2. ASSUME NEW y \in doing[p].todo
          PROVE  y \in doing'[p].todo \/ (group'[y] = doing[p].g => Doomed(y)')
      <4>1. CASE y = q
        BY <1>8, <1>21, <3>1, <4>1
      <4>2. CASE y # q
        BY <2>1, <2>2, <4>2
      <4> QED
        BY <4>1, <4>2
    <3> QED
      BY <2>1, <2>2, <3>2 DEF Keeps
  <2> QED
    BY <1>1, <1>2, <1>8, <2>1, <2>2
<1>9. ASSUME NEW p \in Progs, NEW q \in Progs, Dooms(p, q) PROVE KillInv'
  <2>1. kill'[q] = TRUE
    BY <1>9, <1>20 DEF Dooms
  <2>2. Doomed(q)'
    BY <2>1 DEF Doomed
  <2> QED
    BY <1>8, <1>9, <2>2 DEF Dooms
<1>10. ASSUME NEW p \in Progs, NEW q \in Progs, Skips(p, q) PROVE KillInv'
  <2>1. group[q] # Nil => state'[q] = "exiting"
    BY <1>10, <1>22 DEF Skips
  <2>2. group[q] # Nil => Doomed(q)'
    BY <2>1 DEF Doomed
  <2> QED
    BY <1>8, <1>10, <2>2 DEF Skips
<1>11. ASSUME NEW p \in Progs, NEW q \in Progs, Cuts(p, q) PROVE KillInv'
  <2>1. state'[q] = "exiting"
    BY <1>11, <1>20 DEF Cuts
  <2>2. Doomed(q)'
    BY <2>1 DEF Doomed
  <2> QED
    BY <1>8, <1>11, <2>2 DEF Cuts
\* Only one process kills a group at a time, for it finds the flag.
<1>12. ASSUME NEW p \in Progs, NEW g \in Progs, Begins(p, g) PROVE KillInv'
  <2>1. /\ gkilled' = gkilled \cup {g} /\ group' = group /\ reused' = reused
        /\ \A x \in Progs : x # p => doing'[x] = doing[x]
        /\ doing'[p].g = g /\ doing'[p].todo = Members(g) \ {p}
        /\ g \notin gkilled \/ \A x \in Progs : group[x] # g
    BY <1>12 DEF Begins, Does
  <2>4. ASSUME NEW x \in Progs, x # p, Claimed(x)'
        PROVE  Claimed(x) /\ doing'[x] = doing[x] /\ doing[x].g # g
    <3>1. Claimed(x) /\ doing'[x] = doing[x]
      BY <2>1, <2>4 DEF Claimed
    <3> QED
      BY <1>23, <2>1, <3>1 DEF Claimed
  <2>2. ASSUME NEW x \in Progs, Claimed(x)'
        PROVE  /\ doing'[x].g \in gkilled'
               /\ \A y \in Progs : y # x /\ group'[y] = doing'[x].g => y \in doing'[x].todo \/ Doomed(y)'
    <3>1. CASE x = p
      BY <2>1, <3>1 DEF Members
    <3>2. CASE x # p
      <4>1. Claimed(x) /\ doing'[x] = doing[x] /\ doing[x].g \in gkilled
        BY <1>23, <2>2, <2>4, <3>2
      <4>2. ASSUME NEW y \in Progs, y # x, group'[y] = doing'[x].g
            PROVE  y \in doing'[x].todo \/ Doomed(y)'
        <5>1. y \in doing[x].todo \/ Doomed(y)
          BY <1>23, <2>1, <4>1, <4>2 DEF Members
        <5> QED
          BY <4>1, <5>1, NextDoomed
      <4> QED
        BY <2>1, <4>1, <4>2
    <3> QED
      BY <3>1, <3>2
  <2>3. ASSUME NEW x \in Progs, NEW y \in Progs, Claimed(x)', Claimed(y)', doing'[x].g = doing'[y].g
        PROVE  x = y
    BY <1>23, <2>1, <2>3, <2>4
  <2> QED
    BY <2>2, <2>3 DEF KillInv, Members
<1>13. ASSUME NEW p \in Progs, Ends(p) PROVE KillInv'
  <2>1. /\ gkilled' = gkilled \ {doing[p].g} /\ group' = group /\ reused' = reused
        /\ \A x \in Progs : x # p => doing'[x] = doing[x]
        /\ doing'[p].op = "none" /\ doing[p].op = "killgrp"
    BY <1>13 DEF Ends, Does
  <2>4. ASSUME NEW x \in Progs, Claimed(x)'
        PROVE  x # p /\ Claimed(x) /\ doing'[x] = doing[x] /\ doing[x].g # doing[p].g
    <3>1. x # p /\ Claimed(x) /\ doing'[x] = doing[x]
      BY <2>1, <2>4 DEF Claimed
    <3>2. doing[x].g = doing[p].g => Claimed(p)
      BY <2>1, <3>1 DEF Claimed
    <3> QED
      BY <1>23, <3>1, <3>2
  <2>2. ASSUME NEW x \in Progs, Claimed(x)'
        PROVE  /\ doing'[x].g \in gkilled'
               /\ \A y \in Progs : y # x /\ group'[y] = doing'[x].g => y \in doing'[x].todo \/ Doomed(y)'
    <3>1. Claimed(x) /\ doing'[x] = doing[x] /\ doing[x].g # doing[p].g /\ doing[x].g \in gkilled
      BY <1>23, <2>2, <2>4
    <3>3. ASSUME NEW y \in Progs, y # x, group'[y] = doing'[x].g
          PROVE  y \in doing'[x].todo \/ Doomed(y)'
      <4>1. y \in doing[x].todo \/ Doomed(y)
        BY <1>23, <2>1, <3>1, <3>3 DEF Members
      <4> QED
        BY <3>1, <4>1, NextDoomed
    <3> QED
      BY <2>1, <3>1, <3>3
  <2>3. ASSUME NEW x \in Progs, NEW y \in Progs, Claimed(x)', Claimed(y)', doing'[x].g = doing'[y].g
        PROVE  x = y
    BY <1>23, <2>3, <2>4
  <2> QED
    BY <2>2, <2>3 DEF KillInv, Members
<1>14. ASSUME NEW p \in Progs, Fails(p) \/ Turns PROVE KillInv'
  BY <1>3, <1>14 DEF Fails, Turns
<1> QED
  BY <1>3, <1>4, <1>5, <1>6, <1>7, <1>9, <1>10, <1>11, <1>12, <1>13, <1>14, DisAssumption DEF Move

----------------------------------------------------------------------------
(* The invariant *)

LEMMA InitIInv == Init => IInv
<1> SUFFICES ASSUME Init PROVE IInv
  OBVIOUS
<1>20. /\ First \in Progs /\ Nil \notin Progs /\ Slots \in [Chans -> Nat]
  BY DisAssumption
<1>21. /\ \A c \in Chans : chan[c].send = <<>> /\ chan[c].recv = <<>> /\ chan[c].buf = <<>>
                           /\ sent[c] = <<>> /\ rcvd[c] = <<>> /\ cap[c] \in Nat
       /\ \A p \in Progs : want[p] = Nothing /\ want[p].s = {} /\ want[p].r = {} /\ ahead[p] = {}
                           /\ ptr[p] = Nil /\ doing[p] = Idle
  BY <1>20, NoOffer DEF Init
<1>22. runq = <<First>> /\ runq \in Seq(Progs) /\ Len(runq) = 1 /\ runq[1] = First
  BY <1>20 DEF Init
<1>1. TypeOK
  <2>1. chan \in [Chans -> [send : Seq(Progs), recv : Seq(Progs), buf : Seq(Vals)]]
    BY DEF Init
  <2>2. \A c \in Chans : Len(chan[c].buf) <= cap[c]
    BY <1>21
  <2>3. want \in [Progs -> Offers] /\ ptr \in [Progs -> Vals \cup {Nil}] /\ ahead \in [Progs -> SUBSET Progs]
    BY NoOffer DEF Init
  <2>4. sent \in [Chans -> Seq(Vals)] /\ rcvd \in [Chans -> Seq(Vals)] /\ cap \in [Chans -> Nat]
    BY <1>20 DEF Init
  <2>5. doing \in [Progs -> Calls]
    BY IdleIs DEF Init
  <2>6. /\ state \in [Progs -> {"none", "ready", "send", "recv", "alt", "release",
                                "broken", "exiting", "dead"}]
        /\ kill \in [Progs -> BOOLEAN] /\ group \in [Progs -> Progs \cup {Nil}]
        /\ gkilled \in SUBSET Progs /\ reused \in SUBSET Progs
    BY <1>20 DEF Init
  <2> QED
    BY <1>22, <2>1, <2>2, <2>3, <2>4, <2>5, <2>6 DEF TypeOK, Calls
<1>2. AheadInv
  BY <1>21 DEF AheadInv
<1>3. QueueInv
  BY <1>21 DEF QueueInv, Elems, OrderedBy, Senders, Receivers
<1>4. RunqMatches
  <2>1. \A p \in Progs : (state[p] = "ready" <=> p = First) /\ state[p] \notin {"send", "recv", "alt"}
    BY DEF Init
  <2> QED
    BY <1>20, <1>21, <1>22, <2>1 DEF RunqMatches
<1>5. NoMissedRendezvous
  BY <1>21 DEF NoMissedRendezvous
<1>6. InOrder
  <2>1. ASSUME NEW s \in Seq(Vals), s = <<>> PROVE s \o s = <<>>
    BY <2>1
  <2>2. <<>> \in Seq(Vals)
    OBVIOUS
  <2>3. ASSUME NEW c \in Chans PROVE sent[c] = rcvd[c] \o chan[c].buf
    <3>1. rcvd[c] = <<>> /\ chan[c].buf = rcvd[c] /\ sent[c] = <<>>
      BY <1>21, <2>3
    <3> QED
      BY <2>1, <2>2, <3>1
  <2> QED
    BY <2>3 DEF InOrder
<1>7. CapInv
  BY DEF CapInv, Init
<1>8. DoingInv
  BY <1>20, <1>21, IdleIs DEF DoingInv
<1>9. GroupInv
  <2>1. \A q \in Progs : group[q] # Nil => q = First /\ group[q] = First /\ state[q] = "ready"
    BY <1>20 DEF Init
  <2> QED
    BY <1>21, <2>1, IdleIs DEF GroupInv, Led
<1>10. KillInv
  BY <1>21, IdleIs DEF KillInv, Claimed
<1> QED
  BY <1>1, <1>2, <1>3, <1>4, <1>5, <1>6, <1>7, <1>8, <1>9, <1>10 DEF IInv

LEMMA NextIInv == IInv /\ [Next]_vars => IInv'
<1> SUFFICES ASSUME IInv, [Next]_vars PROVE IInv'
  OBVIOUS
<1>1. chan' \in [Chans -> Boxes] /\ Effect
  BY Effects
<1>2. Move
  BY Moves
<1>3. TypeOK'
  <2>1. /\ state' \in [Progs -> States] /\ runq' \in Seq(Progs)
    BY <1>2, NextListed
  <2>2. /\ kill' \in [Progs -> BOOLEAN] /\ group' \in [Progs -> Progs \cup {Nil}]
        /\ gkilled' \in SUBSET Progs /\ doing' \in [Progs -> Calls] /\ reused' \in SUBSET Progs
    BY <1>2, NextProcTypes
  <2>3. /\ want' \in [Progs -> Offers] /\ ptr' \in [Progs -> Vals \cup {Nil}]
        /\ ahead' \in [Progs -> SUBSET Progs]
    BY <1>1, NextWaitTypes
  <2>4. cap' \in [Chans -> Nat] /\ \A c \in Chans : Len(chan'[c].buf) <= cap'[c]
    BY <1>1, NextBuffer
  <2>5. sent' \in [Chans -> Seq(Vals)] /\ rcvd' \in [Chans -> Seq(Vals)]
    BY <1>1, NextInOrder
  <2> QED
    BY <1>1, <2>1, <2>2, <2>3, <2>4, <2>5 DEF TypeOK, States, Calls, Boxes
<1>4. RunqMatches'
  <2>1. Distinct(runq') /\ Elems(runq') = Ready'
    BY <1>2, NextListed
  <2>2. \A x \in Progs : want'[x] # Nothing <=> state'[x] \in Waits
    BY <1>2, NextBlocked
  <2> QED
    BY <2>1, <2>2 DEF RunqMatches, Distinct, Elems, Ready, Waits
<1>5. AheadInv' /\ QueueInv' /\ NoMissedRendezvous' /\ InOrder' /\ CapInv'
  BY <1>1, NextAhead, NextQueue, NextMissed, NextInOrder, NextBuffer
<1>6. DoingInv' /\ GroupInv' /\ KillInv'
  BY <1>2, NextDoing, NextGroup, NextKill
<1> QED
  BY <1>3, <1>4, <1>5, <1>6 DEF IInv

\* The inductive invariant holds in every state: queues, run queue, buffers,
\* groups and the calls in progress fit together.
THEOREM Invariant == Spec => []IInv
<1>1. Init => IInv
  BY InitIInv
<1>2. IInv /\ [Next]_vars => IInv'
  BY NextIInv
<1> QED
  BY <1>1, <1>2, PTL DEF Spec

\* Between two instructions of any process the queues of a channel hold
\* exactly those who wait for it, in order, the run queue those who are ready,
\* and no value is lost, duplicated or reordered (altdone, cqdelp, addrun,
\* delrunq, cputb, cgetb, csendalt).
THEOREM AlwaysConsistent == Spec => []Consistent
<1>1. IInv => Consistent
  <2> SUFFICES ASSUME IInv PROVE Consistent
    OBVIOUS
  <2>1. ASSUME NEW S, NEW s \in Seq(Progs), Distinct(s), Elems(s) = S, OrderedBy(s, ahead)
        PROVE  Lists(s, S)
    <3>1. Len(s) = Cardinality(S)
      BY <2>1, DistinctCounts
    <3> QED
      BY <2>1, <3>1 DEF Lists, Elems, OrderedBy
  <2>2. \A c \in Chans : OrderedBy(chan[c].send, ahead) /\ OrderedBy(chan[c].recv, ahead)
    BY DEF IInv, QueueInv
  <2>3. QueuesMatch
    BY <2>1, <2>2, QueueFacts DEF QueuesMatch, Senders, Receivers
  <2> QED
    BY <2>3 DEF Consistent, IInv
<1> QED
  BY <1>1, Invariant, PTL

\* Nobody waits for a partner who is there (isend, irecv, altrdy, csendalt,
\* killprog).
THEOREM RendezvousNotMissed == Spec => []NoMissedRendezvous
<1>1. IInv => NoMissedRendezvous
  BY DEF IInv
<1> QED
  BY <1>1, Invariant, PTL

\* When killgrp returns, nobody of the group is left who will execute again,
\* whoever was spawned, left or killed while it waited for the interpreter; a
\* group in reused, made where a killer from outside expected another, excepted.
THEOREM KillgrpIsComplete == Spec => KillgrpComplete
<1>1. IInv /\ [Next]_vars =>
        [\A p \in Progs :
           doing[p].op = "killgrp" /\ doing'[p].op = "none" /\ doing[p].g \notin reused =>
             \A q \in Members(doing[p].g) \ {p} : Doomed(q)]_vars
  <2> SUFFICES ASSUME IInv, [Next]_vars, NEW p \in Progs,
                      doing[p].op = "killgrp", doing'[p].op = "none", doing[p].g \notin reused
               PROVE  \A q \in Members(doing[p].g) \ {p} : Doomed(q)
    OBVIOUS
  <2>1. \A q \in Members(doing[p].g) \ {p} : q \in doing[p].todo \/ Doomed(q)
    <3>1. Members(doing[p].g) # {} => Claimed(p)
      BY DEF Claimed, Members
    <3> QED
      BY <3>1 DEF IInv, KillInv
  <2>2. Move
    BY Moves
  <2>3. ASSUME NEW x \in Progs, NEW q, NEW v, Proceeds(x, q, v) PROVE FALSE
    BY <2>3 DEF Proceeds, Does
  <2>4. ASSUME NEW x \in Progs, NEW o, NEW v, NEW g, Goes(x, o, v, g) PROVE FALSE
    BY <2>4 DEF Goes, Does
  <2>5. ASSUME NEW x \in Progs, NEW v \in Progs \cup {Nil}, Returns(x, v) PROVE FALSE
    BY <2>5 DEF Returns, Does
  <2>6. ASSUME NEW x \in Progs, NEW g \in Progs, Begins(x, g) PROVE FALSE
    BY <2>6 DEF Begins, Does
  <2>7. ASSUME NEW x \in Progs, Ends(x) PROVE doing[p].todo = {}
    BY <2>7 DEF Ends, Does
  <2>8. doing[p].todo = {}
    BY <2>2, <2>3, <2>4, <2>5, <2>6, <2>7 DEF Move, Fails, Leads, Spawns, Dooms, Skips, Cuts, Turns
  <2> QED
    BY <2>1, <2>8
<1> QED
  BY <1>1, Invariant, PTL DEF Spec, KillgrpComplete

----------------------------------------------------------------------------
(* Rendezvous *)

\* The oldest value of a channel, where r is what was received and b what is
\* in the buffer.
LEMMA Oldest ==
  ASSUME NEW r \in Seq(Vals), NEW b \in Seq(Vals), NEW v \in Vals
  PROVE  /\ Len(r \o b) - Len(r) = Len(b)
         /\ b = <<>> => Append(r \o b, v)[Len(r) + 1] = v
         /\ b # <<>> => /\ (r \o b)[Len(r) + 1] = Head(b)
                        /\ Append(r \o b, v)[Len(r) + 1] = Head(b)
<1>1. /\ Len(r \o b) = Len(r) + Len(b) /\ Len(r) \in Nat /\ Len(b) \in Nat
      /\ Append(r \o b, v)[Len(r \o b) + 1] = v
  OBVIOUS
<1>2. CASE b = <<>>
  BY <1>1, <1>2
<1>3. CASE b # <<>>
  <2>1. Len(b) > 0 /\ Head(b) = b[1]
    BY <1>3
  <2>2. (r \o b)[Len(r) + 1] = b[1]
    BY <1>1, <2>1
  <2>3. Append(r \o b, v)[Len(r) + 1] = (r \o b)[Len(r) + 1]
    BY <1>1, <2>1
  <2> QED
    BY <1>1, <1>3, <2>1, <2>2, <2>3
<1> QED
  BY <1>1, <1>2, <1>3

\* What Rendezvous sees of the queues and the buffers.
LEMMA Seen ==
  ASSUME IInv
  PROVE  /\ Abs!Nothing = Nothing /\ Abs!Offers = Offers /\ Abs!Waiting = Waiting
         /\ \A c \in Chans :
              /\ Abs!InBuffer(c) = Len(chan[c].buf)
              /\ chan[c].send = <<>> <=> Abs!Senders(c) = {}
              /\ chan[c].recv = <<>> <=> Abs!Receivers(c) = {}
              /\ chan[c].send # <<>> => Abs!Longest(Head(chan[c].send), Abs!Senders(c))
              /\ chan[c].recv # <<>> => Abs!Longest(Head(chan[c].recv), Abs!Receivers(c))
<1>1. /\ Abs!Nothing = Nothing /\ Abs!Offers = Offers
  BY DEF Abs!Nothing, Nothing, Abs!Offers, Offers
<1>2. Abs!Waiting = Waiting
  BY <1>1 DEF Abs!Waiting, Waiting
<1>3. ASSUME NEW c \in Chans PROVE Abs!InBuffer(c) = Len(chan[c].buf)
  <2>1. rcvd[c] \in Seq(Vals) /\ chan[c].buf \in Seq(Vals)
    BY WaitTypes, QueueFacts
  <2>2. PICK v : v \in Vals
    BY DisAssumption
  <2>3. sent[c] = rcvd[c] \o chan[c].buf
    BY DEF IInv, InOrder
  <2> QED
    BY <2>1, <2>2, <2>3, Oldest, ZenonT(40) DEF Abs!InBuffer
<1>4. ASSUME NEW c \in Chans
      PROVE  Abs!Senders(c) = Elems(chan[c].send) /\ Abs!Receivers(c) = Elems(chan[c].recv)
  BY QueueFacts DEF Abs!Senders, Abs!Receivers, Senders, Receivers
<1>5. ASSUME NEW s \in Seq(Progs), OrderedBy(s, ahead)
      PROVE  /\ s = <<>> <=> Elems(s) = {}
             /\ s # <<>> => Abs!Longest(Head(s), Elems(s))
  <2>1. \A x, y \in Progs : y \in ahead[x] => x \notin ahead[y]
    BY DEF IInv, AheadInv
  <2>2. s # <<>> => Head(s) \in Elems(s) /\ \A x \in Elems(s) : x \notin ahead[Head(s)]
    BY <1>5, <2>1, OrderedDistinct, ElemsOf
  <2> QED
    BY <1>5, <2>2, ElemsOf DEF Abs!Longest
<1>6. \A c \in Chans : OrderedBy(chan[c].send, ahead) /\ OrderedBy(chan[c].recv, ahead)
  BY DEF IInv, QueueInv
<1> QED
  BY <1>1, <1>2, <1>3, <1>4, <1>5, <1>6, QueueFacts

\* A wait is a wait.
LEMMA BlocksIsWait ==
  ASSUME IInv, NEW p \in Progs, NEW a \in Offers, NEW v \in Vals \cup {Nil}, Blocks(p, a, v)
  PROVE  Abs!Wait(p, a)
<1>1. \A c \in a.s : c \in Chans /\ ~Abs!CanSend(c)
  BY Seen DEF Abs!CanSend, Blocks, CanPut, Offers
<1>2. \A c \in a.r : c \in Chans /\ ~Abs!CanRecv(c)
  <2>1. ASSUME NEW c \in a.r PROVE c \in Chans /\ chan[c].buf = <<>> /\ chan[c].send = <<>>
    BY <2>1 DEF Blocks, CanGet, Offers
  <2> QED
    BY <2>1, Seen DEF Abs!CanRecv
<1>3. want'[p] = a
  BY WaitTypes DEF Blocks
<1> QED
  BY <1>1, <1>2, <1>3, Seen DEF Abs!Wait, Blocks

\* A value given to a waiting receiver is a send.
LEMMA GivesIsSend ==
  ASSUME IInv, Awake, NEW c \in Chans, NEW v \in Vals, NEW q \in Progs, Gives(c, v, q)
  PROVE  Abs!Send(c, v)
<1>1. rcvd[c] \in Seq(Vals) /\ chan[c].buf \in Seq(Vals) /\ rcvd \in [Chans -> Seq(Vals)]
  BY WaitTypes, QueueFacts
<1>2. chan[c].buf = <<>> /\ sent[c] = rcvd[c] \o chan[c].buf
  BY DEF IInv, InOrder, NoMissedRendezvous, Gives
<1>3. Append(sent[c], v)[Len(rcvd[c]) + 1] = v
  BY <1>1, <1>2, Oldest
<1>4. Abs!Take(c, Append(sent[c], v))
  BY <1>3 DEF Abs!Take, Gives
<1>5. Abs!Served(q) /\ Abs!Complete(c, v)
  BY Seen DEF Abs!Served, Abs!Complete, Gives, Leaves
<1>6. Abs!Longest(q, Abs!Receivers(c)) /\ q \in Abs!Receivers(c)
  BY Seen DEF Gives, Abs!Longest
<1>7. Abs!Waiting # Progs
  BY Seen DEF Awake, Waiting
<1> QED
  BY <1>4, <1>5, <1>6, <1>7 DEF Abs!Send, Gives

\* A value put into a buffer is a send, or makes the buffer.
LEMMA PutsIsSend ==
  ASSUME IInv, Awake, NEW c \in Chans, NEW v \in Vals, Puts(c, v)
  PROVE  Abs!Send(c, v) \/ Abs!Grow(c, v)
<1>1. Abs!Receivers(c) = {} /\ Abs!Complete(c, v)
  BY Seen DEF Puts, Abs!Complete
<1>2. Abs!Waiting # Progs
  BY Seen DEF Awake, Waiting
<1>3. CASE CanPut(c) /\ UNCHANGED cap
  <2>1. Abs!InBuffer(c) < cap[c]
    BY <1>3, Seen DEF CanPut
  <2> QED
    BY <1>1, <1>2, <1>3, <2>1 DEF Abs!Send, Puts, Stay
<1>4. CASE cap[c] = 0 /\ cap' = [cap EXCEPT ![c] = Room]
  BY <1>1, <1>4 DEF Abs!Grow, Puts, Stay
<1> QED
  BY <1>3, <1>4 DEF Puts

\* A value taken from a waiting sender, or through the buffer, is a receive.
LEMMA TakesIsRecv ==
  ASSUME IInv, Awake, NEW c \in Chans, NEW q \in Progs, Takes(c, q)
  PROVE  Abs!Recv(c)
<1>1. /\ rcvd[c] \in Seq(Vals) /\ chan[c].buf \in Seq(Vals) /\ rcvd \in [Chans -> Seq(Vals)]
      /\ ptr[q] \in Vals /\ (cap[c] > 0 => chan[c].buf # <<>>)
  BY WaitTypes, QueueFacts, HeadWaits DEF Takes
<1>2. sent[c] = rcvd[c] \o chan[c].buf
  BY DEF IInv, InOrder
<1>3. ~(cap[c] > 0) => chan[c].buf = <<>>
  <2>1. cap[c] \in Nat /\ Len(chan[c].buf) \in Nat /\ Len(chan[c].buf) <= cap[c]
    BY WaitTypes
  <2> QED
    BY <1>1, <2>1
<1>4. Append(sent[c], ptr[q])[Len(rcvd[c]) + 1] = IF cap[c] > 0 THEN Head(chan[c].buf) ELSE ptr[q]
  BY <1>1, <1>2, <1>3, Oldest
<1>5. Abs!Take(c, Append(sent[c], ptr[q]))
  BY <1>4 DEF Abs!Take, Takes
<1>6. Abs!Served(q) /\ Abs!Complete(c, ptr[q])
  BY Seen DEF Abs!Served, Abs!Complete, Takes, Leaves
<1>7. Abs!Longest(q, Abs!Senders(c)) /\ q \in Abs!Senders(c)
  BY Seen DEF Takes, Abs!Longest
<1>8. Abs!Waiting # Progs
  BY Seen DEF Awake, Waiting
<1> QED
  BY <1>5, <1>6, <1>7, <1>8 DEF Abs!Recv, Takes

\* So is one from the buffer when no sender waits.
LEMMA GetsIsRecv ==
  ASSUME IInv, Awake, NEW c \in Chans, Gets(c)
  PROVE  Abs!Recv(c)
<1>1. /\ rcvd[c] \in Seq(Vals) /\ chan[c].buf \in Seq(Vals) /\ rcvd \in [Chans -> Seq(Vals)]
      /\ chan[c].buf # <<>>
  BY WaitTypes, QueueFacts DEF Gets, CanGet
<1>2. sent[c] = rcvd[c] \o chan[c].buf
  BY DEF IInv, InOrder
<1>3. PICK v : v \in Vals
  BY DisAssumption
<1>4. sent[c][Len(rcvd[c]) + 1] = Head(chan[c].buf)
  BY <1>1, <1>2, <1>3, Oldest
<1>5. Abs!Take(c, sent[c])
  BY <1>4 DEF Abs!Take, Gets
<1>6. Abs!InBuffer(c) > 0
  BY <1>1, Seen
<1>7. Abs!Senders(c) = {}
  BY Seen DEF Gets
<1>8. Abs!Waiting # Progs
  BY Seen DEF Awake, Waiting
<1> QED
  BY <1>5, <1>6, <1>7, <1>8 DEF Abs!Recv, Gets, Stay

\* A killed process withdraws its offers; it may have none.
LEMMA WithdrawsIsWithdraw ==
  ASSUME IInv, NEW q \in Progs, Withdraws(q)
  PROVE  Abs!Withdraw(q) \/ UNCHANGED Abs!vars
<1>1. CASE want[q] # Nothing
  BY <1>1, Seen DEF Abs!Withdraw, Abs!Served, Withdraws, Leaves
<1>2. CASE want[q] = Nothing
  <2>1. ahead[q] = {} /\ ptr[q] = Nil /\ \A x \in Progs : q \notin ahead[x]
    BY <1>2 DEF IInv, AheadInv
  <2>2. want' = want /\ ptr' = ptr
    BY <1>2, <2>1, WaitTypes DEF Withdraws, Leaves
  <2>3. ahead' = ahead
    BY <2>1, WaitTypes DEF Withdraws, Leaves
  <2> QED
    BY <2>2, <2>3 DEF Abs!vars, Withdraws
<1> QED
  BY <1>1, <1>2

\* The virtual machine keeps what Limbo promises about channels: a process
\* waits only if nothing it offers can be done, the longest waiting partner is
\* served, and values arrive once and in order, whatever the run queue, the
\* marks of alts, kills and csendalt's buffers do in between.
THEOREM ImplementsRendezvous == Spec => RendezvousSpec
<1>1. Init => Abs!Init
  BY DisAssumption DEF Init, Abs!Init, Nothing, Abs!Nothing
<1>2. IInv /\ [Next]_vars => [Abs!Next]_(Abs!vars)
  <2> SUFFICES ASSUME IInv, [Next]_vars PROVE Abs!Next \/ UNCHANGED Abs!vars
    OBVIOUS
  <2>1. Effect /\ (Quiet \/ Awake)
    BY Effects
  <2>2. CASE Quiet
    BY <2>2 DEF Quiet, Abs!vars
  <2>3. ASSUME NEW p \in Progs, NEW a \in Offers, NEW v \in Vals \cup {Nil}, Blocks(p, a, v)
        PROVE  Abs!Next
    BY <2>3, BlocksIsWait, Seen DEF Abs!Next
  <2>4. ASSUME Awake, NEW c \in Chans, NEW v \in Vals, NEW q \in Progs, Gives(c, v, q) PROVE Abs!Next
    BY <2>4, GivesIsSend DEF Abs!Next
  <2>5. ASSUME Awake, NEW c \in Chans, NEW v \in Vals, Puts(c, v) PROVE Abs!Next
    BY <2>5, PutsIsSend DEF Abs!Next
  <2>6. ASSUME Awake, NEW c \in Chans, NEW q \in Progs, Takes(c, q) PROVE Abs!Next
    BY <2>6, TakesIsRecv DEF Abs!Next
  <2>7. ASSUME Awake, NEW c \in Chans, Gets(c) PROVE Abs!Next
    BY <2>7, GetsIsRecv DEF Abs!Next
  <2>8. ASSUME NEW q \in Progs, Withdraws(q) PROVE Abs!Next \/ UNCHANGED Abs!vars
    BY <2>8, WithdrawsIsWithdraw DEF Abs!Next
  <2> QED
    BY <2>1, <2>2, <2>3, <2>4, <2>5, <2>6, <2>7, <2>8 DEF Effect
<1> QED
  BY <1>1, <1>2, Invariant, PTL DEF Spec, RendezvousSpec, Abs!Spec

=============================================================================
