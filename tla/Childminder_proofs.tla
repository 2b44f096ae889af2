------------------------- MODULE Childminder_proofs -------------------------
(***************************************************************************)
(* Proofs about the queues of lib/xwmsrv.b and the process childminder that *)
(* uses them, for any number of messages.                                   *)
(***************************************************************************)
EXTENDS Childminder, SequenceTheorems, FiniteSetTheorems,
        WellFoundedInduction, TLAPS

(***************************************************************************)
(* Iqueue and Squeue hold a sequence: put appends, get takes the head       *)
(***************************************************************************)

\* Reversing keeps length and elements.
LEMMA RevProperties ==
    ASSUME NEW S, NEW s \in Seq(S)
    PROVE  /\ Rev(s) \in Seq(S)
           /\ Len(Rev(s)) = Len(s)
           /\ \A i \in 1..Len(s) : Rev(s)[i] = s[Len(s) + 1 - i]
<1>1. Len(s) \in Nat
  OBVIOUS
<1>2. \A i \in 1..Len(s) : s[Len(s) + 1 - i] \in S
  <2> TAKE i \in 1..Len(s)
  <2>1. Len(s) + 1 - i \in 1..Len(s)
    BY <1>1
  <2> QED BY <2>1
<1> QED BY <1>1, <1>2 DEF Rev

\* Consing on the reversed back of the queue appends to the queue.
LEMMA PutAppends ==
    ASSUME NEW S, NEW q \in [h : Seq(S), t : Seq(S)], NEW x \in S
    PROVE  /\ put(q, x) \in [h : Seq(S), t : Seq(S)]
           /\ Contents(put(q, x)) = Append(Contents(q), x)
<1> DEFINE t == <<x>> \o q.t
           m == Len(q.h)
           n == Len(q.t)
<1>1. q.h \in Seq(S) /\ q.t \in Seq(S) /\ m \in Nat /\ n \in Nat
  OBVIOUS
<1>2. /\ t \in Seq(S) /\ Len(t) = n + 1 /\ t[1] = x
      /\ \A i \in 1..n : t[i+1] = q.t[i]
  <2>1. <<x>> \in Seq(S) /\ Len(<<x>>) = 1 /\ <<x>>[1] = x
    OBVIOUS
  <2>2. /\ t \in Seq(S) /\ Len(t) = 1 + n
        /\ \A i \in 1..(1 + n) : t[i] = IF i <= 1 THEN <<x>>[i] ELSE q.t[i - 1]
    BY <1>1, <2>1, ConcatProperties
  <2> HIDE DEF t
  <2>3. \A i \in 1..n : i + 1 \in 1..(1 + n) /\ ~(i + 1 <= 1) /\ (i + 1) - 1 = i
    BY <1>1
  <2>4. 1 \in 1..(1 + n)
    BY <1>1
  <2> QED BY <1>1, <2>1, <2>2, <2>3, <2>4
<1>3. put(q, x).h = q.h /\ put(q, x).t = t
  BY DEF put
<1> HIDE DEF t
<1>4. /\ Rev(t) \in Seq(S) /\ Len(Rev(t)) = n + 1
      /\ \A i \in 1..(n + 1) : Rev(t)[i] = t[(n + 1) + 1 - i]
  BY <1>2, RevProperties
<1>5. /\ Rev(q.t) \in Seq(S) /\ Len(Rev(q.t)) = n
      /\ \A i \in 1..n : Rev(q.t)[i] = q.t[n + 1 - i]
  BY <1>1, RevProperties
<1> DEFINE c == q.h \o Rev(q.t)
           d == q.h \o Rev(t)
<1>6. /\ d \in Seq(S) /\ Len(d) = m + (n + 1)
      /\ \A i \in 1..(m + (n + 1)) : d[i] = IF i <= m THEN q.h[i] ELSE Rev(t)[i - m]
  <2> DEFINE g == q.h
             r == Rev(t)
  <2>1. g \in Seq(S) /\ r \in Seq(S) /\ Len(r) = n + 1
    BY <1>1, <1>4
  <2> HIDE DEF g, r
  <2>2. /\ g \o r \in Seq(S) /\ Len(g \o r) = Len(g) + Len(r)
        /\ \A i \in 1..(Len(g) + Len(r)) :
              (g \o r)[i] = IF i <= Len(g) THEN g[i] ELSE r[i - Len(g)]
    BY <2>1, ConcatProperties
  <2> QED BY <2>1, <2>2 DEF g, r
<1>7. /\ c \in Seq(S) /\ Len(c) = m + n
      /\ \A i \in 1..(m + n) : c[i] = IF i <= m THEN q.h[i] ELSE Rev(q.t)[i - m]
  <2> DEFINE g == q.h
             r == Rev(q.t)
  <2>1. g \in Seq(S) /\ r \in Seq(S) /\ Len(r) = n
    BY <1>1, <1>5
  <2> HIDE DEF g, r
  <2>2. /\ g \o r \in Seq(S) /\ Len(g \o r) = Len(g) + Len(r)
        /\ \A i \in 1..(Len(g) + Len(r)) :
              (g \o r)[i] = IF i <= Len(g) THEN g[i] ELSE r[i - Len(g)]
    BY <2>1, ConcatProperties
  <2> QED BY <2>1, <2>2 DEF g, r
<1> HIDE DEF c, d, m, n
<1>8. /\ Append(c, x) \in Seq(S) /\ Len(Append(c, x)) = (m + n) + 1
      /\ \A i \in 1..(m + n) : Append(c, x)[i] = c[i]
      /\ Append(c, x)[(m + n) + 1] = x
  <2>1. c \in Seq(S) /\ Len(c) = m + n
    BY <1>7
  <2> QED BY <1>1, <2>1
<1>9. \A i \in 1..(m + (n + 1)) : d[i] = Append(c, x)[i]
  <2> TAKE i \in 1..(m + (n + 1))
  <2>1. CASE i <= m
    <3>1. i \in 1..(m + n)
      BY <1>1, <2>1
    <3>2. d[i] = q.h[i] /\ c[i] = q.h[i]
      BY <1>6, <1>7, <2>1, <3>1
    <3> QED BY <1>8, <3>1, <3>2
  <2>2. CASE i > m /\ i <= m + n
    <3>1. /\ i \in 1..(m + n) /\ i - m \in 1..n /\ i - m \in 1..(n + 1)
          /\ n + 1 - (i - m) \in 1..n
          /\ (n + 1) + 1 - (i - m) = (n + 1 - (i - m)) + 1
          /\ ~(i <= m)
      BY <1>1, <2>2
    <3>2. d[i] = Rev(t)[i - m] /\ c[i] = Rev(q.t)[i - m]
      BY <1>6, <1>7, <3>1
    <3>3. Rev(t)[i - m] = t[(n + 1 - (i - m)) + 1]
      BY <1>4, <3>1
    <3>4. Rev(q.t)[i - m] = q.t[n + 1 - (i - m)]
      BY <1>5, <3>1
    <3> QED BY <1>2, <1>8, <3>1, <3>2, <3>3, <3>4
  <2>3. CASE i = (m + n) + 1
    <3>1. i - m = n + 1 /\ ~(i <= m) /\ n + 1 \in 1..(n + 1) /\ (n + 1) + 1 - (n + 1) = 1
      BY <1>1, <2>3
    <3>2. d[i] = Rev(t)[n + 1]
      BY <1>6, <3>1
    <3>3. Rev(t)[n + 1] = t[1]
      BY <1>4, <3>1
    <3> QED BY <1>2, <1>8, <2>3, <3>2, <3>3
  <2>4. i <= m \/ (i > m /\ i <= m + n) \/ i = (m + n) + 1
    BY <1>1
  <2> QED BY <2>1, <2>2, <2>3, <2>4
<1>10. d = Append(c, x)
  <2>1. d \in Seq(S) /\ Len(d) = m + (n + 1) /\ Len(Append(c, x)) = Len(d)
    BY <1>1, <1>6, <1>8
  <2> QED BY <1>8, <1>9, <2>1, SeqEqual
<1>11. put(q, x) \in [h : Seq(S), t : Seq(S)]
  BY <1>1, <1>2 DEF put, t
<1> QED BY <1>3, <1>10, <1>11 DEF Contents, c, d

\* Refilling the front changes nothing, and fills it if there is anything.
LEMMA TurnKeeps ==
    ASSUME NEW S, NEW q \in [h : Seq(S), t : Seq(S)]
    PROVE  /\ Turn(q) \in [h : Seq(S), t : Seq(S)]
           /\ Contents(Turn(q)) = Contents(q)
           /\ nonempty(q) => Turn(q).h # <<>>
<1>1. q.h \in Seq(S) /\ q.t \in Seq(S)
  OBVIOUS
<1>2. Rev(q.t) \in Seq(S) /\ Len(Rev(q.t)) = Len(q.t)
  BY <1>1, RevProperties
<1>3. CASE q.h = <<>>
  <2>1. Turn(q) = [h |-> Rev(q.t), t |-> <<>>]
    BY <1>3 DEF Turn
  <2>2. Rev(<<>>) = <<>>
    BY DEF Rev
  <2>3. Contents(Turn(q)) = Rev(q.t) \o <<>> /\ Contents(q) = <<>> \o Rev(q.t)
    <3>1. Turn(q).h = Rev(q.t) /\ Turn(q).t = <<>>
      BY <2>1
    <3>2. Contents(Turn(q)) = Rev(q.t) \o Rev(<<>>)
      BY <3>1, Zenon DEF Contents
    <3>3. Contents(q) = <<>> \o Rev(q.t)
      BY <1>3, Zenon DEF Contents
    <3> QED BY <2>2, <3>2, <3>3
  <2>4. Contents(Turn(q)) = Contents(q)
    BY <1>2, <2>3, ConcatEmptySeq
  <2>5. nonempty(q) => Rev(q.t) # <<>>
    BY <1>1, <1>2, <1>3 DEF nonempty
  <2> QED BY <1>2, <2>1, <2>4, <2>5
<1>4. CASE q.h # <<>>
  BY <1>4 DEF Turn
<1> QED BY <1>3, <1>4

\* get takes the oldest element.
LEMMA GetTakesHead ==
    ASSUME NEW S, NEW q \in [h : Seq(S), t : Seq(S)], nonempty(q)
    PROVE  /\ get(q) \in [h : Seq(S), t : Seq(S)]
           /\ Contents(q) \in Seq(S) /\ Contents(q) # <<>>
           /\ Front(q) = Head(Contents(q)) /\ Front(q) \in S
           /\ Contents(get(q)) = Tail(Contents(q))
<1> DEFINE u == Turn(q)
<1>1. /\ u.h \in Seq(S) /\ u.t \in Seq(S) /\ u.h # <<>>
      /\ Contents(q) = u.h \o Rev(u.t)
  BY TurnKeeps DEF Contents
<1>2. Rev(u.t) \in Seq(S)
  BY <1>1, RevProperties
<1>3. get(q) = [h |-> Tail(u.h), t |-> u.t] /\ Front(q) = Head(u.h)
  BY DEF get, Front
<1> HIDE DEF u
<1> DEFINE a == u.h
           b == Rev(u.t)
<1>4. a \in Seq(S) /\ b \in Seq(S) /\ a # <<>>
  BY <1>1, <1>2
<1>5. Tail(a) \in Seq(S)
  BY <1>4
<1> HIDE DEF a, b
<1>6. /\ a \o b \in Seq(S) /\ Len(a \o b) = Len(a) + Len(b) /\ Len(a) > 0
      /\ (a \o b)[1] = a[1]
  <2>1. Len(a) > 0 /\ Len(a) \in Nat /\ Len(b) \in Nat
    BY <1>4
  <2> QED BY <1>4, <2>1, ConcatProperties
<1>7. a \o b # <<>> /\ Head(a \o b) = Head(a)
  BY <1>4, <1>6
<1>8. Tail(a \o b) = Tail(a) \o b
  <2>1. /\ Tail(a \o b) \in Seq(S) /\ Len(Tail(a \o b)) = Len(a) + Len(b) - 1
        /\ \A i \in 1..(Len(a) + Len(b) - 1) : Tail(a \o b)[i] = (a \o b)[i+1]
    BY <1>6, <1>7, HeadTailProperties
  <2>2. /\ Len(Tail(a)) = Len(a) - 1
        /\ \A i \in 1..(Len(a) - 1) : Tail(a)[i] = a[i+1]
    BY <1>4, HeadTailProperties
  <2>3. /\ Tail(a) \o b \in Seq(S) /\ Len(Tail(a) \o b) = Len(a) - 1 + Len(b)
        /\ \A i \in 1..(Len(a) - 1 + Len(b)) :
              (Tail(a) \o b)[i] = IF i <= Len(a) - 1 THEN Tail(a)[i] ELSE b[i - (Len(a) - 1)]
    BY <1>4, <1>5, <2>2, ConcatProperties
  <2>4. Len(a) \in Nat /\ Len(b) \in Nat
    BY <1>4
  <2>5. ASSUME NEW i \in 1..(Len(a) - 1 + Len(b))
        PROVE  Tail(a \o b)[i] = (Tail(a) \o b)[i]
    <3>1. i \in 1..(Len(a) + Len(b) - 1) /\ i + 1 \in 1..(Len(a) + Len(b))
      BY <2>4
    <3>2. (a \o b)[i+1] = IF i + 1 <= Len(a) THEN a[i+1] ELSE b[(i + 1) - Len(a)]
      BY <1>4, <3>1, ConcatProperties
    <3>3. CASE i + 1 <= Len(a)
      <4>1. i <= Len(a) - 1 /\ i \in 1..(Len(a) - 1)
        BY <2>4, <3>3
      <4> QED BY <2>1, <2>2, <2>3, <3>1, <3>2, <3>3, <4>1
    <3>4. CASE ~(i + 1 <= Len(a))
      <4>1. ~(i <= Len(a) - 1) /\ (i + 1) - Len(a) = i - (Len(a) - 1)
        BY <2>4, <3>4
      <4> QED BY <2>1, <2>3, <3>1, <3>2, <3>4, <4>1
    <3> QED BY <3>3, <3>4
  <2>6. Len(Tail(a \o b)) = Len(Tail(a) \o b)
        /\ Len(Tail(a \o b)) = Len(a) - 1 + Len(b)
    BY <2>1, <2>3, <2>4
  <2>7. \A i \in 1..Len(Tail(a \o b)) : Tail(a \o b)[i] = (Tail(a) \o b)[i]
    BY <2>5, <2>6
  <2> QED BY <2>1, <2>3, <2>6, <2>7, SeqEqual
<1>9. Contents(get(q)) = Tail(a) \o b
  <2>1. get(q).h = Tail(u.h) /\ get(q).t = u.t
    BY <1>3
  <2> QED BY <2>1, Zenon DEF Contents, a, b
<1>10. Contents(q) = a \o b
  BY <1>1 DEF a, b
<1>11. get(q) \in [h : Seq(S), t : Seq(S)]
  BY <1>1, <1>3, <1>5 DEF a
<1>12. Front(q) = Head(a) /\ Head(a) \in S
  BY <1>3, <1>4 DEF a
<1> QED BY <1>6, <1>7, <1>8, <1>9, <1>10, <1>11, <1>12

\* The numbers after a up to b are a sequence; the next one is appended to
\* it, and its head is the one after a.
LEMMA NumbersProperties ==
    ASSUME NEW a \in Nat, NEW b \in Nat, a <= b
    PROVE  /\ Numbers(a, b) \in Seq(Nat)
           /\ Append(Numbers(a, b), b + 1) = Numbers(a, b + 1)
           /\ Numbers(a, b) # <<>> =>
                 /\ a + 1 <= b
                 /\ Head(Numbers(a, b)) = a + 1
                 /\ Tail(Numbers(a, b)) = Numbers(a + 1, b)
<1>1. \A c, d \in Nat : c <= d =>
         /\ Numbers(c, d) \in Seq(Nat) /\ Len(Numbers(c, d)) = d - c
         /\ \A i \in 1..(d - c) : Numbers(c, d)[i] = c + i
  BY DEF Numbers
<1>2. Numbers(a, b) \in Seq(Nat) /\ Len(Numbers(a, b)) = b - a
      /\ \A i \in 1..(b - a) : Numbers(a, b)[i] = a + i
  BY <1>1
<1>3. Append(Numbers(a, b), b + 1) = Numbers(a, b + 1)
  <2> DEFINE s == Numbers(a, b)
             t == Numbers(a, b + 1)
  <2>1. t \in Seq(Nat) /\ Len(t) = (b + 1) - a /\ \A i \in 1..((b + 1) - a) : t[i] = a + i
    BY <1>1
  <2> HIDE DEF s, t
  <2>2. s \in Seq(Nat) /\ Len(s) = b - a /\ \A i \in 1..(b - a) : s[i] = a + i
    BY <1>2 DEF s
  <2>3. /\ Append(s, b + 1) \in Seq(Nat) /\ Len(Append(s, b + 1)) = (b + 1) - a
        /\ \A i \in 1..(b - a) : Append(s, b + 1)[i] = s[i]
        /\ Append(s, b + 1)[(b - a) + 1] = b + 1
    BY <2>2
  <2>4. \A i \in 1..((b + 1) - a) : Append(s, b + 1)[i] = t[i]
    <3> TAKE i \in 1..((b + 1) - a)
    <3>1. CASE i \in 1..(b - a)
      BY <2>1, <2>2, <2>3, <3>1
    <3>2. CASE i = (b - a) + 1
      BY <2>1, <2>3, <3>2
    <3>3. i \in 1..(b - a) \/ i = (b - a) + 1
      OBVIOUS
    <3> QED BY <3>1, <3>2, <3>3
  <2> QED BY <2>1, <2>3, <2>4, SeqEqual DEF s, t
<1>4. ASSUME Numbers(a, b) # <<>>
      PROVE  /\ a + 1 <= b
             /\ Head(Numbers(a, b)) = a + 1
             /\ Tail(Numbers(a, b)) = Numbers(a + 1, b)
  <2> DEFINE s == Numbers(a, b)
             t == Numbers(a + 1, b)
  <2> HIDE DEF s, t
  <2>1. s \in Seq(Nat) /\ Len(s) = b - a /\ \A i \in 1..(b - a) : s[i] = a + i
    BY <1>2 DEF s
  <2>2. s # <<>>
    BY <1>4 DEF s
  <2>3. a + 1 <= b
    BY <2>1, <2>2
  <2>4. t \in Seq(Nat) /\ Len(t) = b - (a + 1) /\ \A i \in 1..(b - (a + 1)) : t[i] = (a + 1) + i
    BY <1>1, <2>3 DEF t
  <2>5. Head(s) = a + 1
    BY <2>1, <2>2, <2>3
  <2>6. /\ Tail(s) \in Seq(Nat) /\ Len(Tail(s)) = (b - a) - 1
        /\ \A i \in 1..((b - a) - 1) : Tail(s)[i] = s[i+1]
    BY <2>1, <2>2, HeadTailProperties
  <2>7. \A i \in 1..((b - a) - 1) : Tail(s)[i] = t[i]
    <3> TAKE i \in 1..((b - a) - 1)
    <3>1. i + 1 \in 1..(b - a) /\ i \in 1..(b - (a + 1))
      OBVIOUS
    <3> QED BY <2>1, <2>4, <2>6, <3>1
  <2>8. Tail(s) = t
    <3>1. Len(Tail(s)) = Len(t)
      BY <2>4, <2>6
    <3> QED BY <2>4, <2>6, <2>7, <3>1, SeqEqual
  <2> QED BY <2>3, <2>5, <2>8 DEF s, t
<1> QED BY <1>2, <1>3, <1>4

(***************************************************************************)
(* Keys and control messages                                                *)
(***************************************************************************)

Queue == [h : Seq(Nat), t : Seq(Nat)]

\* q holds the messages after number g up to number n.
Holds(q, g, n) ==
    /\ q \in Queue /\ g \in Nat /\ n \in Nat /\ g <= n
    /\ Contents(q) = Numbers(g, n)

\* put extends the run of numbers a queue holds by the next one.
LEMMA HoldsPut ==
    ASSUME NEW q, NEW g, NEW n, Holds(q, g, n)
    PROVE  Holds(put(q, n + 1), g, n + 1)
<1>1. /\ q \in Queue /\ g \in Nat /\ n \in Nat /\ g <= n
      /\ Contents(q) = Numbers(g, n)
  BY DEF Holds
<1>2. put(q, n + 1) \in Queue /\ Contents(put(q, n + 1)) = Append(Contents(q), n + 1)
  <2>1. n + 1 \in Nat
    BY <1>1
  <2> QED BY <1>1, <2>1, PutAppends DEF Queue
<1>3. Contents(put(q, n + 1)) = Numbers(g, n + 1)
  BY <1>1, <1>2, NumbersProperties
<1> QED BY <1>1, <1>2, <1>3 DEF Holds

\* peek turns the lists at most: the run of numbers is the same.
LEMMA HoldsPeek ==
    ASSUME NEW q, NEW g, NEW n, Holds(q, g, n)
    PROVE  Holds(peek(q), g, n)
BY TurnKeeps DEF Holds, Queue, peek

\* get takes the oldest number and leaves the run that follows it.
LEMMA HoldsGet ==
    ASSUME NEW q, NEW g, NEW n, Holds(q, g, n), nonempty(q)
    PROVE  Holds(get(q), Front(q), n) /\ Front(q) = g + 1
<1>1. /\ get(q) \in Queue /\ Contents(q) # <<>>
      /\ Front(q) = Head(Contents(q))
      /\ Contents(get(q)) = Tail(Contents(q))
  BY GetTakesHead DEF Holds, Queue
<1>2. Contents(q) = Numbers(g, n) /\ g \in Nat /\ n \in Nat /\ g <= n
  BY DEF Holds
<1>3. g + 1 <= n /\ Head(Numbers(g, n)) = g + 1 /\ Tail(Numbers(g, n)) = Numbers(g + 1, n)
  BY <1>1, <1>2, NumbersProperties
<1> QED BY <1>1, <1>2, <1>3 DEF Holds

(***************************************************************************)
(* Pointer events                                                           *)
(***************************************************************************)

\* The events that are really sent: NoPtr stands for nil and is never queued.
Events == [id : 0..MaxPtrs, buttons : Buttons, at : 0..MaxPtrs]
PtrQueue == [h : Seq(Events), t : Seq(Events), last : PtrEvents]

\* Overwriting the queued event that last names keeps the list well typed.
LEMMA OverwriteOK ==
    ASSUME NEW l \in Seq(Events), NEW id, NEW e \in Events
    PROVE  Overwrite(l, id, e) \in Seq(Events)
<1>1. \A i \in 1..Len(l) : l[i] \in Events
  OBVIOUS
<1>2. \A i \in 1..Len(l) :
         (IF l[i].id = id THEN [l[i] EXCEPT !.at = e.at] ELSE l[i]) \in Events
  BY <1>1 DEF Events
<1> QED BY <1>2 DEF Overwrite

\* The operations of Ptrqueue keep its type.
LEMMA PtrputOK ==
    ASSUME NEW q \in PtrQueue, NEW e \in Events
    PROVE  ptrput(q, e) \in PtrQueue
<1>1. q.h \in Seq(Events) /\ q.t \in Seq(Events) /\ q.last \in PtrEvents /\ e \in PtrEvents
  BY DEF PtrQueue, Events, PtrEvents
<1>2. [q.last EXCEPT !.at = e.at] \in PtrEvents
  BY <1>1 DEF PtrEvents
<1>3. <<e>> \o q.t \in Seq(Events)
  BY <1>1
<1>4. CASE q.last # NoPtr /\ e.buttons = q.last.buttons
  BY <1>1, <1>2, <1>4, OverwriteOK DEF ptrput, PtrQueue
<1>5. CASE ~(q.last # NoPtr /\ e.buttons = q.last.buttons)
  <2>1. ptrput(q, e) = [h |-> q.h, t |-> <<e>> \o q.t, last |-> e]
    BY <1>5, Zenon DEF ptrput
  <2> QED BY <1>1, <1>3, <2>1 DEF PtrQueue
<1> QED BY <1>4, <1>5

\* Ptrqueue.peek keeps the queue well typed and brings the oldest event to the front list.
LEMMA PtrpeekOK ==
    ASSUME NEW q \in PtrQueue
    PROVE  /\ ptrpeek(q) \in PtrQueue
           /\ nonempty(q) => ptrpeek(q).h # <<>>
<1> DEFINE r == [h |-> q.h, t |-> q.t]
           u == Turn(r)
<1>1. r \in [h : Seq(Events), t : Seq(Events)]
  BY DEF PtrQueue
<1>2. u \in [h : Seq(Events), t : Seq(Events)] /\ (nonempty(r) => u.h # <<>>)
  BY <1>1, TurnKeeps
<1>3. nonempty(q) => nonempty(r)
  BY DEF nonempty
<1>4. ptrpeek(q) = [h |-> u.h, t |-> u.t, last |-> q.last]
  BY DEF ptrpeek
<1> HIDE DEF u
<1>5. q.last \in PtrEvents
  BY DEF PtrQueue
<1> QED BY <1>2, <1>3, <1>4, <1>5 DEF PtrQueue

\* Ptrqueue.get, called after peek, keeps the queue well typed.
LEMMA PtrgetOK ==
    ASSUME NEW q \in PtrQueue, q.h # <<>>
    PROVE  ptrget(q) \in PtrQueue
<1>1. Turn([h |-> q.h, t |-> q.t]) = [h |-> q.h, t |-> q.t]
  BY DEF Turn
<1>2. ptrget(q) = [h |-> Tail(q.h), t |-> q.t, last |-> IF Len(q.h) = 1 THEN NoPtr ELSE q.last]
  <2> DEFINE r == [h |-> q.h, t |-> q.t]
  <2>1. ptrget(q) = [h |-> Tail(Turn(r).h), t |-> Turn(r).t,
                     last |-> IF Len(Turn(r).h) = 1 THEN NoPtr ELSE q.last]
    BY Zenon DEF ptrget
  <2>2. Turn(r).h = q.h /\ Turn(r).t = q.t
    BY <1>1
  <2> HIDE DEF r
  <2> QED BY <2>1, <2>2
<1>3. Tail(q.h) \in Seq(Events) /\ q.t \in Seq(Events) /\ q.last \in PtrEvents
  BY DEF PtrQueue
<1>4. NoPtr \in PtrEvents
  BY ConstantsAssumption DEF NoPtr, PtrEvents
<1> QED BY <1>2, <1>3, <1>4 DEF PtrQueue

(***************************************************************************)
(* Types                                                                    *)
(***************************************************************************)

KbdQueue == [h : Seq(1..MaxKeys), t : Seq(1..MaxKeys)]
CtlQueue == [h : Seq(1..MaxCtls), t : Seq(1..MaxCtls)]

Counts == [kbd : 0..MaxKeys, ctl : 0..MaxCtls, ptr : 0..MaxPtrs]

\* TypeOK made inductive: nil is never queued, and the messages that are still
\* to come after a flush, or while windows are packed, are within the bounds.
TInv ==
    /\ polite \in BOOLEAN /\ moves \in BOOLEAN
    /\ phase \in {"reply", "run", "exited"}
    /\ kbdq \in KbdQueue /\ ctlq \in CtlQueue /\ ptrq \in PtrQueue
    /\ imgstate \in {"none", "send", "origin"}
    /\ window \in {"none", "nil", "image"} /\ unsent \in BOOLEAN
    /\ wm \in Doing
    /\ client \in {"connect", "idle", "request", "image1", "image2", "gone"}
    /\ sent \in Counts /\ got \in Counts
    /\ sentbuttons \in Seq(Buttons) /\ gotbuttons \in Seq(Buttons)
    /\ wm = "ptr" => sent.ptr < MaxPtrs
    /\ wm = "pack" => MayPack
    /\ wm \in {"answer", "rect"} => sent.ctl < MaxCtls

\* The invariant carried through the steps implies the module's type invariant.
LEMMA TInvTypeOK == TInv => TypeOK
<1> SUFFICES ASSUME TInv PROVE TypeOK
  OBVIOUS
<1>1. Events \subseteq PtrEvents
  BY DEF Events, PtrEvents
<1>2. Seq(Events) \subseteq Seq(PtrEvents)
  BY <1>1, SeqMonotonic
<1>3. ptrq \in [h : Seq(PtrEvents), t : Seq(PtrEvents), last : PtrEvents]
  BY <1>2 DEF TInv, PtrQueue
<1> QED BY <1>3, Zenon DEF TInv, TypeOK, KbdQueue, CtlQueue, Counts

\* Updating one counter within its bound keeps the record of counters well typed.
LEMMA CountsOK ==
    ASSUME NEW c \in Counts
    PROVE  /\ \A n \in 0..MaxKeys : [c EXCEPT !.kbd = n] \in Counts
           /\ \A n \in 0..MaxCtls : [c EXCEPT !.ctl = n] \in Counts
           /\ \A n \in 0..MaxPtrs : [c EXCEPT !.ptr = n] \in Counts
           /\ c.kbd \in 0..MaxKeys /\ c.ctl \in 0..MaxCtls /\ c.ptr \in 0..MaxPtrs
BY DEF Counts

\* A fresh childminder satisfies the typing invariant.
LEMMA InitTInv == Init => TInv
<1> SUFFICES ASSUME Init PROVE TInv
  OBVIOUS
<1> USE ConstantsAssumption DEF Init
<1>1. kbdq \in KbdQueue /\ ctlq \in CtlQueue
  BY DEF KbdQueue, CtlQueue, EmptyQueue
<1>2. NoPtr \in PtrEvents
  BY DEF NoPtr, PtrEvents
<1>3. ptrq \in PtrQueue
  BY <1>2 DEF PtrQueue, EmptyPtrqueue
<1>4. /\ sent \in Counts /\ got \in Counts
      /\ sentbuttons \in Seq(Buttons) /\ gotbuttons \in Seq(Buttons)
  BY DEF Counts
<1>5. polite \in BOOLEAN /\ moves \in BOOLEAN /\ unsent \in BOOLEAN
  BY Zenon
<1> QED BY <1>1, <1>3, <1>4, <1>5 DEF TInv, Doing

\* The queues at the head of the loop.
LEMMA PeekedOK ==
    ASSUME TInv
    PROVE  /\ Kbdq \in KbdQueue /\ Ctlq \in CtlQueue /\ Ptrq \in PtrQueue
           /\ phase = "run" /\ nonempty(ptrq) => Ptrq.h # <<>>
<1>1. kbdq \in KbdQueue /\ ctlq \in CtlQueue /\ ptrq \in PtrQueue
  BY DEF TInv
<1>2. Turn(kbdq) \in KbdQueue /\ Turn(ctlq) \in CtlQueue
  BY <1>1, TurnKeeps DEF KbdQueue, CtlQueue
<1> QED BY <1>1, <1>2, PtrpeekOK DEF Kbdq, Ctlq, Ptrq, peek

\* Sending a pointer event, from the main loop or after a flush.
LEMMA SendPtrOK ==
    ASSUME TInv, NEW b \in Buttons, SendPtr(b), sent.ptr < MaxPtrs
    PROVE  /\ kbdq' \in KbdQueue /\ ctlq' \in CtlQueue /\ ptrq' \in PtrQueue
           /\ sent' \in Counts /\ sentbuttons' \in Seq(Buttons)
<1> DEFINE n == sent.ptr + 1
           e == [id |-> n, buttons |-> b, at |-> n]
<1>1. sent \in Counts /\ sent.ptr \in 0..MaxPtrs /\ MaxPtrs \in Nat
  BY CountsOK, ConstantsAssumption DEF TInv
<1>2. n \in 0..MaxPtrs
  BY <1>1
<1>3. /\ sent' = [sent EXCEPT !.ptr = n] /\ ptrq' = ptrput(Ptrq, e)
      /\ sentbuttons' = Append(sentbuttons, b) /\ kbdq' = Kbdq /\ ctlq' = Ctlq
  BY DEF SendPtr
<1> HIDE DEF n
<1>4. e \in Events
  BY <1>2 DEF Events
<1> HIDE DEF e
<1>5. ptrq' \in PtrQueue
  BY <1>3, <1>4, PeekedOK, PtrputOK
<1>6. sent' \in Counts
  BY <1>1, <1>2, <1>3, CountsOK
<1>7. sentbuttons' \in Seq(Buttons)
  BY <1>3 DEF TInv
<1> QED BY <1>3, <1>5, <1>6, <1>7, PeekedOK

\* Sending a control message.
LEMMA SendCtlOK ==
    ASSUME TInv, SendCtl, sent.ctl < MaxCtls
    PROVE  /\ kbdq' \in KbdQueue /\ ctlq' \in CtlQueue /\ ptrq' \in PtrQueue
           /\ sent' \in Counts /\ sent'.ptr = sent.ptr /\ sent'.kbd = sent.kbd
           /\ sent'.ctl = sent.ctl + 1
<1> DEFINE n == sent.ctl + 1
<1>1. /\ sent \in Counts /\ sent.ctl \in 0..MaxCtls /\ MaxCtls \in Nat
      /\ Kbdq \in KbdQueue /\ Ctlq \in CtlQueue /\ Ptrq \in PtrQueue
  BY CountsOK, PeekedOK, ConstantsAssumption DEF TInv
<1>2. n \in 1..MaxCtls /\ n \in 0..MaxCtls
  BY <1>1
<1>3. /\ ctlq' = put(Ctlq, n) /\ kbdq' = Kbdq /\ ptrq' = Ptrq
      /\ sent' = [sent EXCEPT !.ctl = n]
  BY DEF SendCtl
<1> HIDE DEF n
<1>4. ctlq' \in CtlQueue
  BY <1>1, <1>2, <1>3, PutAppends DEF CtlQueue
<1>5. sent' \in Counts
  BY <1>1, <1>2, <1>3, CountsOK
<1>6. sent'.ptr = sent.ptr /\ sent'.kbd = sent.kbd /\ sent'.ctl = n
  BY <1>1, <1>3 DEF Counts
<1> QED BY <1>1, <1>3, <1>4, <1>5, <1>6 DEF n

\* Every alternative of the childminder's loop keeps the typing invariant.
LEMMA NextTInv == TInv /\ [Next]_vars => TInv'
<1> SUFFICES ASSUME TInv, [Next]_vars PROVE TInv'
  OBVIOUS
<1>q. Kbdq \in KbdQueue /\ Ctlq \in CtlQueue /\ Ptrq \in PtrQueue
  BY PeekedOK
<1>c. /\ MaxKeys \in Nat /\ MaxCtls \in Nat /\ MaxPtrs \in Nat
      /\ sent \in Counts /\ got \in Counts
      /\ sent.kbd \in 0..MaxKeys /\ sent.ctl \in 0..MaxCtls
  BY ConstantsAssumption, CountsOK DEF TInv
<1> USE DEF rules, images, history
<1>1. CASE Reply
  <2>1. /\ phase' = "run" /\ client' = "idle"
        /\ UNCHANGED <<polite, moves, kbdq, ptrq, ctlq, imgstate, wm, sent, got,
                       sentbuttons, gotbuttons, window, unsent>>
    BY <1>1 DEF Reply
  <2> QED BY <2>1, SMTT(40) DEF TInv, MayPack
<1>2. CASE WmKbd
  <2>1. sent.kbd + 1 \in 1..MaxKeys /\ sent.kbd + 1 \in 0..MaxKeys
    BY <1>2, <1>c DEF WmKbd
  <2>2. kbdq' \in KbdQueue
    BY <1>2, <1>q, <2>1, PutAppends DEF WmKbd, KbdQueue
  <2>3. sent' \in Counts
    BY <1>2, <2>1, <1>c, CountsOK DEF WmKbd
  <2>4. /\ ctlq' = Ctlq /\ ptrq' = Ptrq /\ wm = "idle"
        /\ UNCHANGED <<polite, moves, phase, imgstate, wm, client, got, sentbuttons, gotbuttons,
                       window, unsent>>
    BY <1>2 DEF WmKbd
  <2> QED BY <1>q, <2>2, <2>3, <2>4 DEF TInv
<1>3. CASE WmCtl
  <2>1. /\ SendCtl /\ sent.ctl < MaxCtls /\ wm = "idle"
        /\ UNCHANGED <<polite, moves, phase, imgstate, wm, client, got, sentbuttons, gotbuttons,
                       window, unsent>>
    BY <1>3 DEF WmCtl
  <2>2. /\ kbdq' \in KbdQueue /\ ctlq' \in CtlQueue /\ ptrq' \in PtrQueue /\ sent' \in Counts
    BY <2>1, SendCtlOK
  <2> QED BY <2>1, <2>2 DEF TInv
<1>4. ASSUME NEW b \in Buttons, WmPtr(b) PROVE TInv'
  <2>1. /\ SendPtr(b) /\ sent.ptr < MaxPtrs /\ wm = "idle"
        /\ UNCHANGED <<polite, moves, phase, imgstate, wm, client, got, gotbuttons, window, unsent>>
    BY <1>4 DEF WmPtr
  <2>2. /\ kbdq' \in KbdQueue /\ ctlq' \in CtlQueue /\ ptrq' \in PtrQueue
        /\ sent' \in Counts /\ sentbuttons' \in Seq(Buttons)
    BY <2>1, SendPtrOK
  <2> QED BY <2>1, <2>2 DEF TInv
<1>5. CASE WmFlush
  <2>1. flush(Ptrq) \in PtrQueue
    <3> DEFINE q == Ptrq
    <3>1. q \in PtrQueue
      BY <1>q
    <3> HIDE DEF q
    <3>2. flush(q) \in PtrQueue
      <4> DEFINE empty == <<>>
      <4>1. empty \in Seq(Events)
        OBVIOUS
      <4>2. flush(q) = [q EXCEPT !.h = empty, !.t = empty]
        BY DEF flush
      <4> HIDE DEF empty
      <4> QED BY <3>1, <4>1, <4>2 DEF PtrQueue
    <3> QED BY <3>2 DEF q
  <2>2. /\ ptrq' = flush(Ptrq) /\ kbdq' = Kbdq /\ ctlq' = Ctlq
        /\ wm' = "ptr" /\ sent.ptr < MaxPtrs
        /\ UNCHANGED <<polite, moves, phase, imgstate, client, sent, got, sentbuttons, gotbuttons,
                       window, unsent>>
    BY <1>5 DEF WmFlush
  <2> QED BY <1>q, <2>1, <2>2 DEF TInv, Doing
<1>6. ASSUME NEW b \in Buttons, WmMoved(b) PROVE TInv'
  <2>1. /\ SendPtr(b) /\ wm = "ptr" /\ wm' = "idle" /\ client' \in {"idle", client}
        /\ UNCHANGED <<polite, moves, phase, imgstate, got, gotbuttons, window, unsent>>
    BY <1>6 DEF WmMoved, Answered
  <2>2. sent.ptr < MaxPtrs
    BY <2>1 DEF TInv
  <2>3. /\ kbdq' \in KbdQueue /\ ctlq' \in CtlQueue /\ ptrq' \in PtrQueue
        /\ sent' \in Counts /\ sentbuttons' \in Seq(Buttons)
    BY <2>1, <2>2, SendPtrOK
  <2> QED BY <2>1, <2>3 DEF TInv, Doing
<1>7. CASE ClientRequest
  BY <1>7 DEF ClientRequest, TInv, MayPack
<1>8. CASE WmServe \/ WmMove
  <2>1. /\ UNCHANGED <<polite, moves, phase, kbdq, ptrq, ctlq, imgstate, sent, got,
                       sentbuttons, gotbuttons>>
        /\ Refuse \/ reshape("setimage") \/ reshape("ignored")
           \/ (wm' = "idle" /\ Answered /\ window' = "none" /\ UNCHANGED unsent)
    BY <1>8 DEF WmServe, WmMove
  <2>2. /\ wm' \in {"idle", "setorigin", "setimage", "ignored"}
        /\ client' \in {"idle", "image1", client} /\ window' \in {"none", "image", window}
        /\ unsent' \in {unsent, FALSE, polite}
    BY <2>1 DEF Refuse, reshape, Answered, Accepted
  <2>3. unsent' \in BOOLEAN
    BY <2>2, Zenon DEF TInv
  <2> QED BY <2>1, <2>2, <2>3 DEF TInv, Doing
<1>9. CASE Images
  <2>1. /\ imgstate' \in {"none", "send", "origin"} /\ wm' \in {"idle", "pack"}
        /\ client' \in {"idle", "image1", client}
        /\ wm' = "pack" => MayPack
        /\ kbdq' = Kbdq /\ ctlq' = Ctlq /\ ptrq' = Ptrq
        /\ UNCHANGED <<polite, moves, phase, sent, got, sentbuttons, gotbuttons, window>>
    BY <1>9 DEF Images, TakeImage, TInv, Answered, Accepted
  <2>2. unsent' \in {unsent, FALSE}
    BY <1>9 DEF Images, TakeImage, Accepted
  <2>3. unsent' \in BOOLEAN
    BY <2>2, Zenon DEF TInv
  <2> QED BY <1>q, <2>1, <2>3 DEF TInv, Doing, MayPack
<1>17. ASSUME NEW b \in Buttons, WmDrag(b) PROVE TInv'
  <2>1. UNCHANGED <<polite, moves, phase, imgstate, client, got, gotbuttons, window, unsent>>
    BY <1>17 DEF WmDrag
  <2>2. CASE SendPtr(b) /\ sent.ptr < MaxPtrs /\ wm' = "moved"
    <3>1. /\ kbdq' \in KbdQueue /\ ctlq' \in CtlQueue /\ ptrq' \in PtrQueue
          /\ sent' \in Counts /\ sentbuttons' \in Seq(Buttons)
      BY <2>2, SendPtrOK
    <3> QED BY <2>1, <2>2, <3>1 DEF TInv, Doing
  <2>3. CASE wm' = "broken" /\ UNCHANGED <<kbdq, ctlq, ptrq, sent, sentbuttons>>
    BY <2>1, <2>3 DEF TInv, Doing
  <2> QED BY <1>17, <2>2, <2>3 DEF WmDrag
<1>18. CASE WmPack
  <2>1. /\ SendCtl /\ MayPack /\ wm' \in {"rect", "answer"} /\ window' \in {"image", "nil"}
        /\ UNCHANGED <<polite, moves, phase, imgstate, client, got, sentbuttons, gotbuttons, unsent>>
    BY <1>18 DEF WmPack, TInv
  <2>2. sent.ctl < MaxCtls /\ sent.ctl + 1 < MaxCtls
    BY <1>c, <2>1 DEF MayPack
  <2>3. /\ kbdq' \in KbdQueue /\ ctlq' \in CtlQueue /\ ptrq' \in PtrQueue
        /\ sent' \in Counts /\ sent'.ctl = sent.ctl + 1
    BY <2>1, <2>2, SendCtlOK
  <2>4. sent'.ctl < MaxCtls
    BY <2>2, <2>3
  <2> QED BY <2>1, <2>3, <2>4 DEF TInv, Doing
<1>19. CASE WmRect
  <2>1. /\ SendCtl /\ wm \in {"rect", "answer"} /\ wm' = "idle"
        /\ client' \in {"idle", "image1", client} /\ unsent' \in {unsent, FALSE}
        /\ UNCHANGED <<polite, moves, phase, imgstate, got, sentbuttons, gotbuttons, window>>
    BY <1>19 DEF WmRect, Accepted, Answered
  <2>2. sent.ctl < MaxCtls
    BY <2>1 DEF TInv
  <2>3. /\ kbdq' \in KbdQueue /\ ctlq' \in CtlQueue /\ ptrq' \in PtrQueue /\ sent' \in Counts
    BY <2>1, <2>2, SendCtlOK
  <2>4. unsent' \in BOOLEAN
    BY <2>1, Zenon DEF TInv
  <2> QED BY <2>1, <2>3, <2>4 DEF TInv, Doing
<1>10. CASE ClientImage
  BY <1>10, <1>q DEF ClientImage, TInv, MayPack
<1>11. CASE ClientKbd
  <2>1. get(kbdq) \in KbdQueue /\ Front(kbdq) \in 1..MaxKeys
    BY <1>11, GetTakesHead DEF ClientKbd, KbdQueue, TInv
  <2>2. got' \in Counts
    <3>1. Front(kbdq) \in 0..MaxKeys
      BY <2>1, <1>c
    <3> QED BY <1>11, <1>c, <3>1, CountsOK DEF ClientKbd
  <2>3. /\ kbdq' = get(kbdq) /\ ctlq' = Ctlq /\ ptrq' = Ptrq
        /\ UNCHANGED <<polite, moves, phase, imgstate, wm, client, sent, sentbuttons, gotbuttons,
                       window, unsent>>
    BY <1>11 DEF ClientKbd
  <2> QED BY <1>q, <2>1, <2>2, <2>3 DEF TInv, MayPack
<1>12. CASE ClientCtl
  <2>1. get(ctlq) \in CtlQueue /\ Front(ctlq) \in 1..MaxCtls
    BY <1>12, GetTakesHead DEF ClientCtl, CtlQueue, TInv
  <2>2. got' \in Counts
    <3>1. Front(ctlq) \in 0..MaxCtls
      BY <2>1, <1>c
    <3> QED BY <1>12, <1>c, <3>1, CountsOK DEF ClientCtl
  <2>3. /\ ctlq' = get(ctlq) /\ kbdq' = Kbdq /\ ptrq' = Ptrq
        /\ UNCHANGED <<polite, moves, phase, imgstate, wm, client, sent, sentbuttons, gotbuttons,
                       window, unsent>>
    BY <1>12 DEF ClientCtl
  <2> QED BY <1>q, <2>1, <2>2, <2>3 DEF TInv, MayPack
<1>13. CASE ClientPtr
  <2> DEFINE e == Head(Ptrq.h)
  <2>1. Ptrq.h # <<>> /\ Ptrq.h \in Seq(Events)
    BY <1>13, <1>q, PeekedOK DEF ClientPtr, PtrQueue
  <2>2. e \in Events
    BY <2>1, HeadTailProperties
  <2>3. /\ got' = [got EXCEPT !.ptr = e.at] /\ gotbuttons' = Append(gotbuttons, e.buttons)
        /\ ptrq' = ptrget(Ptrq) /\ kbdq' = Kbdq /\ ctlq' = Ctlq
        /\ UNCHANGED <<polite, moves, phase, imgstate, wm, client, sent, sentbuttons, window, unsent>>
    BY <1>13 DEF ClientPtr
  <2> HIDE DEF e
  <2>4. e.at \in 0..MaxPtrs /\ e.buttons \in Buttons
    BY <2>2 DEF Events
  <2>5. got' \in Counts
    BY <1>c, <2>3, <2>4, CountsOK
  <2>6. gotbuttons' \in Seq(Buttons)
    BY <2>3, <2>4 DEF TInv
  <2>7. ptrq' \in PtrQueue
    BY <1>q, <2>1, <2>3, PtrgetOK
  <2> QED BY <1>q, <2>3, <2>5, <2>6, <2>7 DEF TInv, MayPack
<1>14. CASE ClientGone
  BY <1>14 DEF ClientGone, TInv, MayPack
<1>15. CASE Stop
  BY <1>15 DEF Stop, TInv, MayPack
<1>16. CASE Stopped \/ UNCHANGED vars
  <2>1. UNCHANGED <<polite, moves, phase, kbdq, ptrq, ctlq, imgstate, wm, client, sent, got,
                    sentbuttons, gotbuttons, window, unsent>>
    BY <1>16, Zenon DEF Stopped, vars
  <2> QED BY <2>1, SMTT(40) DEF TInv, MayPack
<1> QED BY <1>1, <1>2, <1>3, <1>4, <1>5, <1>6, <1>7, <1>8, <1>9, <1>10, <1>11,
           <1>12, <1>13, <1>14, <1>15, <1>16, <1>17, <1>18, <1>19 DEF Next

\* Every variable of childminder and its two neighbours keeps its type; in
\* particular a received key is a key that was sent, never the -1 of an
\* empty Iqueue, and no client is sent a nil pointer event.
THEOREM TypeCorrect == Spec => []TypeOK
<1>1. Init => TInv
  BY InitTInv
<1>2. TInv /\ [Next]_vars => TInv'
  BY NextTInv
<1>3. TInv => TypeOK
  BY TInvTypeOK
<1> QED BY <1>1, <1>2, <1>3, PTL DEF Spec

(***************************************************************************)
(* Delivery in order                                                        *)
(***************************************************************************)

\* The inductive invariant: nothing is received before it is sent.
OrderInv ==
    /\ TInv
    /\ Holds(kbdq, got.kbd, sent.kbd)
    /\ Holds(ctlq, got.ctl, sent.ctl)

\* A fresh childminder has nothing queued and nothing delivered.
LEMMA InitOrderInv == Init => OrderInv
<1> SUFFICES ASSUME Init PROVE OrderInv
  OBVIOUS
<1>1. EmptyQueue \in Queue
  BY DEF EmptyQueue, Queue
<1>2. Contents(EmptyQueue) = Numbers(0, 0)
  <2>1. Rev(<<>>) = <<>>
    BY DEF Rev
  <2>2. EmptyQueue.h = <<>> /\ EmptyQueue.t = <<>>
    BY DEF EmptyQueue
  <2>3. Contents(EmptyQueue) = <<>> \o Rev(<<>>)
    BY <2>2, Zenon DEF Contents
  <2>4. <<>> \o <<>> = <<>>
    OBVIOUS
  <2>5. Numbers(0, 0) = <<>>
    BY DEF Numbers
  <2> QED BY <2>1, <2>3, <2>4, <2>5
<1>3. Holds(EmptyQueue, 0, 0)
  BY <1>1, <1>2 DEF Holds
<1>4. /\ kbdq = EmptyQueue /\ ctlq = EmptyQueue
      /\ got.kbd = 0 /\ got.ctl = 0 /\ sent.kbd = 0 /\ sent.ctl = 0
  BY DEF Init
<1> QED BY <1>3, <1>4, InitTInv DEF OrderInv

\* The head of the loop changes the shape of the queues only.
LEMMA PeekedHolds ==
    ASSUME OrderInv
    PROVE  Holds(Kbdq, got.kbd, sent.kbd) /\ Holds(Ctlq, got.ctl, sent.ctl)
BY HoldsPeek DEF OrderInv, Kbdq, Ctlq

\* A step that sends and receives neither keys nor control messages.
LEMMA QuietOrder ==
    ASSUME OrderInv, TInv', kbdq' \in {kbdq, Kbdq}, ctlq' \in {ctlq, Ctlq},
           sent'.kbd = sent.kbd, sent'.ctl = sent.ctl, got'.kbd = got.kbd, got'.ctl = got.ctl
    PROVE  OrderInv'
BY PeekedHolds DEF OrderInv

\* Every step keeps each queue equal to the numbers accepted and not yet delivered.
LEMMA NextOrderInv == OrderInv /\ [Next]_vars => OrderInv'
<1> SUFFICES ASSUME OrderInv, [Next]_vars PROVE OrderInv'
  OBVIOUS
<1>0. TInv /\ TInv'
  BY NextTInv DEF OrderInv
<1>c. sent \in Counts /\ got \in Counts
  BY <1>0 DEF TInv
<1>1. CASE WmKbd
  <2>1. /\ kbdq' = put(Kbdq, sent.kbd + 1) /\ ctlq' = Ctlq /\ got' = got
        /\ sent' = [sent EXCEPT !.kbd = sent.kbd + 1]
    BY <1>1 DEF WmKbd
  <2>2. sent'.kbd = sent.kbd + 1 /\ sent'.ctl = sent.ctl
    BY <1>c, <2>1 DEF Counts
  <2>3. Holds(put(Kbdq, sent.kbd + 1), got.kbd, sent.kbd + 1)
    BY PeekedHolds, HoldsPut
  <2> QED BY <1>0, <2>1, <2>2, <2>3, PeekedHolds DEF OrderInv
<1>2. CASE WmCtl \/ WmPack \/ WmRect
  <2>0. SendCtl /\ got' = got
    <3>1. CASE WmCtl
      BY <3>1 DEF WmCtl
    <3>2. CASE WmPack
      BY <3>2 DEF WmPack
    <3>3. CASE WmRect
      BY <3>3 DEF WmRect
    <3> QED BY <1>2, <3>1, <3>2, <3>3
  <2>1. /\ ctlq' = put(Ctlq, sent.ctl + 1) /\ kbdq' = Kbdq /\ got' = got
        /\ sent' = [sent EXCEPT !.ctl = sent.ctl + 1]
    BY <2>0 DEF SendCtl
  <2>2. sent'.ctl = sent.ctl + 1 /\ sent'.kbd = sent.kbd
    BY <1>c, <2>1 DEF Counts
  <2>3. Holds(put(Ctlq, sent.ctl + 1), got.ctl, sent.ctl + 1)
    BY PeekedHolds, HoldsPut
  <2> QED BY <1>0, <2>1, <2>2, <2>3, PeekedHolds DEF OrderInv
<1>3. CASE ClientKbd
  <2>1. /\ kbdq' = get(kbdq) /\ nonempty(kbdq) /\ ctlq' = Ctlq /\ sent' = sent
        /\ got' = [got EXCEPT !.kbd = Front(kbdq)]
    BY <1>3 DEF ClientKbd
  <2>2. got'.kbd = Front(kbdq) /\ got'.ctl = got.ctl
    BY <1>c, <2>1 DEF Counts
  <2>3. Holds(get(kbdq), Front(kbdq), sent.kbd)
    BY <2>1, HoldsGet DEF OrderInv
  <2> QED BY <1>0, <2>1, <2>2, <2>3, PeekedHolds DEF OrderInv
<1>4. CASE ClientCtl
  <2>1. /\ ctlq' = get(ctlq) /\ nonempty(ctlq) /\ kbdq' = Kbdq /\ sent' = sent
        /\ got' = [got EXCEPT !.ctl = Front(ctlq)]
    BY <1>4 DEF ClientCtl
  <2>2. got'.ctl = Front(ctlq) /\ got'.kbd = got.kbd
    BY <1>c, <2>1 DEF Counts
  <2>3. Holds(get(ctlq), Front(ctlq), sent.ctl)
    BY <2>1, HoldsGet DEF OrderInv
  <2> QED BY <1>0, <2>1, <2>2, <2>3, PeekedHolds DEF OrderInv
<1>9. ASSUME NEW b \in Buttons, WmDrag(b), wm' # "moved" PROVE OrderInv'
  <2>1. kbdq' = kbdq /\ ctlq' = ctlq /\ sent' = sent /\ got' = got
    BY <1>9 DEF WmDrag
  <2> QED BY <1>0, <2>1, QuietOrder
<1>5. ASSUME NEW b \in Buttons, WmPtr(b) \/ WmMoved(b) \/ (WmDrag(b) /\ wm' = "moved")
      PROVE  OrderInv'
  <2>1. SendPtr(b) /\ got' = got
    <3>1. CASE WmPtr(b)
      BY <3>1 DEF WmPtr
    <3>2. CASE WmMoved(b)
      BY <3>2 DEF WmMoved
    <3>3. CASE WmDrag(b) /\ wm' = "moved"
      BY <3>3 DEF WmDrag
    <3> QED BY <1>5, <3>1, <3>2, <3>3
  <2>2. /\ kbdq' = Kbdq /\ ctlq' = Ctlq
        /\ sent' = [sent EXCEPT !.ptr = sent.ptr + 1]
    BY <2>1 DEF SendPtr
  <2>3. sent'.kbd = sent.kbd /\ sent'.ctl = sent.ctl
    BY <1>c, <2>2 DEF Counts
  <2> QED BY <1>0, <2>1, <2>2, <2>3, QuietOrder
<1>6. CASE ClientPtr
  <2>1. /\ kbdq' = Kbdq /\ ctlq' = Ctlq /\ sent' = sent
        /\ got' = [got EXCEPT !.ptr = Head(Ptrq.h).at]
    BY <1>6 DEF ClientPtr
  <2>2. got'.kbd = got.kbd /\ got'.ctl = got.ctl
    BY <1>c, <2>1 DEF Counts
  <2> QED BY <1>0, <2>1, <2>2, QuietOrder
<1>7. CASE Reply \/ ClientRequest \/ WmServe \/ WmMove \/ ClientGone \/ Stop \/ Stopped \/ UNCHANGED vars
  <2>1. kbdq' = kbdq /\ ctlq' = ctlq /\ sent' = sent /\ got' = got
    BY <1>7, Zenon DEF Reply, ClientRequest, WmServe, WmMove, ClientGone, Stop, Stopped, vars
  <2> QED BY <1>0, <2>1, QuietOrder
<1>8. CASE WmFlush \/ Images \/ ClientImage
  <2>1. kbdq' = Kbdq /\ ctlq' = Ctlq /\ sent' = sent /\ got' = got
    BY <1>8, Zenon DEF WmFlush, Images, TakeImage, ClientImage
  <2> QED BY <1>0, <2>1, QuietOrder
<1> QED BY <1>1, <1>2, <1>3, <1>4, <1>5, <1>6, <1>7, <1>8, <1>9 DEF Next

\* Keys and control messages reach the client in the order they were sent,
\* each once: Iqueue and Squeue hold exactly what has been sent and not yet
\* received, for any number of messages and any interleaving of puts, peeks
\* and gets.
THEOREM DeliveredInOrder == Spec => []InOrder
<1>1. Init => OrderInv
  BY InitOrderInv
<1>2. OrderInv /\ [Next]_vars => OrderInv'
  BY NextOrderInv
<1>3. OrderInv => InOrder
  BY DEF OrderInv, Holds, InOrder
<1> QED BY <1>1, <1>2, <1>3, PTL DEF Spec

(***************************************************************************)
(* Images                                                                   *)
(***************************************************************************)

\* ImageOwed made inductive: the manager serves a request only while its
\* client waits in it, the image it packs the other windows for has been
\* offered, and nothing is owed before the client is connected.
ImageInv ==
    /\ imgstate \in {"none", "send", "origin"}
    /\ wm \notin {"idle", "rect"} => client \in {"request", "gone"}
    /\ polite /\ client = "connect" => imgstate = "none"
    /\ polite /\ client = "request" /\ wm \in {"pack", "answer"} => imgstate = "send"
    /\ ImageOwed

\* A fresh childminder owes no image.
LEMMA InitImageInv == Init => ImageInv
BY DEF Init, ImageInv, ImageOwed

\* Every step keeps the agreement between the images owed and the request in hand.
LEMMA NextImageInv == ImageInv /\ [Next]_vars => ImageInv'
<1> SUFFICES ASSUME ImageInv, [Next]_vars PROVE ImageInv'
  OBVIOUS
<1> USE DEF ImageInv, ImageOwed
<1>1. CASE Reply
  BY <1>1 DEF Reply, rules, images
<1>2. CASE ClientRequest
  BY <1>2 DEF ClientRequest, rules, images
<1>3. CASE WmServe \/ WmMove
  <2>1. /\ polite' = polite /\ imgstate' = imgstate
        /\ (wm = "idle" /\ client = "request") \/ wm = "moved"
        /\ Refuse \/ reshape("setimage") \/ reshape("ignored")
           \/ (wm' = "idle" /\ Answered /\ UNCHANGED unsent)
    BY <1>3 DEF WmServe, WmMove, rules
  <2>2. CASE Refuse \/ (wm' = "idle" /\ Answered /\ UNCHANGED unsent)
    BY <2>1, <2>2 DEF Refuse, Answered, images
  <2>3. ASSUME NEW n \in {"setimage", "ignored"}, reshape(n) PROVE ImageInv'
    <3>1. CASE wm' \in {"setorigin", n} /\ UNCHANGED <<client, unsent>>
      BY <2>1, <3>1
    <3>2. CASE wm' = "idle" /\ Accepted(TRUE)
      BY <2>1, <3>2 DEF Accepted, Answered
    <3>3. CASE wm' = "idle" /\ Answered /\ UNCHANGED unsent
      BY <2>1, <3>3 DEF Answered
    <3> QED BY <2>3, <3>1, <3>2, <3>3 DEF reshape, images
  <2> QED BY <2>1, <2>2, <2>3
<1>4. CASE Images
  <2>1. /\ polite' = polite /\ wm \in {"setimage", "ignored", "setorigin"}
        /\ imgstate' = IF imgstate # "none" THEN imgstate
                       ELSE IF wm = "setorigin" THEN "origin" ELSE "send"
    BY <1>4 DEF Images, TakeImage, rules
  <2>2. CASE wm' = "idle" /\ Answered /\ UNCHANGED unsent /\ imgstate # "none"
    BY <2>1, <2>2 DEF Answered
  <2>3. CASE wm' = "idle" /\ Accepted(FALSE)
    BY <2>1, <2>3 DEF Accepted, Answered
  <2>4. CASE imgstate = "none" /\ wm # "setorigin" /\ wm' = "pack" /\ UNCHANGED <<client, unsent>>
    BY <2>1, <2>4
  <2> QED BY <1>4, <2>2, <2>3, <2>4 DEF Images, TakeImage
<1>5. CASE ClientImage
  BY <1>5 DEF ClientImage, rules, images
<1>6. ASSUME NEW b \in Buttons, WmPtr(b) PROVE ImageInv'
  BY <1>6 DEF WmPtr, rules, images
<1>7. CASE WmFlush
  BY <1>7 DEF WmFlush, rules, images
<1>8. ASSUME NEW b \in Buttons, WmMoved(b) PROVE ImageInv'
  BY <1>8 DEF WmMoved, rules, images
<1>9. CASE ClientGone
  BY <1>9 DEF ClientGone, rules, images
<1>10. CASE Stop
  BY <1>10 DEF Stop, rules, images
<1>11. CASE WmKbd \/ WmCtl \/ ClientKbd \/ ClientCtl \/ ClientPtr \/ Stopped \/ UNCHANGED vars
  <2>1. UNCHANGED <<polite, moves, imgstate, wm, client, unsent>>
    BY <1>11, Zenon DEF WmKbd, WmCtl, ClientKbd, ClientCtl, ClientPtr, Stopped, vars, rules, images
  <2> QED BY <2>1
<1>12. ASSUME NEW b \in Buttons, WmDrag(b) PROVE ImageInv'
  BY <1>12 DEF WmDrag, rules, images
<1>13. CASE WmPack
  <2>1. /\ UNCHANGED <<polite, imgstate, client, unsent>>
        /\ (wm = "idle" /\ wm' = "rect") \/ (wm = "pack" /\ wm' = "answer")
    BY <1>13 DEF WmPack, rules
  <2> QED BY <2>1
<1>14. CASE WmRect
  <2>1. /\ UNCHANGED <<polite, imgstate>> /\ wm' = "idle"
        /\ (wm = "rect" /\ UNCHANGED <<client, unsent>>) \/ (wm = "answer" /\ Accepted(FALSE))
    BY <1>14 DEF WmRect, rules
  <2>2. CASE wm = "rect" /\ UNCHANGED <<client, unsent>>
    BY <2>1, <2>2
  <2>3. CASE wm = "answer" /\ Accepted(FALSE)
    BY <2>1, <2>3 DEF Accepted, Answered
  <2> QED BY <2>1, <2>2, <2>3
<1> QED BY <1>1, <1>2, <1>3, <1>4, <1>5, <1>6, <1>7, <1>8, <1>9, <1>10, <1>11,
           <1>12, <1>13, <1>14 DEF Next

\* Client and childminder agree on the images still to come: a client that
\* waits in recvimage is owed what it waits for, unless its request was
\* accepted although no image could be created, and one that does not wait
\* is owed nothing, so that setimage does not refuse its next request.
THEOREM ImagesAgree == Spec => []ImageOwed
<1>1. Init => ImageInv
  BY InitImageInv
<1>2. ImageInv /\ [Next]_vars => ImageInv'
  BY NextImageInv
<1>3. ImageInv => ImageOwed
  BY DEF ImageInv
<1> QED BY <1>1, <1>2, <1>3, PTL DEF Spec

(***************************************************************************)
(* Pointer events: what merging leaves                                      *)
(***************************************************************************)

\* A nonempty set of numbers has a least element.
LEMMA Least ==
    ASSUME NEW T, T \subseteq Nat, T # {}
    PROVE  \E x \in T : \A y \in T : x <= y
<1>1. PICK x \in T : \A y \in T : ~(<<y, x>> \in OpToRel(<, Nat))
  BY NatLessThanWellFounded, WFMin
<1>2. \A y \in T : ~(y < x)
  BY <1>1 DEF OpToRel
<1> QED BY <1>2

\* Changes picks the elements that differ from the one before, by their rank.
Upto(N, i) == {j \in N : j <= i}
Nth(N, k) == CHOOSE i \in N : Cardinality({j \in N : j <= i}) = k
New(s) == {i \in 1..Len(s) : i = 1 \/ s[i] # s[i-1]}

\* Every rank up to the size of a set of positions is that of one position.
LEMMA NthProperties ==
    ASSUME NEW n \in Nat, NEW N \in SUBSET (1..n)
    PROVE  /\ IsFiniteSet(N) /\ Cardinality(N) \in Nat
           /\ \A k \in 1..Cardinality(N) :
                 /\ Nth(N, k) \in N /\ Cardinality(Upto(N, Nth(N, k))) = k
                 /\ \A i \in N : Cardinality(Upto(N, i)) = k => i = Nth(N, k)
<1>1. IsFiniteSet(N) /\ Cardinality(N) \in Nat
  <2>1. IsFiniteSet(1..n)
    BY FS_Interval
  <2>2. IsFiniteSet(N)
    BY <2>1, FS_Subset
  <2> QED BY <2>2, FS_CardinalityType
<1>2. \A i \in Nat : Upto(N, i) \in SUBSET N /\ IsFiniteSet(Upto(N, i)) /\ Cardinality(Upto(N, i)) \in Nat
  <2> TAKE i \in Nat
  <2>1. Upto(N, i) \in SUBSET N
    BY DEF Upto
  <2>2. IsFiniteSet(Upto(N, i))
    BY <1>1, <2>1, FS_Subset
  <2> QED BY <2>1, <2>2, FS_CardinalityType
<1>3. \A i \in N : i \in Nat /\ i \in 1..n
  OBVIOUS
<1>4. ASSUME NEW i \in N, NEW j \in N, i < j
      PROVE  Cardinality(Upto(N, i)) < Cardinality(Upto(N, j))
  <2>1. i \in Nat /\ j \in Nat
    BY <1>3
  <2>2. Upto(N, i) \in SUBSET Upto(N, j)
    <3>1. \A m \in N : m <= i => m <= j
      BY <1>3, <1>4, <2>1
    <3> QED BY <3>1 DEF Upto
  <2>3. j \in Upto(N, j) /\ j \notin Upto(N, i)
    BY <2>1, <1>4 DEF Upto
  <2>4. Upto(N, i) # Upto(N, j)
    BY <2>3
  <2>5. /\ Cardinality(Upto(N, i)) <= Cardinality(Upto(N, j))
        /\ Cardinality(Upto(N, j)) # Cardinality(Upto(N, i))
    BY <1>2, <2>1, <2>2, <2>4, FS_Subset
  <2> QED BY <1>2, <2>1, <2>5
<1>5. ASSUME NEW k \in 1..Cardinality(N)
      PROVE  \E i \in N : Cardinality(Upto(N, i)) = k
  <2> DEFINE T == {i \in 0..n : k <= Cardinality(Upto(N, i))}
  <2>1. n \in T
    <3>1. Upto(N, n) = N
      <4>1. \A m \in N : m <= n
        BY <1>3
      <4> QED BY <4>1 DEF Upto
    <3>2. n \in 0..n /\ k <= Cardinality(N)
      BY <1>1, <1>5
    <3> QED BY <3>1, <3>2
  <2>2. T \subseteq Nat /\ T # {}
    BY <2>1
  <2>3. PICK x \in T : \A y \in T : x <= y
    <3> HIDE DEF T
    <3> QED BY <2>2, Least
  <2>4. x \in 0..n /\ x \in Nat /\ k <= Cardinality(Upto(N, x)) /\ k \in Nat /\ 1 <= k
    BY <2>3, <1>1
  <2>5. x # 0
    <3>1. Upto(N, 0) = {}
      <4>1. \A m \in N : ~(m <= 0)
        BY <1>3
      <4> QED BY <4>1 DEF Upto
    <3>2. Cardinality(Upto(N, 0)) = 0
      BY <3>1, FS_EmptySet
    <3> QED BY <2>4, <3>2
  <2>6. x - 1 \in Nat /\ x - 1 \in 0..n /\ x - 1 < x /\ ~(x <= x - 1)
    BY <2>4, <2>5
  <2>7. Cardinality(Upto(N, x - 1)) < k
    <3>1. x - 1 \notin T
      BY <2>3, <2>6
    <3>2. ~(k <= Cardinality(Upto(N, x - 1)))
      BY <2>6, <3>1
    <3> QED BY <1>2, <2>4, <2>6, <3>2
  <2> HIDE DEF T
  <2>8. CASE x \in N
    <3>1. Upto(N, x) = Upto(N, x - 1) \cup {x}
      <4>1. \A j \in N : j <= x <=> (j <= x - 1 \/ j = x)
        BY <1>3, <2>4
      <4>2. \A j : j \in Upto(N, x) <=> j \in Upto(N, x - 1) \cup {x}
        BY <4>1, <2>8 DEF Upto
      <4> QED BY <4>2
    <3>2. x \notin Upto(N, x - 1)
      BY <2>6 DEF Upto
    <3>3. Cardinality(Upto(N, x)) = Cardinality(Upto(N, x - 1)) + 1
      BY <1>2, <2>6, <3>1, <3>2, FS_AddElement
    <3>4. Cardinality(Upto(N, x)) = k
      BY <1>2, <2>4, <2>6, <2>7, <3>3
    <3> QED BY <2>8, <3>4
  <2>9. CASE x \notin N
    <3>1. \A j \in N : j <= x <=> j <= x - 1
      BY <1>3, <2>4, <2>9
    <3>2. Upto(N, x) = Upto(N, x - 1)
      BY <3>1 DEF Upto
    <3> QED BY <1>2, <2>4, <2>6, <2>7, <3>2
  <2> QED BY <2>8, <2>9
<1>6. ASSUME NEW k \in 1..Cardinality(N)
      PROVE  /\ Nth(N, k) \in N /\ Cardinality(Upto(N, Nth(N, k))) = k
             /\ \A i \in N : Cardinality(Upto(N, i)) = k => i = Nth(N, k)
  <2>1. Nth(N, k) \in N /\ Cardinality(Upto(N, Nth(N, k))) = k
    <3>1. \E i \in N : Cardinality({j \in N : j <= i}) = k
      BY <1>5, <1>6 DEF Upto
    <3>2. /\ Nth(N, k) \in N
          /\ Cardinality({j \in N : j <= Nth(N, k)}) = k
      BY <3>1, Zenon DEF Nth
    <3> QED BY <3>2 DEF Upto
  <2> DEFINE m == Nth(N, k)
  <2>2. m \in N /\ Cardinality(Upto(N, m)) = k
    BY <2>1
  <2> HIDE DEF m
  <2>3. ASSUME NEW i \in N, Cardinality(Upto(N, i)) = k PROVE i = m
    <3>1. i \in Nat /\ m \in Nat /\ k \in Nat
      BY <1>1, <1>3, <2>2
    <3>2. ~(i < m)
      BY <1>4, <2>2, <2>3, <3>1
    <3>3. ~(m < i)
      BY <1>4, <2>2, <2>3, <3>1
    <3> QED BY <3>1, <3>2, <3>3
  <2> QED BY <2>1, <2>3 DEF m
<1> QED BY <1>1, <1>6

\* Changes in terms of the positions of new elements and their ranks.
LEMMA ChangesIs ==
    ASSUME NEW s
    PROVE  Changes(s) = [k \in 1..Cardinality(New(s)) |-> s[Nth(New(s), k)]]
BY Zenon DEF Changes, New, Nth

\* The positions of new elements, and the last of them when one is appended.
LEMMA NewAppend ==
    ASSUME NEW S, NEW s \in Seq(S), NEW b \in S
    PROVE  /\ New(s) \in SUBSET (1..Len(s))
           /\ s # <<>> /\ b = s[Len(s)] => New(Append(s, b)) = New(s)
           /\ s = <<>> \/ b # s[Len(s)] => New(Append(s, b)) = New(s) \cup {Len(s) + 1}
<1> DEFINE n == Len(s)
           a == Append(s, b)
<1>1. n \in Nat /\ (s = <<>> <=> n = 0)
  OBVIOUS
<1>2. /\ a \in Seq(S) /\ Len(a) = n + 1 /\ a[n + 1] = b
      /\ \A i \in 1..n : a[i] = s[i]
  OBVIOUS
<1> HIDE DEF n, a
<1>3. \A i \in 1..n : i = 1 \/ i - 1 \in 1..n
  BY <1>1
<1>4. New(s) = {i \in 1..n : i = 1 \/ s[i] # s[i-1]}
  BY DEF New, n
<1>5. New(a) = {i \in 1..(n + 1) : i = 1 \/ a[i] # a[i-1]}
  BY <1>2 DEF New
<1>6. \A i \in 1..n : i \in New(a) <=> i \in New(s)
  <2> TAKE i \in 1..n
  <2>1. i \in 1..(n + 1)
    BY <1>1
  <2>2. CASE i = 1
    BY <1>4, <1>5, <2>1, <2>2
  <2>3. CASE i # 1
    <3>1. a[i] = s[i] /\ a[i-1] = s[i-1]
      BY <1>2, <1>3, <2>3
    <3> QED BY <1>4, <1>5, <2>1, <2>3, <3>1
  <2> QED BY <2>2, <2>3
<1>7. n + 1 \in New(a) <=> (n = 0 \/ b # s[n])
  <2>1. n + 1 \in 1..(n + 1) /\ (n + 1) - 1 = n /\ (n + 1 = 1 <=> n = 0)
    BY <1>1
  <2>2. n # 0 => a[n] = s[n]
    BY <1>1, <1>2
  <2> QED BY <1>2, <1>5, <2>1, <2>2
<1>8. \A i \in 1..(n + 1) : i \in 1..n \/ i = n + 1
  BY <1>1
<1>9. New(s) \in SUBSET (1..n) /\ New(a) \in SUBSET (1..(n + 1))
  BY <1>4, <1>5
<1>10. n + 1 \notin New(s)
  <2>1. n + 1 \notin 1..n
    BY <1>1
  <2> QED BY <1>9, <2>1
<1>11. CASE n # 0 /\ b = s[n]
  <2>1. \A i : i \in New(a) <=> i \in New(s)
    BY <1>6, <1>7, <1>8, <1>9, <1>10, <1>11
  <2>2. New(a) = New(s)
    BY <2>1
  <2> QED BY <1>1, <1>9, <1>11, <2>2 DEF a, n
<1>12. CASE n = 0 \/ b # s[n]
  <2>1. \A i : i \in New(a) <=> i \in New(s) \cup {n + 1}
    BY <1>6, <1>7, <1>8, <1>9, <1>10, <1>12
  <2>2. New(a) = New(s) \cup {n + 1}
    BY <2>1
  <2> QED BY <1>1, <1>9, <1>12, <2>2 DEF a, n
<1> QED BY <1>11, <1>12

\* Appending a repetition changes nothing; anything else is one more change.
LEMMA ChangesAppend ==
    ASSUME NEW S, NEW s \in Seq(S), NEW b \in S
    PROVE  /\ s # <<>> /\ b = s[Len(s)] => Changes(Append(s, b)) = Changes(s)
           /\ s = <<>> \/ b # s[Len(s)] => Changes(Append(s, b)) = Append(Changes(s), b)
<1> DEFINE n == Len(s)
           a == Append(s, b)
           N == New(s)
           c == Cardinality(N)
<1>1. n \in Nat
  OBVIOUS
<1>2. /\ a \in Seq(S) /\ Len(a) = n + 1 /\ a[n + 1] = b
      /\ \A i \in 1..n : a[i] = s[i] /\ s[i] \in S
  OBVIOUS
<1>3. Changes(s) = [k \in 1..c |-> s[Nth(N, k)]]
  BY ChangesIs
<1>4. Changes(a) = [k \in 1..Cardinality(New(a)) |-> a[Nth(New(a), k)]]
  BY ChangesIs
<1>5. /\ N \in SUBSET (1..n)
      /\ s # <<>> /\ b = s[n] => New(a) = N
      /\ s = <<>> \/ b # s[n] => New(a) = N \cup {n + 1}
  BY NewAppend
<1> HIDE DEF n, a, N
<1>6. /\ IsFiniteSet(N) /\ c \in Nat
      /\ \A k \in 1..c :
            /\ Nth(N, k) \in N /\ Cardinality(Upto(N, Nth(N, k))) = k
            /\ \A i \in N : Cardinality(Upto(N, i)) = k => i = Nth(N, k)
  BY <1>1, <1>5, NthProperties
<1> HIDE DEF c
<1>7. \A k \in 1..c : Nth(N, k) \in 1..n
  BY <1>5, <1>6
<1>8. ASSUME s # <<>>, b = s[n]
      PROVE  Changes(a) = Changes(s)
  <2>1. New(a) = N
    BY <1>5, <1>8
  <2>2. Changes(a) = [k \in 1..c |-> a[Nth(N, k)]]
    BY <1>4, <2>1 DEF c
  <2>3. \A k \in 1..c : a[Nth(N, k)] = s[Nth(N, k)]
    BY <1>2, <1>7
  <2>4. [k \in 1..c |-> a[Nth(N, k)]] = [k \in 1..c |-> s[Nth(N, k)]]
    BY <2>3
  <2> QED BY <1>3, <2>2, <2>4
<1>9. ASSUME s = <<>> \/ b # s[n]
      PROVE  Changes(a) = Append(Changes(s), b)
  <2> DEFINE M == N \cup {n + 1}
  <2>1. New(a) = M
    BY <1>5, <1>9
  <2>2. \A i \in N : i \in Nat /\ i <= n
    BY <1>1, <1>5
  <2>3. n + 1 \notin N
    BY <1>1, <2>2
  <2>4. Cardinality(M) = c + 1
    BY <1>6, <2>3, FS_AddElement DEF c
  <2>5. M \in SUBSET (1..(n + 1)) /\ n + 1 \in Nat
    BY <1>1, <2>2, <1>5
  <2>6. \A i \in N : i \in M
    OBVIOUS
  <2>7. n + 1 \in M
    OBVIOUS
  <2>8. \A i \in N : Upto(M, i) = Upto(N, i)
    <3> TAKE i \in N
    <3>1. ~(n + 1 <= i)
      BY <1>1, <2>2
    <3> QED BY <3>1 DEF Upto
  <2>9. Upto(M, n + 1) = M
    <3>1. \A i \in M : i <= n + 1
      BY <1>1, <2>2
    <3> QED BY <3>1 DEF Upto
  <2> HIDE DEF M
  <2>10. \A k \in 1..(c + 1) : \A i \in M : Cardinality(Upto(M, i)) = k => i = Nth(M, k)
    BY <2>4, <2>5, NthProperties
  <2>11. \A k \in 1..c : Nth(M, k) = Nth(N, k)
    <3> TAKE k \in 1..c
    <3>1. PICK m \in N : m = Nth(N, k) /\ Cardinality(Upto(N, m)) = k
      BY <1>6
    <3>2. m \in M /\ Cardinality(Upto(M, m)) = k
      BY <2>6, <2>8, <3>1
    <3>3. k \in 1..(c + 1)
      BY <1>6
    <3>4. m = Nth(M, k)
      BY <2>10, <3>2, <3>3
    <3> QED BY <3>1, <3>4
  <2>12. Nth(M, c + 1) = n + 1
    <3>1. c + 1 \in 1..(c + 1)
      BY <1>6
    <3>2. Cardinality(Upto(M, n + 1)) = c + 1
      BY <2>4, <2>9
    <3> QED BY <2>7, <2>10, <3>1, <3>2
  <2>13. Changes(a) = [k \in 1..(c + 1) |-> a[Nth(M, k)]]
    BY <1>4, <2>1, <2>4
  <2>14. Changes(s) \in Seq(S) /\ Len(Changes(s)) = c
         /\ \A k \in 1..c : Changes(s)[k] = s[Nth(N, k)]
    <3>1. \A k \in 1..c : s[Nth(N, k)] \in S
      BY <1>2, <1>7
    <3> QED BY <1>3, <1>6, <3>1
  <2>15. \A k \in 1..(c + 1) : a[Nth(M, k)] \in S
    <3> TAKE k \in 1..(c + 1)
    <3>1. CASE k \in 1..c
      <4>1. Nth(M, k) \in 1..n
        BY <1>7, <2>11, <3>1
      <4> QED BY <1>2, <4>1
    <3>2. CASE k = c + 1
      BY <1>2, <2>12, <3>2
    <3>3. k \in 1..c \/ k = c + 1
      BY <1>6
    <3> QED BY <3>1, <3>2, <3>3
  <2>16. Changes(a) \in Seq(S) /\ Len(Changes(a)) = c + 1
         /\ \A k \in 1..(c + 1) : Changes(a)[k] = a[Nth(M, k)]
    <3>1. c + 1 \in Nat
      BY <1>6
    <3> QED BY <2>13, <2>15, <3>1
  <2> DEFINE d == Changes(s)
             e == Changes(a)
  <2>17. d \in Seq(S) /\ Len(d) = c /\ \A k \in 1..c : d[k] = s[Nth(N, k)]
    BY <2>14
  <2>18. e \in Seq(S) /\ Len(e) = c + 1 /\ \A k \in 1..(c + 1) : e[k] = a[Nth(M, k)]
    BY <2>16
  <2> HIDE DEF d, e
  <2>19. /\ Append(d, b) \in Seq(S) /\ Len(Append(d, b)) = c + 1
         /\ \A k \in 1..c : Append(d, b)[k] = d[k]
         /\ Append(d, b)[c + 1] = b
    BY <1>6, <2>17
  <2>20. \A k \in 1..(c + 1) : e[k] = Append(d, b)[k]
    <3> TAKE k \in 1..(c + 1)
    <3>1. CASE k \in 1..c
      <4>1. e[k] = a[Nth(N, k)]
        BY <2>11, <2>18, <3>1
      <4>2. a[Nth(N, k)] = s[Nth(N, k)]
        BY <1>2, <1>7, <3>1
      <4> QED BY <2>17, <2>19, <3>1, <4>1, <4>2
    <3>2. CASE k = c + 1
      BY <1>2, <2>12, <2>18, <2>19, <3>2
    <3>3. k \in 1..c \/ k = c + 1
      BY <1>6
    <3> QED BY <3>1, <3>2, <3>3
  <2>21. e = Append(d, b)
    BY <2>18, <2>19, <2>20, SeqEqual
  <2> QED BY <2>21 DEF d, e
<1> QED BY <1>8, <1>9 DEF a, n

\* What a Ptrqueue holds, oldest first, and the newest element of a sequence.
Queued(q) == Contents([h |-> q.h, t |-> q.t])
Newest(s) == s[Len(s)]
ButtonsOf(c) == [i \in 1..Len(c) |-> c[i].buttons]

\* The contents element by element: the back list is read from its end.
LEMMA QueuedProperties ==
    ASSUME NEW q, q.h \in Seq(Events), q.t \in Seq(Events)
    PROVE  /\ Queued(q) \in Seq(Events)
           /\ Len(Queued(q)) = Len(q.h) + Len(q.t)
           /\ \A i \in 1..(Len(q.h) + Len(q.t)) :
                 Queued(q)[i] = IF i <= Len(q.h) THEN q.h[i] ELSE q.t[Len(q.t) + 1 - (i - Len(q.h))]
<1> DEFINE a == q.h
           t == q.t
           b == Rev(t)
<1>1. a \in Seq(Events) /\ t \in Seq(Events) /\ Len(a) \in Nat /\ Len(t) \in Nat
  OBVIOUS
<1>2. Queued(q) = a \o b
  BY DEF Queued, Contents
<1> HIDE DEF a, t, b
<1>3. /\ b \in Seq(Events) /\ Len(b) = Len(t)
      /\ \A i \in 1..Len(t) : b[i] = t[Len(t) + 1 - i]
  BY <1>1, RevProperties DEF b
<1>4. /\ a \o b \in Seq(Events) /\ Len(a \o b) = Len(a) + Len(t)
      /\ \A i \in 1..(Len(a) + Len(t)) : (a \o b)[i] = IF i <= Len(a) THEN a[i] ELSE b[i - Len(a)]
  <2>1. a \in Seq(Events) /\ b \in Seq(Events)
    BY <1>1, <1>3
  <2>2. /\ a \o b \in Seq(Events) /\ Len(a \o b) = Len(a) + Len(b)
        /\ \A i \in 1..(Len(a) + Len(b)) : (a \o b)[i] = IF i <= Len(a) THEN a[i] ELSE b[i - Len(a)]
    BY <2>1, ConcatProperties
  <2> QED BY <1>3, <2>2
<1>5. \A i \in 1..(Len(a) + Len(t)) :
         (a \o b)[i] = IF i <= Len(a) THEN a[i] ELSE t[Len(t) + 1 - (i - Len(a))]
  <2> TAKE i \in 1..(Len(a) + Len(t))
  <2>1. CASE i <= Len(a)
    BY <1>4, <2>1
  <2>2. CASE ~(i <= Len(a))
    <3>1. i - Len(a) \in 1..Len(t)
      BY <1>1, <2>2
    <3> QED BY <1>3, <1>4, <2>2, <3>1
  <2> QED BY <2>1, <2>2
<1> QED BY <1>2, <1>4, <1>5 DEF a, t

\* The event last names is overwritten wherever it is queued: nothing moves,
\* no button state changes, and the newest event has the new position.
LEMMA MergeKeeps ==
    ASSUME NEW q \in PtrQueue, NEW e \in Events, q.last # NoPtr, e.buttons = q.last.buttons,
           Queued(q) # <<>>, q.last = Newest(Queued(q))
    PROVE  LET r == ptrput(q, e) IN
           /\ Queued(r) # <<>>
           /\ ButtonsOf(Queued(r)) = ButtonsOf(Queued(q))
           /\ r.last = Newest(Queued(r)) /\ Newest(Queued(r)).at = e.at
<1> DEFINE r == ptrput(q, e)
           id == q.last.id
           a == q.h
           t == q.t
           c == Queued(q)
           d == Queued(r)
           m == Len(a)
           n == Len(t)
           over(x) == IF x.id = id THEN [x EXCEPT !.at = e.at] ELSE x
<1>1. a \in Seq(Events) /\ t \in Seq(Events) /\ m \in Nat /\ n \in Nat
  BY DEF PtrQueue
<1>2. /\ r.h = Overwrite(a, id, e) /\ r.t = Overwrite(t, id, e)
      /\ r.last = [q.last EXCEPT !.at = e.at]
  BY DEF ptrput
<1>3. r.h \in Seq(Events) /\ r.t \in Seq(Events)
  BY <1>1, <1>2, OverwriteOK
<1>4. /\ Len(r.h) = m /\ \A i \in 1..m : r.h[i] = over(a[i])
      /\ Len(r.t) = n /\ \A i \in 1..n : r.t[i] = over(t[i])
  BY <1>1, <1>2 DEF Overwrite
<1>5. /\ c \in Seq(Events) /\ Len(c) = m + n
      /\ \A i \in 1..(m + n) : c[i] = IF i <= m THEN a[i] ELSE t[n + 1 - (i - m)]
  BY <1>1, QueuedProperties
<1>6. /\ d \in Seq(Events) /\ Len(d) = m + n
      /\ \A i \in 1..(m + n) : d[i] = IF i <= m THEN r.h[i] ELSE r.t[n + 1 - (i - m)]
  <2>1. /\ d \in Seq(Events) /\ Len(d) = Len(r.h) + Len(r.t)
        /\ \A i \in 1..(Len(r.h) + Len(r.t)) :
              d[i] = IF i <= Len(r.h) THEN r.h[i] ELSE r.t[Len(r.t) + 1 - (i - Len(r.h))]
    BY <1>3, QueuedProperties
  <2> QED BY <1>4, <2>1
<1>7. c # <<>> /\ q.last = c[Len(c)]
  BY DEF Newest
<1> HIDE DEF r, a, t, c, d, m, n, over, id
<1>8. \A i \in 1..(m + n) : d[i] = over(c[i])
  <2> TAKE i \in 1..(m + n)
  <2>1. CASE i <= m
    <3>1. i \in 1..m
      BY <1>1, <2>1
    <3> QED BY <1>4, <1>5, <1>6, <2>1, <3>1
  <2>2. CASE ~(i <= m)
    <3>1. n + 1 - (i - m) \in 1..n
      BY <1>1, <2>2
    <3> QED BY <1>4, <1>5, <1>6, <2>2, <3>1
  <2> QED BY <2>1, <2>2
<1>9. \A i \in 1..(m + n) : c[i] \in Events /\ d[i] \in Events
  BY <1>5, <1>6
<1>10. \A i \in 1..(m + n) : d[i].buttons = c[i].buttons
  <2>1. \A x \in Events : over(x).buttons = x.buttons
    BY DEF over, Events
  <2> QED BY <1>8, <1>9, <2>1
<1>11. m + n \in 1..(m + n)
  BY <1>1, <1>5, <1>7
<1>12. ButtonsOf(d) = ButtonsOf(c)
  BY <1>5, <1>6, <1>10 DEF ButtonsOf
<1>13. d[m + n] = [q.last EXCEPT !.at = e.at]
  <2>1. c[m + n] = q.last
    BY <1>5, <1>7
  <2>2. d[m + n] = over(q.last)
    BY <1>8, <1>11, <2>1
  <2> QED BY <2>2 DEF over, id
<1>14. [q.last EXCEPT !.at = e.at].at = e.at
  BY DEF PtrQueue, PtrEvents
<1>15. d # <<>>
  BY <1>1, <1>6, <1>11
<1>16. r.last = Newest(d) /\ Newest(d).at = e.at
  BY <1>2, <1>6, <1>13, <1>14 DEF Newest
<1> QED BY <1>12, <1>15, <1>16 DEF r, d, c

\* An event that is not merged is appended, and last names it.
LEMMA AppendsEvent ==
    ASSUME NEW q \in PtrQueue, NEW e \in Events, ~(q.last # NoPtr /\ e.buttons = q.last.buttons)
    PROVE  /\ Queued(ptrput(q, e)) = Append(Queued(q), e)
           /\ ptrput(q, e).last = e
<1> DEFINE p == [h |-> q.h, t |-> q.t]
<1>1. p \in [h : Seq(Events), t : Seq(Events)]
  BY DEF PtrQueue
<1>2. Contents(put(p, e)) = Append(Contents(p), e)
  BY <1>1, PutAppends
<1>3. ptrput(q, e) = [h |-> q.h, t |-> <<e>> \o q.t, last |-> e]
  BY Zenon DEF ptrput
<1>4. put(p, e) = [h |-> q.h, t |-> <<e>> \o q.t]
  BY DEF put
<1>5. /\ ptrput(q, e).h = q.h /\ ptrput(q, e).t = <<e>> \o q.t
      /\ ptrput(q, e).last = e
  BY <1>3
<1>6. Queued(ptrput(q, e)) = Contents([h |-> q.h, t |-> <<e>> \o q.t])
  BY <1>5, Zenon DEF Queued
<1>7. Queued(q) = Contents(p)
  BY Zenon DEF Queued
<1> QED BY <1>2, <1>4, <1>5, <1>6, <1>7

\* peek turns the lists over at most, and keeps last.
LEMMA PeekKeeps ==
    ASSUME NEW q \in PtrQueue
    PROVE  Queued(ptrpeek(q)) = Queued(q) /\ ptrpeek(q).last = q.last
<1> DEFINE p == [h |-> q.h, t |-> q.t]
           u == Turn(p)
<1>1. p \in [h : Seq(Events), t : Seq(Events)]
  BY DEF PtrQueue
<1>2. u \in [h : Seq(Events), t : Seq(Events)] /\ Contents(u) = Contents(p)
  BY <1>1, TurnKeeps
<1>3. ptrpeek(q) = [h |-> u.h, t |-> u.t, last |-> q.last]
  BY DEF ptrpeek
<1> HIDE DEF u, p
<1>4. [h |-> u.h, t |-> u.t] = u
  BY <1>2
<1>5. ptrpeek(q).h = u.h /\ ptrpeek(q).t = u.t /\ ptrpeek(q).last = q.last
  BY <1>3
<1>6. Queued(ptrpeek(q)) = Contents(u)
  BY <1>4, <1>5, Zenon DEF Queued
<1>7. Queued(q) = Contents(p)
  BY Zenon DEF Queued, p
<1> QED BY <1>2, <1>5, <1>6, <1>7

\* get takes the oldest event, and forgets last if it takes the newest.
LEMMA GetTakesOldest ==
    ASSUME NEW q \in PtrQueue, q.h # <<>>
    PROVE  /\ Queued(q) \in Seq(Events) /\ Queued(q) # <<>>
           /\ Head(q.h) = Head(Queued(q))
           /\ Queued(ptrget(q)) = Tail(Queued(q))
           /\ ptrget(q).last # NoPtr =>
                 ptrget(q).last = q.last /\ Tail(Queued(q)) # <<>>
<1> DEFINE p == [h |-> q.h, t |-> q.t]
<1>1. p \in [h : Seq(Events), t : Seq(Events)] /\ q.h \in Seq(Events) /\ q.t \in Seq(Events)
  BY DEF PtrQueue
<1>2. Turn(p) = p /\ nonempty(p)
  BY DEF Turn, nonempty
<1>3. /\ Contents(p) \in Seq(Events) /\ Contents(p) # <<>>
      /\ Front(p) = Head(Contents(p))
      /\ Contents(get(p)) = Tail(Contents(p))
  BY <1>1, <1>2, GetTakesHead
<1>4. Queued(q) = Contents(p)
  BY Zenon DEF Queued
<1>5. Front(p) = Head(q.h) /\ get(p) = [h |-> Tail(q.h), t |-> q.t]
  BY <1>2 DEF Front, get
<1>6. /\ ptrget(q).h = Tail(q.h) /\ ptrget(q).t = q.t
      /\ ptrget(q).last = IF Len(q.h) = 1 THEN NoPtr ELSE q.last
  <2>1. ptrget(q) = [h |-> Tail(Turn(p).h), t |-> Turn(p).t,
                     last |-> IF Len(Turn(p).h) = 1 THEN NoPtr ELSE q.last]
    BY Zenon DEF ptrget
  <2>2. Turn(p).h = q.h /\ Turn(p).t = q.t
    BY <1>2
  <2> HIDE DEF p
  <2> QED BY <2>1, <2>2
<1>7. Queued(ptrget(q)) = Contents(get(p))
  BY <1>5, <1>6, Zenon DEF Queued
<1> HIDE DEF p
<1>8. ASSUME ptrget(q).last # NoPtr
      PROVE  ptrget(q).last = q.last /\ Tail(Queued(q)) # <<>>
  <2>1. Len(q.h) # 1 /\ ptrget(q).last = q.last
    BY <1>6, <1>8
  <2>2. Len(q.h) \in Nat /\ Len(q.h) # 0 /\ Len(q.t) \in Nat
    BY <1>1
  <2>3. Len(Queued(q)) = Len(q.h) + Len(q.t) /\ Queued(q) \in Seq(Events)
    BY <1>1, QueuedProperties
  <2>4. Len(Queued(q)) > 1
    <3>1. \A m, n \in Nat : m # 0 /\ m # 1 => m + n > 1
      OBVIOUS
    <3>2. Len(q.h) + Len(q.t) > 1
      BY <2>1, <2>2, <3>1
    <3> QED BY <2>3, <3>2
  <2> DEFINE c == Queued(q)
  <2>5. c \in Seq(Events) /\ Len(c) > 1
    BY <2>3, <2>4
  <2> HIDE DEF c
  <2>6. Tail(c) # <<>>
    <3>1. c # <<>>
      BY <2>5
    <3>2. Len(Tail(c)) = Len(c) - 1
      BY <2>5, <3>1, HeadTailProperties
    <3> QED BY <2>5, <3>2
  <2> QED BY <2>1, <2>6 DEF c
<1> QED BY <1>3, <1>4, <1>5, <1>7, <1>8

\* The button states of queued events are button states.
LEMMA ButtonsOfProperties ==
    ASSUME NEW c \in Seq(Events)
    PROVE  /\ ButtonsOf(c) \in Seq(Buttons) /\ Len(ButtonsOf(c)) = Len(c)
           /\ \A i \in 1..Len(c) : ButtonsOf(c)[i] = c[i].buttons
<1>1. \A i \in 1..Len(c) : c[i].buttons \in Buttons
  <2>1. \A i \in 1..Len(c) : c[i] \in Events
    OBVIOUS
  <2>2. \A e \in Events : e.buttons \in Buttons
    BY DEF Events
  <2> QED BY <2>1, <2>2
<1> QED BY <1>1 DEF ButtonsOf

\* An appended event appends its button state to those seen and still queued.
LEMMA SeenAppend ==
    ASSUME NEW g \in Seq(Buttons), NEW c \in Seq(Events), NEW e \in Events
    PROVE  g \o ButtonsOf(Append(c, e)) = Append(g \o ButtonsOf(c), e.buttons)
<1> DEFINE x == ButtonsOf(c)
           y == ButtonsOf(Append(c, e))
           b == e.buttons
           n == Len(c)
<1>1. b \in Buttons /\ n \in Nat
  BY DEF Events
<1>2. /\ Append(c, e) \in Seq(Events) /\ Len(Append(c, e)) = n + 1 /\ Append(c, e)[n + 1] = e
      /\ \A i \in 1..n : Append(c, e)[i] = c[i]
  OBVIOUS
<1>3. /\ x \in Seq(Buttons) /\ Len(x) = n
      /\ \A i \in 1..n : x[i] = c[i].buttons
  BY ButtonsOfProperties
<1>4. /\ y \in Seq(Buttons) /\ Len(y) = n + 1
      /\ \A i \in 1..(n + 1) : y[i] = Append(c, e)[i].buttons
  BY <1>2, ButtonsOfProperties
<1> HIDE DEF x, y, n
<1>5. y = Append(x, b)
  <2>1. \A i \in 1..n : i \in 1..(n + 1) /\ y[i] = x[i]
    BY <1>1, <1>2, <1>3, <1>4, SMTT(40)
  <2>2. n + 1 \in 1..(n + 1) /\ y[n + 1] = b
    BY <1>1, <1>2, <1>4
  <2> HIDE DEF b
  <2>3. /\ Append(x, b) \in Seq(Buttons) /\ Len(Append(x, b)) = n + 1
        /\ \A i \in 1..n : Append(x, b)[i] = x[i]
        /\ Append(x, b)[n + 1] = b
    BY <1>1, <1>3
  <2>4. \A i \in 1..(n + 1) : i \in 1..n \/ i = n + 1
    BY <1>1
  <2>5. \A i \in 1..(n + 1) : y[i] = Append(x, b)[i]
    BY <2>1, <2>2, <2>3, <2>4
  <2> QED BY <1>4, <2>3, <2>5, SeqEqual
<1> HIDE DEF b
<1>6. Append(x, b) = x \o <<b>> /\ Append(g \o x, b) = (g \o x) \o <<b>>
  <2>1. g \o x \in Seq(Buttons)
    BY <1>3, ConcatProperties
  <2> QED BY <1>1, <1>3, <2>1, AppendIsConcat
<1>7. (g \o x) \o <<b>> = g \o (x \o <<b>>)
  <2>1. <<b>> \in Seq(Buttons)
    BY <1>1
  <2> QED BY <1>3, <2>1, ConcatAssociative, SMTT(40)
<1>8. g \o y = Append(g \o x, b)
  BY <1>5, <1>6, <1>7
<1> QED BY <1>8 DEF x, y, b

\* An event that is received moves its button state from queued to seen.
LEMMA SeenGet ==
    ASSUME NEW g \in Seq(Buttons), NEW c \in Seq(Events), c # <<>>
    PROVE  Append(g, Head(c).buttons) \o ButtonsOf(Tail(c)) = g \o ButtonsOf(c)
<1> DEFINE x == ButtonsOf(c)
           y == ButtonsOf(Tail(c))
           b == Head(c).buttons
           n == Len(c)
<1>1. /\ Head(c) \in Events /\ Head(c) = c[1] /\ n \in Nat /\ n # 0
      /\ Tail(c) \in Seq(Events) /\ Len(Tail(c)) = n - 1
      /\ \A i \in 1..(n - 1) : Tail(c)[i] = c[i+1]
  BY HeadTailProperties
<1>2. b \in Buttons /\ b = c[1].buttons
  BY <1>1 DEF Events
<1>3. /\ x \in Seq(Buttons) /\ Len(x) = n
      /\ \A i \in 1..n : x[i] = c[i].buttons
  BY ButtonsOfProperties
<1>4. /\ y \in Seq(Buttons) /\ Len(y) = n - 1
      /\ \A i \in 1..(n - 1) : y[i] = Tail(c)[i].buttons
  BY <1>1, ButtonsOfProperties, Zenon
<1> HIDE DEF x, y, n, b
<1>5. <<b>> \in Seq(Buttons) /\ Len(<<b>>) = 1 /\ <<b>>[1] = b
  BY <1>2
<1>6. x = <<b>> \o y
  <2> DEFINE s == <<b>>
  <2>1. s \in Seq(Buttons) /\ Len(s) = 1 /\ s[1] = b
    BY <1>5
  <2> HIDE DEF s
  <2>2. /\ s \o y \in Seq(Buttons) /\ Len(s \o y) = Len(s) + Len(y)
        /\ \A i \in 1..(Len(s) + Len(y)) : (s \o y)[i] = IF i <= Len(s) THEN s[i] ELSE y[i - Len(s)]
    BY <1>4, <2>1, ConcatProperties
  <2>3. Len(s) + Len(y) = n
    BY <1>1, <1>4, <2>1
  <2>4. \A i \in 1..n : x[i] = (s \o y)[i]
    <3> TAKE i \in 1..n
    <3>1. (s \o y)[i] = IF i <= 1 THEN s[i] ELSE y[i - 1]
      BY <2>1, <2>2, <2>3
    <3>2. CASE i = 1
      BY <1>2, <1>3, <2>1, <3>1, <3>2
    <3>3. CASE i # 1
      <4>1. i - 1 \in 1..(n - 1) /\ ~(i <= 1) /\ (i - 1) + 1 = i
        BY <1>1, <3>3
      <4>2. y[i - 1] = c[i].buttons
        BY <1>1, <1>4, <4>1
      <4> QED BY <1>3, <3>1, <4>1, <4>2
    <3> QED BY <3>2, <3>3
  <2>5. x = s \o y
    BY <1>3, <2>2, <2>3, <2>4, SeqEqual
  <2> QED BY <2>5 DEF s
<1>7. Append(g, b) = g \o <<b>>
  BY <1>2, AppendIsConcat
<1>8. (g \o <<b>>) \o y = g \o (<<b>> \o y)
  BY <1>4, <1>5, ConcatAssociative
<1>9. Append(g, b) \o y = g \o x
  BY <1>6, <1>7, <1>8
<1> QED BY <1>9, Zenon DEF x, y, b

\* While something is queued, its newest event has the newest button state.
LEMMA SeenNewest ==
    ASSUME NEW g \in Seq(Buttons), NEW c \in Seq(Events)
    PROVE  /\ g \o ButtonsOf(c) \in Seq(Buttons)
           /\ c # <<>> => g \o ButtonsOf(c) # <<>> /\ Newest(g \o ButtonsOf(c)) = Newest(c).buttons
<1> DEFINE x == ButtonsOf(c)
           m == Len(g)
           n == Len(c)
<1>1. /\ x \in Seq(Buttons) /\ Len(x) = n
      /\ \A i \in 1..n : x[i] = c[i].buttons
  BY ButtonsOfProperties
<1>2. m \in Nat /\ n \in Nat /\ (c # <<>> => n # 0)
  OBVIOUS
<1> HIDE DEF x
<1>3. /\ g \o x \in Seq(Buttons) /\ Len(g \o x) = Len(g) + Len(x)
      /\ \A i \in 1..(Len(g) + Len(x)) : (g \o x)[i] = IF i <= Len(g) THEN g[i] ELSE x[i - Len(g)]
  BY <1>1, ConcatProperties
<1> HIDE DEF n, m
<1>4. Len(g \o x) = m + n
      /\ \A i \in 1..(m + n) : (g \o x)[i] = IF i <= m THEN g[i] ELSE x[i - m]
  BY <1>1, <1>3 DEF m
<1>5. ASSUME c # <<>>
      PROVE  g \o x # <<>> /\ Newest(g \o x) = Newest(c).buttons
  <2>1. m + n \in 1..(m + n) /\ ~(m + n <= m) /\ (m + n) - m = n /\ n \in 1..n
    BY <1>2, <1>5
  <2>2. (g \o x)[m + n] = c[n].buttons
    BY <1>1, <1>4, <2>1
  <2>3. g \o x # <<>>
    BY <1>2, <1>3, <1>4, <2>1
  <2> QED BY <1>4, <2>2, <2>3 DEF Newest, n
<1> QED BY <1>3, <1>5 DEF x

\* s and t have the same changes and end in the same state.
Agree(s, t) ==
    /\ Changes(s) = Changes(t)
    /\ s = <<>> <=> t = <<>>
    /\ s # <<>> => Newest(s) = Newest(t)

\* The agreement survives one more state in both, and a repetition in one.
LEMMA AgreeAppend ==
    ASSUME NEW S, NEW s \in Seq(S), NEW t \in Seq(S), NEW b \in S, Agree(s, t)
    PROVE  /\ Agree(Append(s, b), Append(t, b))
           /\ s # <<>> /\ b = Newest(s) => Agree(s, Append(t, b))
<1>1. /\ Append(s, b) # <<>> /\ Newest(Append(s, b)) = b
      /\ Append(t, b) # <<>> /\ Newest(Append(t, b)) = b
  BY DEF Newest
<1>2. /\ s # <<>> /\ b = Newest(s) => Changes(Append(s, b)) = Changes(s)
      /\ s = <<>> \/ b # Newest(s) => Changes(Append(s, b)) = Append(Changes(s), b)
  BY ChangesAppend DEF Newest
<1>3. /\ t # <<>> /\ b = Newest(t) => Changes(Append(t, b)) = Changes(t)
      /\ t = <<>> \/ b # Newest(t) => Changes(Append(t, b)) = Append(Changes(t), b)
  BY ChangesAppend DEF Newest
<1>4. /\ Changes(s) = Changes(t) /\ (s = <<>> <=> t = <<>>)
      /\ s # <<>> => Newest(s) = Newest(t)
  BY DEF Agree
<1>5. Changes(Append(s, b)) = Changes(Append(t, b))
  BY <1>2, <1>3, <1>4
<1>6. s # <<>> /\ b = Newest(s) => Changes(s) = Changes(Append(t, b))
  BY <1>3, <1>4
<1> QED BY <1>1, <1>4, <1>5, <1>6 DEF Agree

\* Of the events sent up to number n, with g the last one received: the
\* newest is delivered or queued, and last names no other event.  ptrget may
\* forget last while events are still queued; it may never keep it too long.
Kept(q, g, n) ==
    /\ Queued(q) # <<>> => Newest(Queued(q)).at = n
    /\ Queued(q) = <<>> => g = n
    /\ q.last # NoPtr => Queued(q) # <<>> /\ q.last = Newest(Queued(q))

\* The inductive invariant: as long as no client makes "ptr" requests, last
\* is nil or the newest queued event, and the states seen and queued have
\* the changes and the newest state of those sent.
PointerInv ==
    /\ TInv
    /\ ~moves =>
         /\ wm # "ptr"
         /\ Kept(ptrq, got.ptr, sent.ptr)
         /\ Agree(gotbuttons \o ButtonsOf(Queued(ptrq)), sentbuttons)

\* The head of the loop changes neither what is queued nor last.
LEMMA PeekedQueued ==
    ASSUME TInv
    PROVE  /\ Ptrq \in PtrQueue /\ Queued(Ptrq) = Queued(ptrq) /\ Ptrq.last = ptrq.last
           /\ Queued(ptrq) \in Seq(Events)
<1>1. ptrq \in PtrQueue /\ Ptrq \in PtrQueue
  BY PeekedOK DEF TInv
<1>2. Queued(Ptrq) = Queued(ptrq) /\ Ptrq.last = ptrq.last
  BY <1>1, PeekKeeps DEF Ptrq
<1>3. Queued(ptrq) \in Seq(Events)
  <2> DEFINE q == ptrq
  <2>1. q.h \in Seq(Events) /\ q.t \in Seq(Events)
    BY <1>1 DEF PtrQueue
  <2> HIDE DEF q
  <2>2. Queued(q) \in Seq(Events)
    BY <2>1, QueuedProperties
  <2> QED BY <2>2 DEF q
<1> QED BY <1>1, <1>2, <1>3

\* A fresh childminder has sent, queued and delivered no pointer event.
LEMMA InitPointerInv == Init => PointerInv
<1> SUFFICES ASSUME Init PROVE PointerInv
  OBVIOUS
<1>1. /\ TInv /\ wm # "ptr" /\ ptrq = EmptyPtrqueue /\ sent.ptr = 0 /\ got.ptr = 0
      /\ sentbuttons = <<>> /\ gotbuttons = <<>>
  BY InitTInv DEF Init
<1>2. ptrq.h = <<>> /\ ptrq.t = <<>> /\ ptrq.last = NoPtr
  BY <1>1 DEF EmptyPtrqueue
<1>3. Queued(ptrq) = <<>>
  <2>1. Rev(<<>>) = <<>>
    BY DEF Rev
  <2>2. [h |-> ptrq.h, t |-> ptrq.t].h = <<>> /\ [h |-> ptrq.h, t |-> ptrq.t].t = <<>>
    BY <1>2
  <2>3. Queued(ptrq) = <<>> \o Rev(<<>>)
    BY <2>2, Zenon DEF Queued, Contents
  <2>4. <<>> \o <<>> = <<>>
    OBVIOUS
  <2> QED BY <2>1, <2>3, <2>4
<1>4. ButtonsOf(<<>>) = <<>> /\ <<>> \o <<>> = <<>>
  BY DEF ButtonsOf
<1>5. gotbuttons \o ButtonsOf(Queued(ptrq)) = <<>>
  BY <1>1, <1>3, <1>4
<1>6. Agree(gotbuttons \o ButtonsOf(Queued(ptrq)), sentbuttons)
  BY <1>1, <1>5 DEF Agree
<1>7. Kept(ptrq, got.ptr, sent.ptr)
  BY <1>1, <1>2, <1>3 DEF Kept
<1> QED BY <1>1, <1>6, <1>7 DEF PointerInv

\* A step that sends and receives no pointer event.
LEMMA QuietPointer ==
    ASSUME PointerInv, TInv', ptrq' \in {ptrq, Ptrq}, moves' = moves,
           ~moves => wm' # "ptr", sent'.ptr = sent.ptr, got'.ptr = got.ptr,
           sentbuttons' = sentbuttons, gotbuttons' = gotbuttons
    PROVE  PointerInv'
<1>1. Queued(ptrq)' = Queued(ptrq) /\ ptrq'.last = ptrq.last
  <2>1. Queued(Ptrq) = Queued(ptrq) /\ Ptrq.last = ptrq.last
    BY PeekedQueued DEF PointerInv
  <2>2. PICK r \in {ptrq, Ptrq} : r = ptrq'
    OBVIOUS
  <2>3. Queued(r) = Queued(ptrq) /\ r.last = ptrq.last
    BY <2>1, <2>2
  <2>4. Queued(ptrq)' = Queued(r)
    BY <2>2
  <2> QED BY <2>2, <2>3, <2>4
<1>2. SUFFICES ASSUME ~moves
      PROVE  /\ wm' # "ptr" /\ Kept(ptrq, got.ptr, sent.ptr)'
             /\ Agree(gotbuttons \o ButtonsOf(Queued(ptrq)), sentbuttons)'
  BY DEF PointerInv
<1>3. Kept(ptrq, got.ptr, sent.ptr) /\ Agree(gotbuttons \o ButtonsOf(Queued(ptrq)), sentbuttons)
  BY <1>2 DEF PointerInv
<1>4. Kept(ptrq, got.ptr, sent.ptr)'
  BY <1>1, <1>3 DEF Kept
<1>5. Agree(gotbuttons \o ButtonsOf(Queued(ptrq)), sentbuttons)'
  BY <1>1, <1>3
<1> QED BY <1>2, <1>4, <1>5

\* Ptrqueue.put keeps the invariant, whether it merges or appends.
LEMMA PutPointer ==
    ASSUME NEW q \in PtrQueue, NEW e \in Events, NEW g \in Seq(Buttons), NEW s \in Seq(Buttons),
           NEW x, NEW n, Kept(q, x, n), Agree(g \o ButtonsOf(Queued(q)), s)
    PROVE  /\ Kept(ptrput(q, e), x, e.at)
           /\ Agree(g \o ButtonsOf(Queued(ptrput(q, e))), Append(s, e.buttons))
<1> DEFINE c == Queued(q)
           r == ptrput(q, e)
           d == Queued(r)
<1>1. c \in Seq(Events)
  <2>1. q.h \in Seq(Events) /\ q.t \in Seq(Events)
    BY DEF PtrQueue
  <2> QED BY <2>1, QueuedProperties
<1>2. e.buttons \in Buttons
  BY DEF Events
<1>3. g \o ButtonsOf(c) \in Seq(Buttons)
      /\ (c # <<>> => g \o ButtonsOf(c) # <<>> /\ Newest(g \o ButtonsOf(c)) = Newest(c).buttons)
  BY <1>1, SeenNewest
<1>4. /\ Agree(Append(g \o ButtonsOf(c), e.buttons), Append(s, e.buttons))
      /\ g \o ButtonsOf(c) # <<>> /\ e.buttons = Newest(g \o ButtonsOf(c)) =>
            Agree(g \o ButtonsOf(c), Append(s, e.buttons))
  <2> DEFINE o == g \o ButtonsOf(c)
             b == e.buttons
  <2>1. o \in Seq(Buttons) /\ b \in Buttons /\ Agree(o, s)
    BY <1>2, <1>3
  <2> HIDE DEF o, b
  <2>2. Agree(Append(o, b), Append(s, b)) /\ (o # <<>> /\ b = Newest(o) => Agree(o, Append(s, b)))
    BY <2>1, AgreeAppend
  <2> QED BY <2>2 DEF o, b
<1>5. CASE q.last # NoPtr /\ e.buttons = q.last.buttons
  <2>1. c # <<>> /\ q.last = Newest(c)
    BY <1>5 DEF Kept
  <2>2. /\ d # <<>> /\ ButtonsOf(d) = ButtonsOf(c)
        /\ r.last = Newest(d) /\ Newest(d).at = e.at
    BY <1>5, <2>1, MergeKeeps
  <2> HIDE DEF c, d, r
  <2>3. Kept(r, x, e.at)
    BY <2>2 DEF Kept, d
  <2>4. Agree(g \o ButtonsOf(d), Append(s, e.buttons))
    BY <1>3, <1>4, <1>5, <2>1, <2>2
  <2> QED BY <2>3, <2>4 DEF d, r
<1>6. CASE ~(q.last # NoPtr /\ e.buttons = q.last.buttons)
  <2>1. d = Append(c, e) /\ r.last = e
    BY <1>6, AppendsEvent
  <2> HIDE DEF c, d, r
  <2>2. d # <<>> /\ Newest(d) = e
    BY <1>1, <2>1 DEF Newest
  <2>3. Kept(r, x, e.at)
    BY <2>1, <2>2 DEF Kept, d
  <2>4. g \o ButtonsOf(d) = Append(g \o ButtonsOf(c), e.buttons)
    BY <1>1, <2>1, SeenAppend
  <2>5. Agree(g \o ButtonsOf(d), Append(s, e.buttons))
    BY <1>4, <2>4
  <2> QED BY <2>3, <2>5 DEF d, r
<1> QED BY <1>5, <1>6

\* Ptrqueue.get keeps it: the client sees what leaves the queue.
LEMMA GetPointer ==
    ASSUME NEW q \in PtrQueue, q.h # <<>>, NEW g \in Seq(Buttons), NEW s \in Seq(Buttons),
           NEW x, NEW n, Kept(q, x, n), Agree(g \o ButtonsOf(Queued(q)), s)
    PROVE  LET e == Head(q.h) IN
           /\ Kept(ptrget(q), e.at, n)
           /\ Agree(Append(g, e.buttons) \o ButtonsOf(Queued(ptrget(q))), s)
<1> DEFINE c == Queued(q)
           r == ptrget(q)
           e == Head(q.h)
<1>1. /\ c \in Seq(Events) /\ c # <<>> /\ e = Head(c) /\ Queued(r) = Tail(c)
      /\ r.last # NoPtr => r.last = q.last /\ Tail(c) # <<>>
  BY GetTakesOldest
<1>2. /\ Newest(c).at = n
      /\ q.last # NoPtr => q.last = Newest(c)
  BY <1>1 DEF Kept
<1>3. Agree(g \o ButtonsOf(c), s)
  OBVIOUS
<1> HIDE DEF c, r, e
<1>4. Append(g, e.buttons) \o ButtonsOf(Tail(c)) = g \o ButtonsOf(c)
  BY <1>1, SeenGet
<1>5. /\ Tail(c) # <<>> => Newest(Tail(c)) = Newest(c)
      /\ Tail(c) = <<>> => e = Newest(c)
  <2>1. /\ Len(c) \in Nat /\ Len(c) # 0 /\ Tail(c) \in Seq(Events) /\ Len(Tail(c)) = Len(c) - 1
        /\ \A i \in 1..(Len(c) - 1) : Tail(c)[i] = c[i+1]
        /\ Head(c) = c[1]
    BY <1>1, HeadTailProperties
  <2>2. CASE Tail(c) # <<>>
    <3>1. Len(Tail(c)) # 0
      BY <2>1, <2>2, SMTT(40)
    <3>2. Len(c) - 1 \in 1..(Len(c) - 1) /\ (Len(c) - 1) + 1 = Len(c)
      BY <2>1, <3>1
    <3>3. Tail(c)[Len(c) - 1] = c[Len(c)]
      BY <2>1, <3>2
    <3> QED BY <2>1, <2>2, <3>3 DEF Newest
  <2>3. CASE Tail(c) = <<>>
    <3> DEFINE l == Len(c)
               k == Len(Tail(c))
    <3>1. l \in Nat /\ k = l - 1
      BY <2>1
    <3>2. k = 0
      <4>1. Len(<<>>) = 0
        OBVIOUS
      <4> QED BY <2>3, <4>1, Zenon
    <3> HIDE DEF l, k
    <3>3. l = 1
      BY <3>1, <3>2
    <3>4. Len(c) = 1
      BY <3>3 DEF l
    <3> QED BY <1>1, <2>1, <2>3, <3>4 DEF Newest
  <2> QED BY <2>2, <2>3
<1>6. Kept(r, e.at, n)
  <2>1. Queued(r) # <<>> => Newest(Queued(r)).at = n
    BY <1>1, <1>2, <1>5
  <2>2. Queued(r) = <<>> => e.at = n
    BY <1>1, <1>2, <1>5
  <2>3. r.last # NoPtr => Queued(r) # <<>> /\ r.last = Newest(Queued(r))
    BY <1>1, <1>2, <1>5
  <2> QED BY <2>1, <2>2, <2>3 DEF Kept
<1>7. Agree(Append(g, e.buttons) \o ButtonsOf(Queued(r)), s)
  BY <1>1, <1>3, <1>4
<1> QED BY <1>6, <1>7 DEF r, e

\* Every step keeps the newest event and the changes of button state.
LEMMA NextPointerInv == PointerInv /\ [Next]_vars => PointerInv'
<1> SUFFICES ASSUME PointerInv, [Next]_vars PROVE PointerInv'
  OBVIOUS
<1>0. TInv /\ TInv'
  BY NextTInv DEF PointerInv
<1>c. sent \in Counts /\ got \in Counts /\ gotbuttons \in Seq(Buttons) /\ sentbuttons \in Seq(Buttons)
  BY <1>0 DEF TInv
<1>q. Ptrq \in PtrQueue /\ Queued(Ptrq) = Queued(ptrq) /\ Ptrq.last = ptrq.last
  BY <1>0, PeekedQueued
<1>k. ~moves => /\ wm # "ptr" /\ Kept(Ptrq, got.ptr, sent.ptr)
                /\ Agree(gotbuttons \o ButtonsOf(Queued(Ptrq)), sentbuttons)
  BY <1>q DEF PointerInv, Kept
<1>1. ASSUME NEW b \in Buttons, WmPtr(b) \/ (WmDrag(b) /\ wm' = "moved") PROVE PointerInv'
  <2>1. SUFFICES ASSUME ~moves'
        PROVE  /\ wm' # "ptr" /\ Kept(ptrq, got.ptr, sent.ptr)'
               /\ Agree(gotbuttons \o ButtonsOf(Queued(ptrq)), sentbuttons)'
    BY <1>0 DEF PointerInv
  <2> DEFINE n == sent.ptr + 1
             e == [id |-> n, buttons |-> b, at |-> n]
  <2>s. /\ SendPtr(b) /\ sent.ptr < MaxPtrs /\ wm' \in {"moved", wm}
        /\ moves' = moves /\ got' = got /\ gotbuttons' = gotbuttons
    <3>1. CASE WmPtr(b)
      BY <3>1 DEF WmPtr, rules
    <3>2. CASE WmDrag(b) /\ wm' = "moved"
      BY <3>2 DEF WmDrag, rules
    <3> QED BY <1>1, <3>1, <3>2
  <2>2. /\ sent' = [sent EXCEPT !.ptr = n] /\ ptrq' = ptrput(Ptrq, e)
        /\ sentbuttons' = Append(sentbuttons, b) /\ sent.ptr < MaxPtrs
        /\ moves' = moves /\ wm' \in {"moved", wm} /\ got' = got /\ gotbuttons' = gotbuttons
    BY <2>s DEF SendPtr
  <2>3. n \in 0..MaxPtrs
    BY <1>c, <2>2, CountsOK, ConstantsAssumption
  <2>4. sent'.ptr = n
    BY <1>c, <2>2 DEF Counts
  <2> HIDE DEF n
  <2>5. e \in Events /\ e.at = n /\ e.buttons = b
    BY <2>3 DEF Events
  <2> HIDE DEF e
  <2>6. /\ Kept(ptrput(Ptrq, e), got.ptr, n)
        /\ Agree(gotbuttons \o ButtonsOf(Queued(ptrput(Ptrq, e))), Append(sentbuttons, b))
    <3> DEFINE q == Ptrq
    <3>1. q \in PtrQueue /\ Kept(q, got.ptr, sent.ptr)
          /\ Agree(gotbuttons \o ButtonsOf(Queued(q)), sentbuttons)
      BY <1>q, <1>k, <2>1, <2>2
    <3> HIDE DEF q
    <3>2. /\ Kept(ptrput(q, e), got.ptr, e.at)
          /\ Agree(gotbuttons \o ButtonsOf(Queued(ptrput(q, e))), Append(sentbuttons, e.buttons))
      BY <1>c, <2>5, <3>1, PutPointer
    <3> QED BY <2>5, <3>2 DEF q
  <2> QED BY <1>k, <2>1, <2>2, <2>4, <2>6
<1>2. CASE ClientPtr
  <2>1. SUFFICES ASSUME ~moves'
        PROVE  /\ wm' # "ptr" /\ Kept(ptrq, got.ptr, sent.ptr)'
               /\ Agree(gotbuttons \o ButtonsOf(Queued(ptrq)), sentbuttons)'
    BY <1>0 DEF PointerInv
  <2> DEFINE e == Head(Ptrq.h)
  <2>2. /\ phase = "run" /\ nonempty(ptrq)
        /\ got' = [got EXCEPT !.ptr = e.at] /\ gotbuttons' = Append(gotbuttons, e.buttons)
        /\ ptrq' = ptrget(Ptrq)
        /\ moves' = moves /\ wm' = wm /\ sent' = sent /\ sentbuttons' = sentbuttons
    BY <1>2 DEF ClientPtr, rules
  <2>3. Ptrq.h # <<>>
    BY <1>0, <2>2, PeekedOK
  <2>4. /\ Kept(ptrget(Ptrq), e.at, sent.ptr)
        /\ Agree(Append(gotbuttons, e.buttons) \o ButtonsOf(Queued(ptrget(Ptrq))), sentbuttons)
    <3> DEFINE q == Ptrq
    <3>1. q \in PtrQueue /\ q.h # <<>> /\ Kept(q, got.ptr, sent.ptr)
          /\ Agree(gotbuttons \o ButtonsOf(Queued(q)), sentbuttons)
      BY <1>q, <1>k, <2>1, <2>2, <2>3
    <3> HIDE DEF q
    <3>2. /\ Kept(ptrget(q), Head(q.h).at, sent.ptr)
          /\ Agree(Append(gotbuttons, Head(q.h).buttons) \o ButtonsOf(Queued(ptrget(q))), sentbuttons)
      BY <1>c, <3>1, GetPointer
    <3> QED BY <3>2 DEF q
  <2> HIDE DEF e
  <2>5. got'.ptr = e.at
    BY <1>c, <2>2 DEF Counts
  <2> QED BY <1>k, <2>1, <2>2, <2>4, <2>5
<1>3. CASE WmFlush \/ \E b \in Buttons : WmMoved(b)
  <2>1. moves' = moves /\ (moves \/ wm = "ptr")
    BY <1>3 DEF WmFlush, WmMoved, rules
  <2> QED BY <1>0, <1>k, <2>1 DEF PointerInv
<1>4. CASE WmKbd \/ WmCtl \/ ClientKbd \/ ClientCtl
  <2>1. /\ ptrq' = Ptrq /\ moves' = moves /\ wm' = wm
        /\ sentbuttons' = sentbuttons /\ gotbuttons' = gotbuttons
    BY <1>4 DEF WmKbd, WmCtl, SendCtl, ClientKbd, ClientCtl, rules, history
  <2>2. sent'.ptr = sent.ptr /\ got'.ptr = got.ptr
    <3>1. CASE WmKbd
      BY <1>c, <3>1 DEF WmKbd, Counts
    <3>2. CASE WmCtl
      BY <1>c, <3>2 DEF WmCtl, SendCtl, Counts
    <3>3. CASE ClientKbd
      BY <1>c, <3>3 DEF ClientKbd, Counts
    <3>4. CASE ClientCtl
      BY <1>c, <3>4 DEF ClientCtl, Counts
    <3> QED BY <1>4, <3>1, <3>2, <3>3, <3>4
  <2> QED BY <1>0, <1>k, <2>1, <2>2, QuietPointer
<1>5. CASE Reply \/ ClientRequest \/ ClientGone \/ Stop \/ Stopped \/ UNCHANGED vars
  <2>1. UNCHANGED <<moves, wm, ptrq, sent, got, sentbuttons, gotbuttons>>
    BY <1>5, Zenon DEF Reply, ClientRequest, ClientGone, Stop, Stopped, vars, rules, history
  <2> QED BY <1>0, <1>k, <2>1, QuietPointer
<1>6. CASE WmServe \/ WmMove
  <2>1. UNCHANGED <<moves, ptrq, sent, got, sentbuttons, gotbuttons>>
        /\ wm' \in {"idle", "setimage", "ignored", "setorigin"}
    BY <1>6 DEF WmServe, WmMove, Refuse, reshape, rules, history
  <2> QED BY <1>0, <1>k, <2>1, QuietPointer
<1>7. CASE Images \/ ClientImage
  <2>1. ptrq' = Ptrq /\ UNCHANGED <<moves, sent, got, sentbuttons, gotbuttons>>
        /\ wm' \in {"idle", "pack", wm}
    BY <1>7 DEF Images, TakeImage, ClientImage, rules, history
  <2> QED BY <1>0, <1>k, <2>1, QuietPointer
<1>8. CASE WmPack \/ WmRect
  <2>1. /\ SendCtl /\ UNCHANGED <<moves, got, sentbuttons, gotbuttons>>
        /\ wm' \in {"idle", "rect", "answer"}
    <3>1. CASE WmPack
      BY <3>1 DEF WmPack, rules, history
    <3>2. CASE WmRect
      BY <3>2 DEF WmRect, rules, history
    <3> QED BY <1>8, <3>1, <3>2
  <2>2. ptrq' = Ptrq /\ sent'.ptr = sent.ptr
    BY <1>c, <2>1 DEF SendCtl, Counts
  <2> QED BY <1>0, <1>k, <2>1, <2>2, QuietPointer
<1>9. ASSUME NEW b \in Buttons, WmDrag(b), wm' # "moved" PROVE PointerInv'
  <2>1. UNCHANGED <<moves, ptrq, sent, got, sentbuttons, gotbuttons>> /\ wm' = "broken"
    BY <1>9 DEF WmDrag, rules
  <2> QED BY <1>0, <1>k, <2>1, QuietPointer
<1> QED BY <1>1, <1>2, <1>3, <1>4, <1>5, <1>6, <1>7, <1>8, <1>9 DEF Next

\* Ptrqueue.put merges an event only into the one queued before it: as long
\* as no client makes "ptr" requests, the newest event sent is delivered or
\* last in the queue, for any number of events and any interleaving of the
\* manager with the client.
THEOREM NewestKept == Spec => []NewestPointerKept
<1>1. Init => PointerInv
  BY InitPointerInv
<1>2. PointerInv /\ [Next]_vars => PointerInv'
  BY NextPointerInv
<1>3. PointerInv => NewestPointerKept
  <2>1. PtrContents = Queued(ptrq)
    BY Zenon DEF PtrContents, Queued
  <2> QED BY <2>1 DEF PointerInv, Kept, NewestPointerKept, Newest
<1> QED BY <1>1, <1>2, <1>3, PTL DEF Spec

\* Merging never hides a click: the changes of button state the client has
\* seen, followed by those still queued, are those that were sent.
THEOREM ClicksKept == Spec => []NoClickLost
<1>1. Init => PointerInv
  BY InitPointerInv
<1>2. PointerInv /\ [Next]_vars => PointerInv'
  BY NextPointerInv
<1>3. PointerInv => NoClickLost
  <2>1. PtrContents = Queued(ptrq)
    BY Zenon DEF PtrContents, Queued
  <2>2. NoClickLost = (~moves => Changes(gotbuttons \o ButtonsOf(PtrContents)) = Changes(sentbuttons))
    BY Zenon DEF NoClickLost, ButtonsOf
  <2> QED BY <2>1, <2>2 DEF PointerInv, Agree
<1> QED BY <1>1, <1>2, <1>3, PTL DEF Spec

=============================================================================
