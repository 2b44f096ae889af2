---------------------------- MODULE RowWm_proofs ----------------------------
(***************************************************************************)
(* Proofs about RowWm and the z-order list for any clients.                 *)
(***************************************************************************)
EXTENDS RowWm, FiniteSetTheorems, WellFoundedInduction, TLAPS

Elems(s) == {s[i] : i \in 1..Len(s)}
Distinct(s) == \A i, j \in 1..Len(s) : s[i] = s[j] => i = j

\* s is the list that starts at h: its members are linked in this order, none
\* comes twice, and the last one is linked to nil.
IsChain(next, h, s) ==
    /\ s \in Seq(Clients) /\ Distinct(s)
    /\ h = IF s = <<>> THEN Nil ELSE s[1]
    /\ \A i \in 1..Len(s) : next[s[i]] = IF i = Len(s) THEN Nil ELSE s[i + 1]
IsList(z, s) == z \in Zlists /\ IsChain(z.znext, z.zorder, s)

----------------------------------------------------------------------------
(* Following the links *)

\* A set of numbers has a least element.
LEMMA Least ==
  ASSUME NEW T, T \subseteq Nat, T # {}
  PROVE  \E x \in T : \A y \in T : x <= y
<1>1. PICK x \in T : \A y \in T : ~(<<y, x>> \in OpToRel(<, Nat))
  BY NatLessThanWellFounded, WFMin
<1>2. \A y \in T : ~(y < x)
  BY <1>1 DEF OpToRel
<1> QED
  BY <1>2

\* A list is not longer than there are clients.
LEMMA LengthBound ==
  ASSUME NEW s \in Seq(Clients), Distinct(s)
  PROVE  Len(s) <= Cardinality(Clients)
<1> DEFINE f == [i \in 1..Len(s) |-> s[i]]
<1>1. Len(s) \in Nat /\ \A i \in 1..Len(s) : s[i] \in Clients
  OBVIOUS
<1>2. IsFiniteSet(1..Len(s)) /\ Cardinality(1..Len(s)) = Len(s)
  <2>1. IsFiniteSet(1..Len(s)) /\ Cardinality(1..Len(s)) = IF 1 > Len(s) THEN 0 ELSE Len(s) - 1 + 1
    BY <1>1, FS_Interval, SMTT(40)
  <2> QED
    BY <1>1, <2>1
<1>3. f \in Injection(1..Len(s), Clients)
  BY <1>1 DEF Injection, IsInjective, Distinct
<1> HIDE DEF f
<1> QED
  BY <1>2, <1>3, ClientsAssumption, FS_Injection

\* Following the links meets the members of the list one after the other.
LEMMA WalkIs ==
  ASSUME NEW next, NEW h, NEW s, IsChain(next, h, s)
  PROVE  Walk(next, h) = [i \in 0..Cardinality(Clients) |-> IF i < Len(s) THEN s[i + 1] ELSE Nil]
<1> DEFINE N == Cardinality(Clients)
           w == [i \in 0..N |-> IF i < Len(s) THEN s[i + 1] ELSE Nil]
           Follows(f) == f = [i \in 0..N |-> IF i = 0 THEN h
                                ELSE LET prev == f[i - 1] IN IF prev = Nil THEN Nil ELSE next[prev]]
<1>1. N \in Nat /\ Nil \notin Clients
  BY ClientsAssumption, FS_CardinalityType
<1>2. Walk(next, h) = CHOOSE f : Follows(f)
  BY DEF Walk
<1>3. s \in Seq(Clients) /\ Len(s) \in Nat /\ Len(s) <= N /\ \A i \in 1..Len(s) : s[i] \in Clients
  BY LengthBound DEF IsChain
<1> HIDE DEF N
<1>4. Follows(w)
  <2>1. ASSUME NEW i \in 0..N
        PROVE  w[i] = IF i = 0 THEN h ELSE IF w[i - 1] = Nil THEN Nil ELSE next[w[i - 1]]
    <3>1. CASE i = 0
      BY <1>1, <1>3, <3>1 DEF IsChain
    <3>2. CASE i # 0
      <4>1. i - 1 \in 0..N /\ w[i - 1] = (IF i - 1 < Len(s) THEN s[i] ELSE Nil)
        BY <1>1, <3>2
      <4>2. CASE i - 1 < Len(s)
        <5>1. i \in 1..Len(s) /\ s[i] # Nil /\ next[s[i]] = IF i = Len(s) THEN Nil ELSE s[i + 1]
          BY <1>1, <1>3, <3>2, <4>2 DEF IsChain
        <5> QED
          BY <1>3, <3>2, <4>1, <4>2, <5>1
      <4>3. CASE ~(i - 1 < Len(s))
        BY <1>3, <3>2, <4>1, <4>3
      <4> QED
        BY <4>2, <4>3
    <3> QED
      BY <3>1, <3>2
  <2> HIDE DEF w
  <2>2. w = [i \in 0..N |-> w[i]]
    BY DEF w
  <2> QED
    BY <2>1, <2>2
<1>5. ASSUME NEW f, Follows(f) PROVE f = w
  <2> DEFINE T == {i \in 0..N : f[i] # w[i]}
  <2>1. /\ f = [i \in 0..N |-> f[i]] /\ w = [i \in 0..N |-> w[i]]
        /\ f[0] = h /\ w[0] = h
        /\ \A i \in 0..N : i # 0 => f[i] = IF f[i - 1] = Nil THEN Nil ELSE next[f[i - 1]]
        /\ \A i \in 0..N : i # 0 => w[i] = IF w[i - 1] = Nil THEN Nil ELSE next[w[i - 1]]
    BY <1>1, <1>4, <1>5
  <2> HIDE DEF w
  <2>2. ASSUME T # {} PROVE FALSE
    <3>1. T \subseteq Nat
      BY <1>1
    <3>2. PICK i \in T : \A j \in T : i <= j
      <4> HIDE DEF T
      <4> QED
        BY <2>2, <3>1, Least
    <3>3. i # 0 /\ i - 1 \in 0..N /\ i - 1 \notin T
      BY <1>1, <2>1, <3>2
    <3> QED
      BY <2>1, <3>2, <3>3, ZenonT(40)
  <2> QED
    BY <2>1, <2>2
<1>6. (CHOOSE f : Follows(f)) = w
  <2> HIDE DEF Follows, w
  <2> QED
    BY <1>4, <1>5
<1> QED
  BY <1>2, <1>6 DEF N

\* So Chain is the list.
LEMMA ChainIs ==
  ASSUME NEW next, NEW h, NEW s, IsChain(next, h, s)
  PROVE  Chain(next, h) = s
<1> DEFINE N == Cardinality(Clients)
           at == Walk(next, h)
           w == [i \in 0..N |-> IF i < Len(s) THEN s[i + 1] ELSE Nil]
           hits == {i \in DOMAIN at : at[i] # Nil}
<1>1. N \in Nat /\ Nil \notin Clients
  BY ClientsAssumption, FS_CardinalityType
<1>2. s \in Seq(Clients) /\ Len(s) \in Nat /\ Len(s) <= N /\ \A i \in 1..Len(s) : s[i] \in Clients
  BY LengthBound DEF IsChain
<1>3. at = w
  BY WalkIs
<1> HIDE DEF N, at
<1>4. hits = 0..(Len(s) - 1)
  <2>1. \A i : i \in hits <=> i \in 0..N /\ w[i] # Nil
    BY <1>3
  <2>2. ASSUME NEW i \in 0..N PROVE w[i] # Nil <=> i < Len(s)
    BY <1>1, <1>2, <2>2
  <2>3. \A i : i \in hits <=> i \in 0..N /\ i < Len(s)
    BY <2>1, <2>2
  <2> QED
    BY <1>1, <1>2, <2>3
<1>5. Cardinality(hits) = Len(s)
  <2>1. Cardinality(0..(Len(s) - 1)) = IF 0 > Len(s) - 1 THEN 0 ELSE (Len(s) - 1) - 0 + 1
    BY <1>2, FS_Interval, SMTT(40)
  <2>2. Cardinality(0..(Len(s) - 1)) = Len(s)
    BY <1>2, <2>1
  <2> HIDE DEF hits
  <2> QED
    BY <1>4, <2>2
<1> HIDE DEF hits
<1>6. Chain(next, h) = [i \in 1..Len(s) |-> at[i - 1]]
  BY <1>5 DEF Chain, at, hits
<1>7. \A i \in 1..Len(s) : at[i - 1] = s[i]
  BY <1>1, <1>2, <1>3
<1>8. s = [i \in 1..Len(s) |-> s[i]]
  BY <1>2
<1> QED
  BY <1>6, <1>7, <1>8

\* The order and the members of a list, and that following it ends.
LEMMA OrderIs ==
  ASSUME NEW z, NEW s, IsList(z, s)
  PROVE  Order(z) = s /\ Listed(z) = Elems(s) /\ Ends(z)
<1>1. Order(z) = s
  BY ChainIs DEF IsList, Order
<1>2. Ends(z)
  <2>1. Cardinality(Clients) \in Nat
    BY ClientsAssumption, FS_CardinalityType
  <2>2. Len(s) <= Cardinality(Clients) /\ Len(s) \in Nat
    BY LengthBound DEF IsList, IsChain
  <2> QED
    BY <2>1, <2>2, WalkIs DEF IsList, Ends
<1> QED
  BY <1>1, <1>2 DEF Listed, Elems

----------------------------------------------------------------------------
(* Client.top, Client.bottom and Client.remove *)

\* The k-th of s comes first, comes last, is dropped.
Raise(s, k) == [j \in 1..Len(s) |-> IF j = 1 THEN s[k] ELSE IF j <= k THEN s[j - 1] ELSE s[j]]
Lower(s, k) == [j \in 1..Len(s) |-> IF j < k THEN s[j] ELSE IF j < Len(s) THEN s[j + 1] ELSE s[k]]
Drop(s, k)  == [j \in 1..(Len(s) - 1) |-> IF j < k THEN s[j] ELSE s[j + 1]]

\* What is known of a list and the k-th of it.
LEMMA ListFacts ==
  ASSUME NEW z, NEW s, IsList(z, s)
  PROVE  /\ Nil \notin Clients
         /\ z.zorder \in Refs /\ z.bottom \in Refs /\ z.znext \in [Clients -> Refs]
         /\ s \in Seq(Clients) /\ Len(s) \in Nat /\ Distinct(s)
         /\ \A i \in 1..Len(s) : s[i] \in Clients
         /\ (s = <<>> <=> Len(s) = 0)
         /\ z.zorder = IF s = <<>> THEN Nil ELSE s[1]
         /\ \A i \in 1..Len(s) : z.znext[s[i]] = IF i = Len(s) THEN Nil ELSE s[i + 1]
  BY ClientsAssumption DEF IsList, IsChain, Zlists

\* The member before the k-th.
LEMMA PrevIs ==
  ASSUME NEW z, NEW s, IsList(z, s), NEW k \in 1..Len(s)
  PROVE  Prev(z, s[k]) = IF k = 1 THEN Nil ELSE s[k - 1]
<1>1. Order(z) = s
  BY OrderIs
<1>2. /\ s \in Seq(Clients) /\ Len(s) \in Nat
      /\ \A i, j \in 1..Len(s) : s[i] = s[j] => i = j
      /\ s # <<>>
  BY ListFacts DEF Distinct
<1>3. CASE k = 1
  BY <1>1, <1>3 DEF Prev
<1>4. CASE k # 1
  <2>1. k \in 2..Len(s) /\ s[1] # s[k] /\ \A i \in 2..Len(s) : s[i] = s[k] => i = k
    BY <1>2, <1>4
  <2>2. (CHOOSE i \in 2..Len(s) : s[i] = s[k]) = k
    BY <2>1
  <2> QED
    BY <1>1, <1>2, <1>4, <2>1, <2>2 DEF Prev
<1> QED
  BY <1>3, <1>4

\* A member comes to the top.
LEMMA topIs ==
  ASSUME NEW z, NEW s, IsList(z, s), NEW k \in 1..Len(s)
  PROVE  /\ IsList(top(z, s[k]), Raise(s, k))
         /\ top(z, s[k]).bottom = z.bottom
         /\ \A x \in Clients : x \notin Elems(s) => top(z, s[k]).znext[x] = z.znext[x]
<1> DEFINE n == Len(s)
           c == s[k]
           t == Raise(s, k)
<1>1. /\ Nil \notin Clients
      /\ z.zorder \in Refs /\ z.bottom \in Refs /\ z.znext \in [Clients -> Refs]
      /\ s \in Seq(Clients) /\ n \in Nat
      /\ \A i \in 1..n : s[i] \in Clients
      /\ s # <<>> /\ z.zorder = s[1] /\ 1 \in 1..n
      /\ \A i \in 1..n : z.znext[s[i]] = IF i = n THEN Nil ELSE s[i + 1]
  BY ListFacts
<1>2. \A i, j \in 1..n : s[i] = s[j] => i = j
  BY ListFacts DEF Distinct
<1>3. CASE k = 1
  <2>1. top(z, c) = z
    BY <1>1, <1>3 DEF top
  <2>2. t = s
    <3>1. \A j \in 1..n : t[j] = s[j]
      BY <1>1, <1>3 DEF Raise
    <3>2. t = [j \in 1..n |-> t[j]] /\ s = [j \in 1..n |-> s[j]]
      BY <1>1 DEF Raise
    <3> QED
      BY <3>1, <3>2
  <2> QED
    BY <2>1, <2>2
<1>4. CASE k # 1
  <2> DEFINE p == s[k - 1]
             nx == [[z.znext EXCEPT ![p] = z.znext[c]] EXCEPT ![c] = z.zorder]
             y == [zorder |-> c, bottom |-> z.bottom, znext |-> nx]
  <2>1. k \in 2..n /\ k - 1 \in 1..n /\ p \in Clients /\ c \in Clients /\ p # c /\ s[1] # c
    BY <1>1, <1>2, <1>4
  <2>2. top(z, c) = y
    <3>1. Prev(z, c) = p
      BY <1>4, PrevIs
    <3>2. z.zorder # c /\ p # Nil /\ z.zorder # Nil
      BY <1>1, <2>1
    <3> HIDE DEF c, p
    <3> QED
      BY <3>1, <3>2 DEF top
  <2>3. /\ nx \in [Clients -> Refs]
        /\ \A x \in Clients : nx[x] = IF x = c THEN s[1] ELSE IF x = p THEN z.znext[c] ELSE z.znext[x]
    BY <1>1, <2>1 DEF Refs
  <2>4. /\ Len(t) = n /\ \A j \in 1..n : t[j] = IF j = 1 THEN s[k] ELSE IF j <= k THEN s[j - 1] ELSE s[j]
        /\ \A j \in 1..n : t[j] \in Clients
        /\ t \in Seq(Clients) /\ t # <<>>
    <3>1. \A j \in 1..n : t[j] = IF j = 1 THEN s[k] ELSE IF j <= k THEN s[j - 1] ELSE s[j]
      BY DEF Raise
    <3>2. \A j \in 1..n : t[j] \in Clients
      BY <1>1, <2>1, <3>1, SMTT(40)
    <3>3. t = [j \in 1..n |-> t[j]]
      BY DEF Raise
    <3>4. t \in [1..n -> Clients]
      BY <3>2, <3>3
    <3> HIDE DEF t
    <3> QED
      BY <1>1, <3>1, <3>2, <3>4
  <2> HIDE DEF nx, t
  <2>5. \A i, j \in 1..n : t[i] = t[j] => i = j
    <3> DEFINE at(j) == IF j = 1 THEN k ELSE IF j <= k THEN j - 1 ELSE j
    <3>1. ASSUME NEW j \in 1..n PROVE at(j) \in 1..n /\ t[j] = s[at(j)]
      BY <1>1, <2>1, <2>4
    <3>2. ASSUME NEW i \in 1..n, NEW j \in 1..n, at(i) = at(j) PROVE i = j
      BY <1>1, <2>1, <3>2
    <3> HIDE DEF at
    <3> QED
      BY <1>2, <3>1, <3>2
  <2>6. ASSUME NEW j \in 1..n PROVE nx[t[j]] = IF j = n THEN Nil ELSE t[j + 1]
    <3>1. CASE j = 1
      <4>1. t[j] = c /\ nx[c] = s[1] /\ j # n /\ t[j + 1] = s[1]
        BY <1>1, <2>1, <2>3, <2>4, <3>1, SMTT(40)
      <4> QED
        BY <4>1
    <3>2. CASE j > 1 /\ j < k
      <4>1. j - 1 \in 1..n /\ t[j] = s[j - 1] /\ t[j] # c /\ t[j] # p /\ t[j] \in Clients
        BY <1>1, <1>2, <2>1, <2>4, <3>2, SMTT(40)
      <4>2. nx[t[j]] = z.znext[s[j - 1]] /\ z.znext[s[j - 1]] = s[j] /\ t[j + 1] = s[j] /\ j # n
        <5>1. s[j - 1] # c /\ s[j - 1] # p /\ s[j - 1] \in Clients
          BY <4>1
        <5>2. nx[t[j]] = z.znext[s[j - 1]]
          BY <2>3, <4>1, <5>1
        <5>3. z.znext[s[j - 1]] = IF j - 1 = n THEN Nil ELSE s[(j - 1) + 1]
          BY <1>1, <4>1
        <5>4. (j - 1) + 1 = j /\ j - 1 # n /\ j # n /\ j + 1 \in 1..n /\ j + 1 # 1 /\ j + 1 <= k /\ (j + 1) - 1 = j
          BY <1>1, <2>1, <3>2
        <5>5. t[j + 1] = s[j]
          BY <2>4, <5>4
        <5> QED
          BY <5>2, <5>3, <5>4, <5>5
      <4> QED
        BY <4>2
    <3>3. CASE j = k
      <4>1. t[j] = p /\ nx[p] = z.znext[s[k]]
        BY <1>1, <2>1, <2>3, <2>4, <3>3
      <4>2. k # n => t[k + 1] = s[k + 1]
        BY <1>1, <2>1, <2>4
      <4>3. z.znext[s[k]] = IF k = n THEN Nil ELSE s[k + 1]
        BY <1>1
      <4> QED
        BY <3>3, <4>1, <4>2, <4>3
    <3>4. CASE j > k
      <4>1. t[j] = s[j] /\ t[j] # c /\ t[j] # p /\ t[j] \in Clients
        BY <1>1, <1>2, <2>1, <2>4, <3>4
      <4>2. nx[t[j]] = z.znext[s[j]]
        BY <2>3, <4>1
      <4>3. j # n => t[j + 1] = s[j + 1]
        BY <1>1, <2>1, <2>4, <3>4, SMTT(40)
      <4> QED
        BY <1>1, <4>2, <4>3
    <3> QED
      BY <1>1, <2>1, <3>1, <3>2, <3>3, <3>4
  <2>7. y \in Zlists /\ y.zorder = c /\ y.bottom = z.bottom /\ y.znext = nx /\ t[1] = c
    BY <1>1, <2>1, <2>3, <2>4 DEF Zlists, Refs
  <2>8. IsList(y, t)
    <3> HIDE DEF y, c
    <3> QED
      BY <2>4, <2>5, <2>6, <2>7 DEF IsList, IsChain, Distinct
  <2>9. \A x \in Clients : x \notin Elems(s) => nx[x] = z.znext[x]
    <3>1. c \in Elems(s) /\ p \in Elems(s)
      BY <2>1 DEF Elems
    <3> QED
      BY <2>3, <3>1
  <2> HIDE DEF y
  <2> QED
    BY <2>2, <2>7, <2>8, <2>9 DEF t
<1> QED
  BY <1>3, <1>4

\* A member goes to the bottom, unless bottom says that it is there already.
LEMMA bottomIs ==
  ASSUME NEW z, NEW s, IsList(z, s), NEW k \in 1..Len(s), s[k] # z.bottom
  PROVE  /\ IsList(bottom(z, s[k]), Lower(s, k))
         /\ bottom(z, s[k]).bottom = s[k]
         /\ \A x \in Clients : x \notin Elems(s) => bottom(z, s[k]).znext[x] = z.znext[x]
<1> DEFINE n == Len(s)
           c == s[k]
           t == Lower(s, k)
           p == IF k = 1 THEN Nil ELSE s[k - 1]
           cut == IF p = Nil THEN z.znext ELSE [z.znext EXCEPT ![p] = z.znext[c]]
           own == [cut EXCEPT ![c] = Nil]
           rest == [j \in 1..(n - k) |-> s[k + j]]
           last == IF rest = <<>> THEN p ELSE Last(rest)
           nx == IF last = Nil THEN own ELSE [own EXCEPT ![last] = c]
           h == IF last = Nil THEN c ELSE IF p = Nil THEN z.znext[c] ELSE z.zorder
           y == [zorder |-> h, bottom |-> c, znext |-> nx]
<1>1. /\ Nil \notin Clients
      /\ z.zorder \in Refs /\ z.bottom \in Refs /\ z.znext \in [Clients -> Refs]
      /\ s \in Seq(Clients) /\ n \in Nat
      /\ \A i \in 1..n : s[i] \in Clients
      /\ s # <<>> /\ z.zorder = s[1] /\ 1 \in 1..n
      /\ \A i \in 1..n : z.znext[s[i]] = IF i = n THEN Nil ELSE s[i + 1]
  BY ListFacts
<1>2. \A i, j \in 1..n : s[i] = s[j] => i = j
  BY ListFacts DEF Distinct
<1>3. /\ c \in Clients /\ (k = 1 => p = Nil)
      /\ k # 1 => k - 1 \in 1..n /\ p = s[k - 1] /\ p \in Clients /\ p # Nil /\ p # c
  BY <1>1, <1>2
<1>4. /\ own \in [Clients -> Refs]
      /\ \A x \in Clients : own[x] = IF x = c THEN Nil ELSE IF x = p THEN z.znext[c] ELSE z.znext[x]
  <2>1. z.znext[c] \in Refs /\ Nil \in Refs
    BY <1>1, <1>3 DEF Refs
  <2> HIDE DEF c, p
  <2>2. /\ cut \in [Clients -> Refs]
        /\ \A x \in Clients : cut[x] = IF x = p THEN z.znext[c] ELSE z.znext[x]
    BY <1>1, <1>3, <2>1
  <2> HIDE DEF cut
  <2> QED
    BY <1>3, <2>1, <2>2
\* What follows c is the list from the next of c on.
<1>5. /\ rest \in Seq(Clients) /\ Len(rest) = n - k
      /\ \A j \in 1..(n - k) : rest[j] = s[k + j]
      /\ (rest = <<>> <=> k = n)
  <2>1. \A j \in 1..(n - k) : s[k + j] \in Clients
    BY <1>1
  <2>2. rest \in [1..(n - k) -> Clients] /\ n - k \in Nat
    BY <1>1, <2>1
  <2>3. \A j \in 1..(n - k) : rest[j] = s[k + j]
    OBVIOUS
  <2> HIDE DEF rest
  <2>4. rest \in Seq(Clients) /\ Len(rest) = n - k
    BY <2>2
  <2> QED
    BY <1>1, <2>3, <2>4
<1> HIDE DEF rest, own
<1>6. Chain(own, z.znext[c]) = rest
  <2>1. Distinct(rest)
    BY <1>1, <1>2, <1>5 DEF Distinct
  <2>2. z.znext[c] = IF rest = <<>> THEN Nil ELSE rest[1]
    <3>1. z.znext[s[k]] = IF k = n THEN Nil ELSE s[k + 1]
      BY <1>1
    <3>2. k # n => 1 \in 1..(n - k)
      BY <1>1
    <3>3. k # n => rest[1] = s[k + 1]
      BY <1>5, <3>2
    <3> QED
      BY <1>5, <3>1, <3>3
  <2>3. ASSUME NEW j \in 1..Len(rest) PROVE own[rest[j]] = IF j = Len(rest) THEN Nil ELSE rest[j + 1]
    <3>1. j \in 1..(n - k) /\ k + j \in 1..n /\ rest[j] = s[k + j]
      BY <1>1, <1>5
    <3>2. s[k + j] # c /\ s[k + j] # p /\ s[k + j] \in Clients
      BY <1>1, <1>2, <1>3, <3>1, SMTT(40)
    <3>3. own[rest[j]] = z.znext[s[k + j]]
      BY <1>4, <3>1, <3>2
    <3>4. z.znext[s[k + j]] = IF k + j = n THEN Nil ELSE s[k + j + 1]
      BY <1>1, <3>1
    <3>5. j # Len(rest) => rest[j + 1] = s[k + j + 1]
      <4>1. j # Len(rest) => j + 1 \in 1..(n - k)
        <5>1. Len(rest) = n - k /\ n \in Nat
          BY <1>1, <1>5
        <5> HIDE DEF n
        <5> QED
          BY <3>1, <5>1
      <4>2. j # Len(rest) => rest[j + 1] = s[k + (j + 1)]
        BY <1>5, <4>1
      <4>3. k + (j + 1) = k + j + 1
        BY <1>1, <3>1
      <4> QED
        BY <4>2, <4>3
    <3> QED
      BY <1>1, <1>5, <3>1, <3>3, <3>4, <3>5
  <2>4. IsChain(own, z.znext[c], rest)
    BY <1>5, <2>1, <2>2, <2>3 DEF IsChain
  <2> QED
    BY <2>4, ChainIs
<1>7. /\ last = IF k = n THEN p ELSE s[n]
      /\ last = Nil <=> n = 1
      /\ n # 1 => last \in Clients /\ last # c
  <2>1. k # n => Last(rest) = s[n]
    BY <1>1, <1>5 DEF Last
  <2>2. k # n => n # k /\ n \in 1..n /\ s[n] # c /\ s[n] \in Clients
    BY <1>1, <1>2
  <2> QED
    BY <1>1, <1>3, <1>5, <2>1, <2>2
<1> HIDE DEF last
<1>8. bottom(z, c) = y
  <2>1. Prev(z, c) = p
    BY PrevIs
  <2>2. c # z.bottom
    OBVIOUS
  <2> HIDE DEF c, p
  <2> QED
    BY <1>6, <2>1, <2>2 DEF bottom, own, last
<1>9. /\ nx \in [Clients -> Refs]
      /\ \A x \in Clients : nx[x] = IF n # 1 /\ x = last THEN c ELSE own[x]
  <2> HIDE DEF c
  <2> QED
    BY <1>3, <1>4, <1>7 DEF Refs
<1>10. /\ Len(t) = n /\ \A j \in 1..n : t[j] = IF j < k THEN s[j] ELSE IF j < n THEN s[j + 1] ELSE s[k]
       /\ \A j \in 1..n : t[j] \in Clients
       /\ t \in Seq(Clients) /\ t # <<>>
  <2>1. \A j \in 1..n : t[j] = IF j < k THEN s[j] ELSE IF j < n THEN s[j + 1] ELSE s[k]
    BY DEF Lower
  <2>2. \A j \in 1..n : t[j] \in Clients
    BY <1>1, <2>1
  <2>3. t = [j \in 1..n |-> t[j]]
    BY DEF Lower
  <2>4. t \in [1..n -> Clients]
    BY <2>2, <2>3
  <2> HIDE DEF t
  <2> QED
    BY <1>1, <2>1, <2>2, <2>4
<1> HIDE DEF nx, t
<1>11. \A i, j \in 1..n : t[i] = t[j] => i = j
  <2> DEFINE at(j) == IF j < k THEN j ELSE IF j < n THEN j + 1 ELSE k
  <2>1. ASSUME NEW j \in 1..n PROVE at(j) \in 1..n /\ t[j] = s[at(j)]
    BY <1>1, <1>10
  <2>2. ASSUME NEW i \in 1..n, NEW j \in 1..n, at(i) = at(j) PROVE i = j
    BY <1>1, <2>2
  <2> HIDE DEF at, n, t
  <2>3. ASSUME NEW i \in 1..n, NEW j \in 1..n, t[i] = t[j] PROVE i = j
    <3>1. at(i) \in 1..n /\ at(j) \in 1..n /\ s[at(i)] = s[at(j)]
      BY <2>1, <2>3
    <3>2. at(i) = at(j)
      BY <1>2, <3>1
    <3> QED
      BY <2>2, <3>2
  <2> QED
    BY <2>3
<1>12. ASSUME NEW j \in 1..n PROVE nx[t[j]] = IF j = n THEN Nil ELSE t[j + 1]
  <2>1. CASE j = n
    <3>1. t[j] = c /\ own[c] = Nil /\ (n # 1 => c # last)
      BY <1>1, <1>3, <1>4, <1>7, <1>10, <2>1
    <3> QED
      BY <1>3, <1>9, <2>1, <3>1
  <2>2. CASE j # n /\ j + 1 = n
    <3>1. t[n] = c
      BY <1>1, <1>10
    <3>2. t[j] = last /\ n # 1
      BY <1>1, <1>3, <1>7, <1>10, <2>2
    <3> QED
      BY <1>7, <1>9, <2>2, <3>1, <3>2
  <2>3. CASE j # n /\ j + 1 # n
    <3>1. j + 1 < n /\ j \in 1..n /\ j + 1 \in 1..n /\ n # 1
      BY <1>1, <2>3
    <3>2. CASE j + 1 < k
      <4>1. t[j] = s[j] /\ t[j + 1] = s[j + 1] /\ s[j] # c /\ s[j] # p /\ s[j] # last /\ s[j] \in Clients
        BY <1>1, <1>2, <1>3, <1>7, <1>10, <3>1, <3>2, SMTT(40)
      <4>2. nx[s[j]] = z.znext[s[j]] /\ z.znext[s[j]] = s[j + 1]
        BY <1>1, <1>4, <1>9, <2>3, <4>1
      <4> QED
        BY <2>3, <4>1, <4>2
    <3>3. CASE j + 1 = k
      <4>1. t[j] = s[j] /\ s[j] = p /\ p # c /\ p # Nil /\ p \in Clients /\ p # last
        BY <1>1, <1>2, <1>3, <1>7, <1>10, <3>1, <3>3
      <4>2. nx[p] = z.znext[c] /\ z.znext[c] = s[k + 1] /\ t[j + 1] = s[k + 1]
        BY <1>1, <1>4, <1>9, <1>10, <3>1, <3>3, <4>1
      <4> QED
        BY <2>3, <4>1, <4>2
    <3>4. CASE j + 1 > k
      <4>1. /\ t[j] = s[j + 1] /\ t[j + 1] = s[j + 2] /\ j + 2 \in 1..n
            /\ s[j + 1] # c /\ s[j + 1] # p /\ s[j + 1] # last /\ s[j + 1] \in Clients
        <5>1. j + 2 \in 1..n /\ j >= k /\ j < n /\ n \in 1..n
          BY <1>1, <3>1, <3>4
        <5>2. t[j] = s[j + 1] /\ s[j + 1] \in Clients
          BY <1>1, <1>10, <3>1, <5>1
        <5>3. t[j + 1] = s[(j + 1) + 1] /\ (j + 1) + 1 = j + 2
          BY <1>1, <1>10, <3>1, <5>1
        <5>4. j + 1 # k /\ j + 1 # k - 1 /\ j + 1 # n
          BY <1>1, <3>1, <5>1
        <5>5. s[j + 1] # c /\ s[j + 1] # s[n] /\ (k # 1 => s[j + 1] # s[k - 1])
          BY <1>2, <1>3, <3>1, <5>1, <5>4
        <5>6. s[j + 1] # p /\ s[j + 1] # last
          <6>1. s[j + 1] # p
            BY <1>1, <1>3, <5>2, <5>5
          <6> HIDE DEF p, c
          <6> QED
            BY <1>7, <5>5, <6>1
        <5> QED
          BY <5>1, <5>2, <5>3, <5>5, <5>6
      <4>2. nx[s[j + 1]] = z.znext[s[j + 1]] /\ z.znext[s[j + 1]] = s[j + 2]
        BY <1>1, <1>4, <1>9, <3>1, <4>1
      <4> QED
        BY <2>3, <4>1, <4>2
    <3> QED
      BY <1>1, <3>2, <3>3, <3>4
  <2> QED
    BY <2>1, <2>2, <2>3
<1>13. h = t[1] /\ h \in Clients
  <2>1. CASE n = 1
    BY <1>1, <1>7, <1>10, <2>1
  <2>2. CASE n # 1 /\ k = 1
    BY <1>1, <1>3, <1>7, <1>10, <2>2
  <2>3. CASE n # 1 /\ k # 1
    BY <1>1, <1>3, <1>7, <1>10, <2>3
  <2> QED
    BY <2>1, <2>2, <2>3
<1> HIDE DEF h
<1>14. y \in Zlists /\ y.zorder = h /\ y.bottom = c /\ y.znext = nx
  BY <1>3, <1>9, <1>13 DEF Zlists, Refs
<1>15. IsList(y, t)
  <2> HIDE DEF y, c
  <2> QED
    BY <1>10, <1>11, <1>12, <1>13, <1>14 DEF IsList, IsChain, Distinct
<1>16. \A x \in Clients : x \notin Elems(s) => nx[x] = z.znext[x]
  <2>1. c \in Elems(s) /\ (k # 1 => p \in Elems(s)) /\ (n # 1 => last \in Elems(s))
    BY <1>1, <1>3, <1>7 DEF Elems
  <2>2. k = 1 => p \notin Clients
    BY <1>1, <1>3
  <2> QED
    BY <1>4, <1>9, <2>1, <2>2
<1> HIDE DEF y
<1> QED
  BY <1>8, <1>14, <1>15, <1>16 DEF t

\* A client that is not listed is put at the bottom.
LEMMA bottomNew ==
  ASSUME NEW z, NEW s, IsList(z, s), NEW c \in Clients, c \notin Elems(s), c # z.bottom,
         z.znext[c] = Nil
  PROVE  /\ IsList(bottom(z, c), Append(s, c))
         /\ bottom(z, c).bottom = c
         /\ \A x \in Clients : x \notin Elems(s) => bottom(z, c).znext[x] = z.znext[x]
<1> DEFINE n == Len(s)
           t == Append(s, c)
           p == IF s = <<>> THEN Nil ELSE s[n]
           cut == IF p = Nil THEN z.znext ELSE [z.znext EXCEPT ![p] = z.znext[c]]
           own == [cut EXCEPT ![c] = Nil]
           nx == IF p = Nil THEN z.znext ELSE [z.znext EXCEPT ![p] = c]
           h == IF p = Nil THEN c ELSE z.zorder
           y == [zorder |-> h, bottom |-> c, znext |-> nx]
<1>1. /\ Nil \notin Clients
      /\ z.zorder \in Refs /\ z.bottom \in Refs /\ z.znext \in [Clients -> Refs]
      /\ s \in Seq(Clients) /\ n \in Nat
      /\ \A i \in 1..n : s[i] \in Clients
      /\ z.zorder = (IF s = <<>> THEN Nil ELSE s[1]) /\ (s = <<>> <=> n = 0)
      /\ \A i \in 1..n : z.znext[s[i]] = IF i = n THEN Nil ELSE s[i + 1]
  BY ListFacts
<1>2. \A i, j \in 1..n : s[i] = s[j] => i = j
  BY ListFacts DEF Distinct
<1>3. \A i \in 1..n : s[i] # c
  BY DEF Elems
<1>4. /\ s = <<>> => p = Nil
      /\ s # <<>> => n \in 1..n /\ p = s[n] /\ p \in Clients /\ p # Nil /\ p # c /\ z.znext[p] = Nil
  BY <1>1, <1>3
<1>5. Prev(z, c) = p
  <2>1. Order(z) = s
    BY OrderIs
  <2>2. s # <<>> => s[1] # c /\ ~\E i \in 2..Len(s) : s[i] = c
    BY <1>1, <1>3
  <2> QED
    BY <2>1, <2>2 DEF Prev, Last
<1> HIDE DEF p
<1>6. own = z.znext
  <2>1. cut = z.znext
    BY <1>1, <1>4
  <2> HIDE DEF cut
  <2> QED
    BY <1>1, <2>1
<1>7. Chain(own, z.znext[c]) = <<>>
  <2>1. IsChain(own, Nil, <<>>)
    BY DEF IsChain, Distinct
  <2> QED
    BY <2>1, ChainIs
<1>8. bottom(z, c) = y
  <2> HIDE DEF own
  <2>1. bottom(z, c) = [zorder |-> IF p = Nil THEN c ELSE z.zorder, bottom |-> c,
                        znext  |-> IF p = Nil THEN own ELSE [own EXCEPT ![p] = c]]
    BY <1>5, <1>7 DEF bottom, own
  <2> QED
    BY <1>6, <2>1
<1>9. /\ nx \in [Clients -> Refs]
      /\ \A x \in Clients : nx[x] = IF s # <<>> /\ x = p THEN c ELSE z.znext[x]
  BY <1>1, <1>4 DEF Refs
<1>10. /\ t \in Seq(Clients) /\ Len(t) = n + 1 /\ t # <<>>
       /\ \A j \in 1..n : t[j] = s[j]
       /\ t[n + 1] = c
  <2>1. t \in Seq(Clients) /\ Len(t) = n + 1
    BY <1>1
  <2>2. \A j \in 1..n : t[j] = s[j]
    BY <1>1
  <2>3. t[n + 1] = c
    BY <1>1
  <2> HIDE DEF t
  <2> QED
    BY <1>1, <2>1, <2>2, <2>3
<1> HIDE DEF nx, t
<1>11. \A i, j \in 1..(n + 1) : t[i] = t[j] => i = j
  BY <1>1, <1>2, <1>3, <1>10
<1>12. ASSUME NEW j \in 1..(n + 1) PROVE nx[t[j]] = IF j = n + 1 THEN Nil ELSE t[j + 1]
  <2>1. CASE j = n + 1
    BY <1>4, <1>9, <1>10, <2>1
  <2>2. CASE j # n + 1 /\ j = n
    <3>1. s # <<>> /\ t[j] = p
      BY <1>1, <1>4, <1>10, <2>2
    <3> QED
      BY <1>4, <1>9, <1>10, <2>2, <3>1
  <2>3. CASE j # n + 1 /\ j # n
    <3>1. j \in 1..n /\ j + 1 \in 1..n /\ n \in 1..n
      BY <1>1, <2>3
    <3>2. t[j] = s[j] /\ t[j + 1] = s[j + 1] /\ s[j] # s[n] /\ s[j] \in Clients
      BY <1>1, <1>2, <1>10, <2>3, <3>1
    <3>3. s[j] # p /\ z.znext[s[j]] = s[j + 1]
      BY <1>1, <1>4, <2>3, <3>1, <3>2
    <3> QED
      BY <1>9, <2>3, <3>2, <3>3
  <2> QED
    BY <2>1, <2>2, <2>3
<1>13. h = t[1] /\ h \in Clients
  BY <1>1, <1>4, <1>10
<1> HIDE DEF h
<1>14. y \in Zlists /\ y.zorder = h /\ y.bottom = c /\ y.znext = nx
  BY <1>9, <1>13 DEF Zlists, Refs
<1>15. IsList(y, t)
  <2> HIDE DEF y
  <2> QED
    BY <1>10, <1>11, <1>12, <1>13, <1>14 DEF IsList, IsChain, Distinct
<1>16. \A x \in Clients : x \notin Elems(s) => nx[x] = z.znext[x]
  <2>1. s # <<>> => p \in Elems(s)
    BY <1>4 DEF Elems
  <2> QED
    BY <1>9, <2>1
<1> HIDE DEF y
<1> QED
  BY <1>8, <1>14, <1>15, <1>16 DEF t

\* A member leaves the list.
LEMMA removeIs ==
  ASSUME NEW z, NEW s, IsList(z, s), NEW k \in 1..Len(s)
  PROVE  /\ IsList(remove(z, s[k]), Drop(s, k))
         /\ remove(z, s[k]).bottom = IF k = 1 THEN z.znext[s[k]]
                                     ELSE IF s[k] = z.bottom THEN s[k - 1] ELSE z.bottom
         /\ \A x \in Clients : x \notin Elems(s) => remove(z, s[k]).znext[x] = z.znext[x]
<1> DEFINE n == Len(s)
           c == s[k]
           t == Drop(s, k)
           p == IF k = 1 THEN Nil ELSE s[k - 1]
           nx == IF k = 1 THEN z.znext ELSE [z.znext EXCEPT ![p] = z.znext[c]]
           h == IF k = 1 THEN z.znext[c] ELSE z.zorder
           b == IF k = 1 THEN z.znext[c] ELSE IF c = z.bottom THEN p ELSE z.bottom
           y == [zorder |-> h, bottom |-> b, znext |-> nx]
<1>1. /\ Nil \notin Clients
      /\ z.zorder \in Refs /\ z.bottom \in Refs /\ z.znext \in [Clients -> Refs]
      /\ s \in Seq(Clients) /\ n \in Nat
      /\ \A i \in 1..n : s[i] \in Clients
      /\ s # <<>> /\ z.zorder = s[1] /\ 1 \in 1..n
      /\ \A i \in 1..n : z.znext[s[i]] = IF i = n THEN Nil ELSE s[i + 1]
  BY ListFacts
<1>2. \A i, j \in 1..n : s[i] = s[j] => i = j
  BY ListFacts DEF Distinct
<1>3. /\ c \in Clients /\ (k = 1 => p = Nil)
      /\ k # 1 => k - 1 \in 1..n /\ p = s[k - 1] /\ p \in Clients /\ p # Nil /\ p # c
      /\ z.znext[c] \in Refs
  BY <1>1, <1>2
<1>4. remove(z, c) = y
  <2>1. Prev(z, c) = p
    BY PrevIs
  <2>2. c \in Listed(z)
    BY OrderIs DEF Elems
  <2>3. z = [zorder |-> z.zorder, bottom |-> z.bottom, znext |-> z.znext]
    BY DEF IsList, Zlists
  <2> HIDE DEF c, p
  <2>4. CASE k = 1
    BY <1>3, <2>1, <2>2, <2>3, <2>4 DEF remove
  <2>5. CASE k # 1
    BY <1>3, <2>1, <2>2, <2>3, <2>5 DEF remove
  <2> QED
    BY <2>4, <2>5
<1>5. /\ nx \in [Clients -> Refs]
      /\ \A x \in Clients : nx[x] = IF k # 1 /\ x = p THEN z.znext[c] ELSE z.znext[x]
  <2> HIDE DEF c, p
  <2> QED
    BY <1>1, <1>3
<1>6. /\ t \in Seq(Clients) /\ Len(t) = n - 1 /\ n - 1 \in Nat
      /\ \A j \in 1..(n - 1) : t[j] = IF j < k THEN s[j] ELSE s[j + 1]
  <2>1. \A j \in 1..(n - 1) : t[j] = IF j < k THEN s[j] ELSE s[j + 1]
    BY DEF Drop
  <2>2. \A j \in 1..(n - 1) : t[j] \in Clients
    BY <1>1, <2>1
  <2>3. t = [j \in 1..(n - 1) |-> t[j]]
    BY DEF Drop
  <2>4. t \in [1..(n - 1) -> Clients] /\ n - 1 \in Nat
    BY <1>1, <2>2, <2>3
  <2> HIDE DEF t
  <2> QED
    BY <1>1, <2>1, <2>4, SMTT(40)
<1> HIDE DEF nx, t
<1>7. \A i, j \in 1..(n - 1) : t[i] = t[j] => i = j
  <2> DEFINE at(j) == IF j < k THEN j ELSE j + 1
  <2>1. ASSUME NEW j \in 1..(n - 1) PROVE at(j) \in 1..n /\ t[j] = s[at(j)]
    BY <1>1, <1>6
  <2>2. ASSUME NEW i \in 1..(n - 1), NEW j \in 1..(n - 1), at(i) = at(j) PROVE i = j
    BY <1>1, <2>2
  <2> HIDE DEF at, n, t
  <2>3. ASSUME NEW i \in 1..(n - 1), NEW j \in 1..(n - 1), t[i] = t[j] PROVE i = j
    <3>1. at(i) \in 1..n /\ at(j) \in 1..n /\ s[at(i)] = s[at(j)]
      BY <2>1, <2>3
    <3>2. at(i) = at(j)
      BY <1>2, <3>1
    <3> QED
      BY <2>2, <3>2
  <2> QED
    BY <2>3
<1>8. ASSUME NEW j \in 1..(n - 1) PROVE nx[t[j]] = IF j = n - 1 THEN Nil ELSE t[j + 1]
  <2>1. j \in 1..n /\ j + 1 \in 1..n
    BY <1>1
  <2>2. CASE j + 1 < k
    <3>1. j # n - 1 /\ j + 1 \in 1..(n - 1) /\ k - 1 \in 1..n /\ k # 1 /\ j # k - 1
      BY <1>1, <2>2
    <3>2. t[j] = s[j] /\ t[j + 1] = s[j + 1] /\ s[j] # s[k - 1]
      BY <1>1, <1>2, <1>6, <2>1, <2>2, <3>1
    <3>3. nx[s[j]] = z.znext[s[j]] /\ z.znext[s[j]] = s[j + 1]
      BY <1>1, <1>3, <1>5, <2>1, <3>1, <3>2
    <3> QED
      BY <3>1, <3>2, <3>3
  <2>3. CASE j + 1 = k
    <3>1. k # 1 /\ t[j] = s[j] /\ j = k - 1 /\ (j = n - 1 <=> k = n)
      BY <1>1, <1>6, <2>1, <2>3
    <3>2. nx[s[j]] = z.znext[s[k]]
      BY <1>3, <1>5, <3>1
    <3>3. z.znext[s[k]] = IF k = n THEN Nil ELSE s[k + 1]
      BY <1>1
    <3>4. j # n - 1 => t[j + 1] = s[k + 1]
      BY <1>1, <1>6, <2>3, <3>1, SMTT(40)
    <3> QED
      BY <3>1, <3>2, <3>3, <3>4
  <2>4. CASE j + 1 > k
    <3>1. t[j] = s[j + 1] /\ (j = n - 1 <=> j + 1 = n)
      BY <1>1, <1>6, <2>1, <2>4
    <3>2. k # 1 => s[j + 1] # s[k - 1]
      <4>1. k # 1 => j + 1 # k - 1
        BY <1>1, <2>4
      <4> QED
        BY <1>2, <1>3, <2>1, <4>1
    <3>3. nx[s[j + 1]] = z.znext[s[j + 1]]
      BY <1>1, <1>3, <1>5, <2>1, <3>2
    <3>4. z.znext[s[j + 1]] = IF j + 1 = n THEN Nil ELSE s[(j + 1) + 1]
      BY <1>1, <2>1
    <3>5. j # n - 1 => t[j + 1] = s[(j + 1) + 1]
      <4>1. j # n - 1 => j + 1 \in 1..(n - 1) /\ ~(j + 1 < k)
        BY <1>1, <2>4
      <4> QED
        BY <1>6, <4>1
    <3> QED
      BY <3>1, <3>3, <3>4, <3>5
  <2> QED
    BY <1>1, <2>2, <2>3, <2>4
<1>9. h = (IF t = <<>> THEN Nil ELSE t[1]) /\ h \in Refs
  <2>1. t = <<>> <=> n = 1
    BY <1>1, <1>6
  <2>2. CASE n = 1
    BY <1>1, <1>3, <2>1, <2>2
  <2>3. CASE n # 1 /\ k = 1
    <3>1. 1 \in 1..(n - 1) /\ t[1] = s[1 + 1]
      BY <1>1, <1>6, <2>3
    <3>2. z.znext[s[1]] = s[1 + 1]
      BY <1>1, <2>3
    <3> QED
      BY <1>3, <2>1, <2>3, <3>1, <3>2
  <2>4. CASE n # 1 /\ k # 1
    BY <1>1, <1>6, <2>1, <2>4
  <2> QED
    BY <2>2, <2>3, <2>4
<1> HIDE DEF h
<1>10. b \in Refs
  BY <1>1, <1>3 DEF Refs
<1> HIDE DEF b
<1>11. y \in Zlists /\ y.zorder = h /\ y.bottom = b /\ y.znext = nx
  BY <1>5, <1>9, <1>10 DEF Zlists
<1>12. IsList(y, t)
  <2> HIDE DEF y
  <2> QED
    BY <1>6, <1>7, <1>8, <1>9, <1>11 DEF IsList, IsChain, Distinct
<1>13. \A x \in Clients : x \notin Elems(s) => nx[x] = z.znext[x]
  <2>1. k # 1 => p \in Elems(s)
    BY <1>3 DEF Elems
  <2> QED
    BY <1>5, <2>1
<1> HIDE DEF y
<1> QED
  BY <1>4, <1>11, <1>12, <1>13 DEF t, b

----------------------------------------------------------------------------
(* Members and ends of the resulting lists *)

\* Raising keeps the members; only the raised one may have been the last.
LEMMA RaiseFacts ==
  ASSUME NEW s \in Seq(Clients), NEW k \in 1..Len(s)
  PROVE  /\ Len(Raise(s, k)) = Len(s) /\ Elems(Raise(s, k)) = Elems(s)
         /\ Raise(s, k)[1] = s[k]
         /\ k # Len(s) => Raise(s, k)[Len(s)] = s[Len(s)]
<1> DEFINE n == Len(s)
           t == Raise(s, k)
<1>1. n \in Nat /\ \A i \in 1..n : s[i] \in Clients
  OBVIOUS
<1>2. /\ \A j \in 1..n : t[j] = IF j = 1 THEN s[k] ELSE IF j <= k THEN s[j - 1] ELSE s[j]
      /\ t = [j \in 1..n |-> t[j]]
  BY DEF Raise
<1> HIDE DEF t
<1>3. Len(t) = n
  BY <1>1, <1>2
<1>4. ASSUME NEW i \in 1..n PROVE \E j \in 1..n : t[i] = s[j]
  BY <1>1, <1>2
<1>5. ASSUME NEW j \in 1..n PROVE \E i \in 1..n : t[i] = s[j]
  <2>1. CASE j = k
    BY <1>1, <1>2, <2>1
  <2>2. CASE j < k
    <3>1. j + 1 \in 1..n /\ j + 1 # 1 /\ j + 1 <= k /\ (j + 1) - 1 = j
      BY <1>1, <2>2
    <3>2. t[j + 1] = s[j]
      BY <1>2, <3>1
    <3> QED
      BY <3>1, <3>2
  <2>3. CASE j > k
    <3>1. t[j] = s[j]
      BY <1>1, <1>2, <2>3
    <3> QED
      BY <3>1
  <2> QED
    BY <1>1, <2>1, <2>2, <2>3
<1>6. Elems(t) = Elems(s)
  <2>1. /\ \A x : x \in Elems(t) <=> \E i \in 1..n : x = t[i]
        /\ \A x : x \in Elems(s) <=> \E i \in 1..n : x = s[i]
    BY <1>3 DEF Elems
  <2> HIDE DEF n
  <2>2. \A x : x \in Elems(t) => x \in Elems(s)
    BY <1>4, <2>1
  <2>3. \A x : x \in Elems(s) => x \in Elems(t)
    BY <1>5, <2>1
  <2> QED
    BY <2>2, <2>3
<1>7. t[1] = s[k] /\ (k # n => t[n] = s[n])
  BY <1>1, <1>2
<1> QED
  BY <1>3, <1>6, <1>7 DEF t

\* Lowering keeps the members; only the lowered one may have been the first.
LEMMA LowerFacts ==
  ASSUME NEW s \in Seq(Clients), NEW k \in 1..Len(s)
  PROVE  /\ Len(Lower(s, k)) = Len(s) /\ Elems(Lower(s, k)) = Elems(s)
         /\ Lower(s, k)[Len(s)] = s[k]
         /\ k # 1 => Lower(s, k)[1] = s[1]
<1> DEFINE n == Len(s)
           t == Lower(s, k)
<1>1. n \in Nat /\ \A i \in 1..n : s[i] \in Clients
  OBVIOUS
<1>2. /\ \A j \in 1..n : t[j] = IF j < k THEN s[j] ELSE IF j < n THEN s[j + 1] ELSE s[k]
      /\ t = [j \in 1..n |-> t[j]]
  BY DEF Lower
<1> HIDE DEF t
<1>3. Len(t) = n
  BY <1>1, <1>2
<1>4. ASSUME NEW i \in 1..n PROVE \E j \in 1..n : t[i] = s[j]
  BY <1>1, <1>2
<1>5. ASSUME NEW j \in 1..n PROVE \E i \in 1..n : t[i] = s[j]
  <2>1. CASE j = k
    <3>1. n \in 1..n /\ t[n] = s[j]
      BY <1>1, <1>2, <2>1
    <3> QED
      BY <3>1
  <2>2. CASE j < k
    <3>1. t[j] = s[j]
      BY <1>1, <1>2, <2>2
    <3> QED
      BY <3>1
  <2>3. CASE j > k
    <3>1. j - 1 \in 1..n /\ ~(j - 1 < k) /\ j - 1 < n /\ (j - 1) + 1 = j
      BY <1>1, <2>3
    <3>2. t[j - 1] = s[j]
      BY <1>2, <3>1
    <3> QED
      BY <3>1, <3>2
  <2> QED
    BY <1>1, <2>1, <2>2, <2>3
<1>6. Elems(t) = Elems(s)
  <2>1. /\ \A x : x \in Elems(t) <=> \E i \in 1..n : x = t[i]
        /\ \A x : x \in Elems(s) <=> \E i \in 1..n : x = s[i]
    BY <1>3 DEF Elems
  <2> HIDE DEF n
  <2>2. \A x : x \in Elems(t) => x \in Elems(s)
    BY <1>4, <2>1
  <2>3. \A x : x \in Elems(s) => x \in Elems(t)
    BY <1>5, <2>1
  <2> QED
    BY <2>2, <2>3
<1>7. t[n] = s[k] /\ (k # 1 => t[1] = s[1])
  BY <1>1, <1>2
<1> QED
  BY <1>3, <1>6, <1>7 DEF t

\* Dropping loses one member; the others keep their order.
LEMMA DropFacts ==
  ASSUME NEW s \in Seq(Clients), Distinct(s), NEW k \in 1..Len(s)
  PROVE  /\ Len(Drop(s, k)) = Len(s) - 1
         /\ Elems(Drop(s, k)) = Elems(s) \ {s[k]}
         /\ k # 1 => Drop(s, k)[1] = s[1]
         /\ k # Len(s) => Drop(s, k)[Len(s) - 1] = s[Len(s)]
<1> DEFINE n == Len(s)
           t == Drop(s, k)
<1>1. n \in Nat /\ n - 1 \in Nat /\ \A i \in 1..n : s[i] \in Clients
  OBVIOUS
<1>2. /\ \A j \in 1..(n - 1) : t[j] = IF j < k THEN s[j] ELSE s[j + 1]
      /\ t = [j \in 1..(n - 1) |-> t[j]]
  BY DEF Drop
<1> HIDE DEF t
<1>3. Len(t) = n - 1
  BY <1>1, <1>2
<1>4. ASSUME NEW i \in 1..(n - 1) PROVE \E j \in 1..n : j # k /\ t[i] = s[j]
  <2>1. CASE i < k
    BY <1>1, <1>2, <2>1
  <2>2. CASE ~(i < k)
    <3>1. i + 1 \in 1..n /\ i + 1 # k /\ t[i] = s[i + 1]
      BY <1>1, <1>2, <2>2
    <3> QED
      BY <3>1
  <2> QED
    BY <2>1, <2>2
<1>5. ASSUME NEW j \in 1..n, j # k PROVE \E i \in 1..(n - 1) : t[i] = s[j]
  <2>2. CASE j < k
    <3>1. j \in 1..(n - 1) /\ t[j] = s[j]
      BY <1>1, <1>2, <2>2
    <3> QED
      BY <3>1
  <2>3. CASE j > k
    <3>1. j - 1 \in 1..(n - 1) /\ ~(j - 1 < k) /\ (j - 1) + 1 = j
      BY <1>1, <2>3
    <3>2. t[j - 1] = s[j]
      BY <1>2, <3>1
    <3> QED
      BY <3>1, <3>2
  <2> QED
    BY <1>1, <1>5, <2>2, <2>3
<1>6. Elems(t) = Elems(s) \ {s[k]}
  <2>1. ASSUME NEW x \in Elems(t) PROVE x \in Elems(s) /\ x # s[k]
    <3>1. PICK i \in 1..(n - 1) : x = t[i]
      BY <1>3 DEF Elems
    <3>2. PICK j \in 1..n : j # k /\ t[i] = s[j]
      BY <1>4
    <3>3. s[j] # s[k]
      BY <3>2 DEF Distinct
    <3> QED
      BY <3>1, <3>2, <3>3 DEF Elems
  <2>2. ASSUME NEW x \in Elems(s), x # s[k] PROVE x \in Elems(t)
    <3>1. PICK j \in 1..n : x = s[j]
      BY DEF Elems
    <3>2. PICK i \in 1..(n - 1) : t[i] = s[j]
      BY <1>5, <2>2, <3>1
    <3> QED
      BY <1>3, <3>1, <3>2 DEF Elems
  <2> QED
    BY <2>1, <2>2
<1>7. (k # 1 => t[1] = s[1]) /\ (k # n => t[n - 1] = s[n])
  <2>1. k # 1 => 1 \in 1..(n - 1) /\ 1 < k
    BY <1>1
  <2>2. k # n => n - 1 \in 1..(n - 1) /\ ~(n - 1 < k) /\ (n - 1) + 1 = n
    BY <1>1
  <2> QED
    BY <1>2, <2>1, <2>2
<1> QED
  BY <1>3, <1>6, <1>7 DEF t

\* Appending adds one member, the last.
LEMMA AppendFacts ==
  ASSUME NEW s \in Seq(Clients), NEW c \in Clients
  PROVE  /\ Append(s, c) # <<>> /\ Len(Append(s, c)) = Len(s) + 1
         /\ Elems(Append(s, c)) = Elems(s) \cup {c}
         /\ Append(s, c)[Len(s) + 1] = c
<1> DEFINE n == Len(s)
           t == Append(s, c)
<1>1. n \in Nat /\ Len(t) = n + 1 /\ t \in Seq(Clients)
  OBVIOUS
<1>2. \A i \in 1..n : t[i] = s[i]
  OBVIOUS
<1>3. t[n + 1] = c
  OBVIOUS
<1> HIDE DEF t
<1>4. Elems(t) = Elems(s) \cup {c}
  <2>1. ASSUME NEW x \in Elems(t) PROVE x \in Elems(s) \cup {c}
    <3>1. PICK i \in 1..(n + 1) : x = t[i]
      BY <1>1 DEF Elems
    <3>2. CASE i = n + 1
      BY <1>3, <3>1, <3>2
    <3>3. CASE i # n + 1
      <4>1. i \in 1..n /\ x = s[i]
        BY <1>1, <1>2, <3>1, <3>3
      <4> QED
        BY <4>1 DEF Elems
    <3> QED
      BY <3>2, <3>3
  <2>2. ASSUME NEW x \in Elems(s) PROVE x \in Elems(t)
    <3>1. PICK i \in 1..n : x = s[i]
      BY DEF Elems
    <3>2. i \in 1..(n + 1) /\ x = t[i]
      BY <1>1, <1>2, <3>1
    <3> QED
      BY <1>1, <3>2 DEF Elems
  <2>3. c \in Elems(t)
    <3>1. n + 1 \in 1..(n + 1)
      BY <1>1
    <3> QED
      BY <1>1, <1>3, <3>1 DEF Elems
  <2> QED
    BY <2>1, <2>2, <2>3
<1>5. t # <<>>
  BY <1>1
<1> QED
  BY <1>1, <1>3, <1>4, <1>5 DEF t

\* The first listed client in S is a listed client in S, if there is one.
LEMMA FirstIs ==
  ASSUME NEW z, NEW s, IsList(z, s), NEW S
  PROVE  \/ FirstListed(z, S) = Nil /\ Elems(s) \cap S = {}
         \/ FirstListed(z, S) \in Elems(s) \cap S /\ FirstListed(z, S) # Nil
<1> DEFINE hits == {i \in 1..Len(s) : s[i] \in S}
<1>1. /\ Order(z) = s /\ Len(s) \in Nat /\ Nil \notin Clients
      /\ \A i \in 1..Len(s) : s[i] \in Clients
  BY OrderIs, ListFacts
<1>2. CASE hits = {}
  <2>1. Elems(s) \cap S = {}
    BY <1>2 DEF Elems
  <2> QED
    BY <1>1, <1>2, <2>1 DEF FirstListed
<1>3. CASE hits # {}
  <2> DEFINE m == CHOOSE i \in hits : \A j \in hits : i <= j
  <2>1. hits \subseteq Nat
    BY <1>1
  <2>2. FirstListed(z, S) = s[m]
    BY <1>1, <1>3 DEF FirstListed
  <2>3. m \in hits
    <3> HIDE DEF hits
    <3>1. \E i \in hits : \A j \in hits : i <= j
      BY <1>3, <2>1, Least
    <3> QED
      BY <3>1
  <2> HIDE DEF m
  <2> QED
    BY <1>1, <2>2, <2>3 DEF Elems
<1> QED
  BY <1>2, <1>3

----------------------------------------------------------------------------
(* pack_windows *)

\* bottom is nil for an empty list, and otherwise some member of it.
BottomIn(z, s) == (s = <<>> <=> z.bottom = Nil) /\ (z.bottom # Nil => z.bottom \in Elems(s))

\* No two clients have the same wintype.
OneEach(a) == \A c, d \in Clients : a[c] = a[d] /\ a[c] # "none" => c = d

\* A header is the first row and a footer the last.
Rows(a, s) ==
    \A i \in 1..Len(s) : /\ a[s[i]] = "header" => i = 1
                         /\ a[s[i]] = "footer" => i = Len(s)

\* bottom may be stale, but does not point to a footer that is not the last.
FooterKnown(z, s) == \A i \in 1..Len(s) : s[i] = z.bottom /\ attrs[s[i]] = "footer" => i = Len(s)

\* Packing keeps the members, brings the header up and the footer down.
LEMMA PackIs ==
  ASSUME NEW z, NEW s, IsList(z, s), BottomIn(z, s), FooterKnown(z, s), OneEach(attrs)
  PROVE  \E t : /\ IsList(pack_windows(z), t) /\ Elems(t) = Elems(s)
                /\ BottomIn(pack_windows(z), t) /\ Rows(attrs, t)
                /\ \A x \in Clients : x \notin Elems(s) => pack_windows(z).znext[x] = z.znext[x]
<1> DEFINE header == FirstListed(z, OfType("header"))
           z1 == IF header = Nil THEN z ELSE top(z, header)
           footer == FirstListed(z1, OfType("footer"))
           z2 == IF footer = Nil THEN z1 ELSE bottom(z1, footer)
<1>1. pack_windows(z) = z2
  BY DEF pack_windows
<1>2. /\ Nil \notin Clients /\ s \in Seq(Clients) /\ Len(s) \in Nat
      /\ \A i \in 1..Len(s) : s[i] \in Clients
      /\ \A i, j \in 1..Len(s) : s[i] = s[j] => i = j
  BY ListFacts DEF Distinct
\* The header comes up.
<1>3. \E t : /\ IsList(z1, t) /\ Elems(t) = Elems(s) /\ BottomIn(z1, t) /\ FooterKnown(z1, t)
             /\ \A i \in 1..Len(t) : attrs[t[i]] = "header" => i = 1
             /\ \A x \in Clients : x \notin Elems(s) => z1.znext[x] = z.znext[x]
  <2> HIDE DEF header
  <2>1. \/ header = Nil /\ Elems(s) \cap OfType("header") = {}
        \/ header \in Elems(s) \cap OfType("header") /\ header # Nil
    BY FirstIs DEF header
  <2>2. CASE header = Nil /\ Elems(s) \cap OfType("header") = {}
    <3>1. z1 = z
      BY <2>2
    <3>2. ASSUME NEW i \in 1..Len(s) PROVE attrs[s[i]] # "header"
      BY <1>2, <2>2 DEF Elems, OfType
    <3> HIDE DEF z1
    <3> QED
      BY <3>1, <3>2
  <2>3. CASE header \in Elems(s) \cap OfType("header") /\ header # Nil
    <3>1. PICK k \in 1..Len(s) : header = s[k]
      BY <2>3 DEF Elems
    <3> DEFINE t == Raise(s, k)
               n == Len(s)
    <3>2. z1 = top(z, s[k])
      BY <2>3, <3>1
    <3> HIDE DEF z1
    <3>3. /\ IsList(z1, t) /\ z1.bottom = z.bottom
          /\ \A x \in Clients : x \notin Elems(s) => z1.znext[x] = z.znext[x]
      BY <3>2, topIs
    <3>4. Len(t) = n /\ Elems(t) = Elems(s) /\ t[1] = s[k] /\ (k # n => t[n] = s[n])
      BY <1>2, RaiseFacts
    <3> HIDE DEF t
    <3>5. t \in Seq(Clients) /\ Len(t) \in Nat /\ (\A i \in 1..n : t[i] \in Clients)
          /\ (\A i, j \in 1..n : t[i] = t[j] => i = j) /\ 1 \in 1..n /\ n \in 1..n
      BY <1>2, <3>3, <3>4, ListFacts DEF Distinct
    <3>6. attrs[s[k]] = "header" /\ s[k] \in Clients
      BY <1>2, <2>3, <3>1 DEF OfType
    <3>7. BottomIn(z1, t)
      <4>1. t # <<>> /\ s # <<>>
        BY <1>2, <3>4, <3>5
      <4> QED
        BY <3>3, <3>4, <4>1 DEF BottomIn
    <3>8. ASSUME NEW i \in 1..n, attrs[t[i]] = "header" PROVE i = 1
      <4>1. t[i] = t[1]
        BY <3>4, <3>5, <3>6, <3>8 DEF OneEach
      <4> QED
        BY <3>5, <4>1
    <3>9. ASSUME NEW i \in 1..n, t[i] = z1.bottom, attrs[t[i]] = "footer" PROVE i = n
      <4>1. t[i] \in Elems(s)
        BY <3>4 DEF Elems
      <4>2. PICK j \in 1..n : t[i] = s[j]
        BY <4>1 DEF Elems
      <4>3. j = n
        BY <3>3, <3>9, <4>2 DEF FooterKnown
      <4>4. k # n
        BY <3>6, <3>9, <4>2, <4>3
      <4>5. t[i] = t[n]
        BY <3>4, <4>2, <4>3, <4>4
      <4> QED
        BY <3>5, <4>5
    <3>10. FooterKnown(z1, t)
      BY <3>4, <3>9 DEF FooterKnown
    <3> QED
      BY <3>3, <3>4, <3>7, <3>8, <3>10
  <2> QED
    BY <2>1, <2>2, <2>3
<1> HIDE DEF z1
<1>4. PICK t : /\ IsList(z1, t) /\ Elems(t) = Elems(s) /\ BottomIn(z1, t) /\ FooterKnown(z1, t)
               /\ \A i \in 1..Len(t) : attrs[t[i]] = "header" => i = 1
               /\ \A x \in Clients : x \notin Elems(s) => z1.znext[x] = z.znext[x]
  BY <1>3
<1>5. /\ t \in Seq(Clients) /\ Len(t) \in Nat
      /\ \A i \in 1..Len(t) : t[i] \in Clients
      /\ \A i, j \in 1..Len(t) : t[i] = t[j] => i = j
  BY <1>4, ListFacts DEF Distinct
\* The footer goes down.
<1>6. \E u : /\ IsList(z2, u) /\ Elems(u) = Elems(s) /\ BottomIn(z2, u) /\ Rows(attrs, u)
             /\ \A x \in Clients : x \notin Elems(s) => z2.znext[x] = z.znext[x]
  <2>1. \/ footer = Nil /\ Elems(t) \cap OfType("footer") = {}
        \/ footer \in Elems(t) \cap OfType("footer") /\ footer # Nil
    BY <1>4, FirstIs
  <2> HIDE DEF footer
  <2>2. CASE footer = Nil /\ Elems(t) \cap OfType("footer") = {}
    <3>1. z2 = z1
      BY <2>2
    <3>2. ASSUME NEW i \in 1..Len(t) PROVE attrs[t[i]] # "footer"
      BY <1>5, <2>2 DEF Elems, OfType
    <3> HIDE DEF z2
    <3>3. Rows(attrs, t)
      BY <1>4, <3>2 DEF Rows
    <3> QED
      BY <1>4, <3>1, <3>3
  <2>3. CASE footer \in Elems(t) \cap OfType("footer") /\ footer # Nil
    <3>1. PICK k \in 1..Len(t) : footer = t[k]
      BY <2>3 DEF Elems
    <3>2. z2 = bottom(z1, t[k])
      BY <2>3, <3>1
    <3>3. attrs[t[k]] = "footer" /\ t[k] \in Clients
      BY <1>5, <2>3, <3>1 DEF OfType
    <3> HIDE DEF z2
    <3>4. CASE t[k] = z1.bottom
      <4>1. z2 = z1 /\ k = Len(t)
        BY <1>4, <3>2, <3>3, <3>4 DEF bottom, FooterKnown
      <4>2. ASSUME NEW i \in 1..Len(t), attrs[t[i]] = "footer" PROVE i = Len(t)
        BY <1>5, <3>3, <4>1, <4>2 DEF OneEach
      <4>3. Rows(attrs, t)
        BY <1>4, <4>2 DEF Rows
      <4> QED
        BY <1>4, <4>1, <4>3
    <3>5. CASE t[k] # z1.bottom
      <4> DEFINE u == Lower(t, k)
                 n == Len(t)
      <4>1. /\ IsList(z2, u) /\ z2.bottom = t[k]
            /\ \A x \in Clients : x \notin Elems(t) => z2.znext[x] = z1.znext[x]
        BY <1>4, <3>2, <3>5, bottomIs
      <4>2. Len(u) = n /\ Elems(u) = Elems(t) /\ u[n] = t[k] /\ (k # 1 => u[1] = t[1])
        BY <1>5, LowerFacts
      <4> HIDE DEF u
      <4>3. u \in Seq(Clients) /\ (\A i \in 1..n : u[i] \in Clients)
            /\ (\A i, j \in 1..n : u[i] = u[j] => i = j) /\ 1 \in 1..n /\ n \in 1..n
        BY <1>5, <4>1, <4>2, ListFacts DEF Distinct
      <4>4. BottomIn(z2, u)
        <5>1. u # <<>> /\ t[k] \in Elems(u) /\ t[k] # Nil
          BY <1>2, <1>5, <3>3, <4>2, <4>3 DEF Elems
        <5> QED
          BY <4>1, <5>1 DEF BottomIn
      <4>5. ASSUME NEW i \in 1..n, attrs[u[i]] = "footer" PROVE i = n
        <5>1. u[i] = u[n]
          BY <3>3, <4>2, <4>3, <4>5 DEF OneEach
        <5> QED
          BY <4>3, <5>1
      <4>6. ASSUME NEW i \in 1..n, attrs[u[i]] = "header" PROVE i = 1
        <5>1. u[i] \in Elems(t)
          BY <4>2 DEF Elems
        <5>2. PICK j \in 1..n : u[i] = t[j]
          BY <5>1 DEF Elems
        <5>3. j = 1
          BY <1>4, <4>6, <5>2
        <5>4. k # 1
          BY <3>3, <4>6, <5>2, <5>3
        <5>5. u[i] = u[1]
          BY <4>2, <5>2, <5>3, <5>4
        <5> QED
          BY <4>3, <5>5
      <4>7. Rows(attrs, u)
        BY <4>2, <4>5, <4>6 DEF Rows
      <4> QED
        BY <1>4, <4>1, <4>2, <4>4, <4>7
    <3> QED
      BY <3>4, <3>5
  <2> QED
    BY <2>1, <2>2, <2>3
<1> HIDE DEF z2
<1> QED
  BY <1>1, <1>6

----------------------------------------------------------------------------
(* The inductive invariant *)

\* The links form a list of which bottom is a member, the header is first and
\* the footer last; a client that has not left is not linked before it is
\* listed; there is at most one header and one footer, and they are there.
Listing ==
    /\ IsList(zl, Order(zl)) /\ BottomIn(zl, Order(zl)) /\ Rows(attrs, Order(zl))
    /\ wins \subseteq Listed(zl)
    /\ \A c \in Clients : life[c] # "left" /\ c \notin Listed(zl) => zl.znext[c] = Nil
    /\ OneEach(attrs)
    /\ \A c \in Clients : attrs[c] # "none" => c \in Live

IInv == TypeOK /\ Listing /\ TargetsAlive /\ FocusToldRight

\* z, of which only the members are known to be D, is ready to be packed.
Packable(z, D) ==
    \E s : /\ IsList(z, s) /\ Elems(s) = D /\ BottomIn(z, s) /\ FooterKnown(z, s)
           /\ \A x \in Clients : x \notin Listed(zl) => z.znext[x] = zl.znext[x]

\* The list as it stands can be packed.
LEMMA PackableNow ==
  ASSUME Listing
  PROVE  Packable(zl, Listed(zl))
<1>1. Listed(zl) = Elems(Order(zl))
  BY OrderIs DEF Listing
<1>2. FooterKnown(zl, Order(zl))
  BY DEF Listing, Rows, FooterKnown
<1> QED
  BY <1>1, <1>2 DEF Listing, Packable

\* The list without a client can be packed, though bottom may be wrong now.
LEMMA PackableRemoved ==
  ASSUME Listing, NEW c \in Clients
  PROVE  Packable(remove(zl, c), Listed(zl) \ {c})
<1> DEFINE s == Order(zl)
           n == Len(s)
<1>1. IsList(zl, s) /\ Listed(zl) = Elems(s) /\ BottomIn(zl, s) /\ Rows(attrs, s)
  BY OrderIs DEF Listing
<1>2. CASE c \notin Listed(zl)
  <2>1. remove(zl, c) = zl /\ Listed(zl) \ {c} = Listed(zl)
    BY <1>2 DEF remove
  <2> QED
    BY <2>1, PackableNow
<1>3. CASE c \in Listed(zl)
  <2> HIDE DEF s
  <2>1. PICK k \in 1..n : c = s[k]
    BY <1>1, <1>3 DEF Elems
  <2> DEFINE t == Drop(s, k)
             z == remove(zl, c)
  <2>2. /\ IsList(z, t)
        /\ z.bottom = IF k = 1 THEN zl.znext[c] ELSE IF c = zl.bottom THEN s[k - 1] ELSE zl.bottom
        /\ \A x \in Clients : x \notin Elems(s) => z.znext[x] = zl.znext[x]
    BY <1>1, <2>1, removeIs
  <2>3. /\ Nil \notin Clients /\ s \in Seq(Clients) /\ n \in Nat /\ Distinct(s)
        /\ \A i \in 1..n : s[i] \in Clients
        /\ \A i \in 1..n : zl.znext[s[i]] = IF i = n THEN Nil ELSE s[i + 1]
    BY <1>1, ListFacts
  <2>4. /\ Len(t) = n - 1 /\ Elems(t) = Elems(s) \ {c}
        /\ k # n => t[n - 1] = s[n]
    BY <2>1, <2>3, DropFacts
  <2>5. /\ t \in Seq(Clients) /\ \A i, j \in 1..(n - 1) : t[i] = t[j] => i = j
        /\ t = <<>> <=> n = 1
    BY <2>2, <2>3, <2>4, ListFacts, SMTT(40) DEF Distinct
  <2> HIDE DEF z, t
  <2>6. \A i, j \in 1..n : s[i] = s[j] => i = j
    BY <2>3 DEF Distinct
  \* The new bottom is another member, and the last one if it is the footer.
  <2>7. n # 1 => \E m \in 1..n : /\ m # k /\ z.bottom = s[m]
                                 /\ attrs[s[m]] = "footer" => m = n
    <3> SUFFICES ASSUME n # 1
                 PROVE  \E m \in 1..n : /\ m # k /\ z.bottom = s[m]
                                        /\ attrs[s[m]] = "footer" => m = n
      OBVIOUS
    <3>1. CASE k = 1
      <4>1. 2 \in 1..n /\ 2 # k /\ z.bottom = s[2]
        BY <2>1, <2>2, <2>3, <3>1, SMTT(40)
      <4> QED
        BY <1>1, <4>1 DEF Rows
    <3>2. CASE k # 1 /\ c = zl.bottom
      <4>1. k - 1 \in 1..n /\ k - 1 # k /\ z.bottom = s[k - 1]
        BY <2>2, <2>3, <3>2
      <4> QED
        BY <1>1, <4>1 DEF Rows
    <3>3. CASE k # 1 /\ c # zl.bottom
      <4>1. z.bottom = zl.bottom
        BY <2>2, <3>3
      <4>2. s # <<>>
        BY <2>3
      <4>3. zl.bottom \in Elems(s)
        BY <1>1, <4>2 DEF BottomIn
      <4>4. PICK m \in 1..n : zl.bottom = s[m]
        BY <4>3 DEF Elems
      <4> QED
        BY <1>1, <2>1, <3>3, <4>1, <4>4 DEF Rows
    <3> QED
      BY <3>1, <3>2, <3>3
  <2>8. BottomIn(z, t)
    <3>1. CASE n = 1
      <4>1. k = 1 /\ z.bottom = Nil
        BY <2>1, <2>2, <2>3, <3>1
      <4> QED
        BY <2>5, <3>1, <4>1 DEF BottomIn
    <3>2. CASE n # 1
      <4>1. PICK m \in 1..n : m # k /\ z.bottom = s[m]
        BY <2>7, <3>2
      <4>2. s[m] # c /\ s[m] \in Elems(s) /\ s[m] # Nil
        BY <2>1, <2>3, <2>6, <4>1 DEF Elems
      <4> QED
        BY <2>4, <2>5, <3>2, <4>1, <4>2 DEF BottomIn
    <3> QED
      BY <3>1, <3>2
  <2>9. ASSUME NEW i \in 1..(n - 1), t[i] = z.bottom, attrs[t[i]] = "footer" PROVE i = n - 1
    <3>1. n # 1 /\ n - 1 \in 1..(n - 1)
      BY <2>3
    <3>2. PICK m \in 1..n : m # k /\ z.bottom = s[m] /\ (attrs[s[m]] = "footer" => m = n)
      BY <2>7, <3>1
    <3>3. t[i] = t[n - 1]
      BY <2>4, <2>9, <3>2
    <3> QED
      BY <2>5, <3>1, <3>3
  <2>10. FooterKnown(z, t)
    BY <2>4, <2>9 DEF FooterKnown
  <2> QED
    BY <1>1, <2>2, <2>4, <2>8, <2>10 DEF Packable, z
<1> QED
  BY <1>2, <1>3

\* The list with a new client at its end can be packed.
LEMMA PackableAdded ==
  ASSUME Listing, NEW c \in Clients, c \notin Listed(zl), life[c] # "left"
  PROVE  Packable(bottom(zl, c), Listed(zl) \cup {c})
<1> DEFINE s == Order(zl)
           n == Len(s)
           t == Append(s, c)
           z == bottom(zl, c)
<1>1. IsList(zl, s) /\ Listed(zl) = Elems(s) /\ BottomIn(zl, s) /\ zl.znext[c] = Nil
  BY OrderIs DEF Listing
<1>2. Nil \notin Clients /\ s \in Seq(Clients) /\ n \in Nat
  BY <1>1, ListFacts
<1>3. c # zl.bottom
  BY <1>1, <1>2 DEF BottomIn
<1>4. /\ IsList(z, t) /\ z.bottom = c
      /\ \A x \in Clients : x \notin Elems(s) => z.znext[x] = zl.znext[x]
  BY <1>1, <1>3, bottomNew
<1>5. t # <<>> /\ Len(t) = n + 1 /\ Elems(t) = Elems(s) \cup {c} /\ t[n + 1] = c
  BY <1>2, AppendFacts
<1> HIDE DEF t, z, s
<1>6. \A i, j \in 1..(n + 1) : t[i] = t[j] => i = j
  BY <1>4, <1>5, ListFacts DEF Distinct
<1>7. BottomIn(z, t)
  BY <1>2, <1>4, <1>5 DEF BottomIn
<1>8. FooterKnown(z, t)
  <2>1. n + 1 \in 1..(n + 1)
    BY <1>2
  <2> QED
    BY <1>4, <1>5, <1>6, <2>1 DEF FooterKnown
<1> QED
  BY <1>1, <1>4, <1>5, <1>7, <1>8 DEF Packable, z

\* What packing makes of such a list.
LEMMA Packed ==
  ASSUME NEW z, NEW D, Packable(z, D), OneEach(attrs)
  PROVE  /\ IsList(pack_windows(z), Order(pack_windows(z)))
         /\ BottomIn(pack_windows(z), Order(pack_windows(z)))
         /\ Rows(attrs, Order(pack_windows(z)))
         /\ Listed(pack_windows(z)) = D
         /\ \A x \in Clients : (x \notin Listed(zl) /\ x \notin D)
                                 => pack_windows(z).znext[x] = zl.znext[x]
<1>1. PICK s : /\ IsList(z, s) /\ Elems(s) = D /\ BottomIn(z, s) /\ FooterKnown(z, s)
               /\ \A x \in Clients : x \notin Listed(zl) => z.znext[x] = zl.znext[x]
  BY DEF Packable
<1>2. PICK t : /\ IsList(pack_windows(z), t) /\ Elems(t) = Elems(s)
               /\ BottomIn(pack_windows(z), t) /\ Rows(attrs, t)
               /\ \A x \in Clients : x \notin Elems(s) => pack_windows(z).znext[x] = z.znext[x]
  BY <1>1, PackIs
<1>3. Order(pack_windows(z)) = t /\ Listed(pack_windows(z)) = Elems(t)
  BY <1>2, OrderIs
<1> QED
  BY <1>1, <1>2, <1>3

\* setfocus leaves the focus where it is or moves it to new, and tells both.
LEMMA FocusMoves ==
  ASSUME NEW f \in [kbd : Refs, told : SUBSET Clients], f.told = {f.kbd} \ {Nil},
         NEW started, NEW new \in Refs
  PROVE  /\ setfocus(f, started, new) \in [kbd : Refs, told : SUBSET Clients]
         /\ setfocus(f, started, new).told = {setfocus(f, started, new).kbd} \ {Nil}
         /\ setfocus(f, started, new).kbd \in {f.kbd, new}
<1> DEFINE g == [kbd |-> new, told |-> (f.told \ {f.kbd}) \cup ({new} \ {Nil})]
<1>1. setfocus(f, started, new) = f \/ setfocus(f, started, new) = g
  BY DEF setfocus
<1>2. g.kbd = new /\ g.told = {new} \ {Nil} /\ g.told \subseteq Clients
  BY DEF Refs
<1>3. g \in [kbd : Refs, told : SUBSET Clients]
  BY <1>2
<1> HIDE DEF g
<1> QED
  BY <1>1, <1>2, <1>3

\* The order only depends on who is what among the members.
LEMMA RowsOf ==
  ASSUME NEW a, NEW b, NEW s, \A x \in Elems(s) : a[x] = b[x], Rows(a, s)
  PROVE  Rows(b, s)
  BY DEF Rows, Elems

----------------------------------------------------------------------------
(* The actions *)

\* What an action that does not pack leaves of the list.
LEMMA ListingKept ==
  ASSUME Listing, UNCHANGED <<zl, attrs>>, wins' \subseteq Listed(zl), Live \subseteq Live',
         \A c \in Clients : life'[c] # "left" => life[c] # "left"
  PROVE  Listing'
<1>1. Order(zl)' = Order(zl) /\ Listed(zl)' = Listed(zl)
  BY DEF Order, Listed
<1> QED
  BY <1>1 DEF Listing, IsList, BottomIn, Rows, OneEach

\* What an action that packs makes of it.
LEMMA ListingPacked ==
  ASSUME Listing, NEW z, NEW D, Packable(z, D), zl' = pack_windows(z),
         wins' \subseteq D, D \subseteq Listed(zl) \cup Live,
         \A c \in Clients : life'[c] # "left" /\ c \in Listed(zl) => c \in D,
         \A c \in Clients : life'[c] # "left" => life[c] # "left",
         \A c \in D : attrs'[c] = attrs[c],
         OneEach(attrs)', \A c \in Clients : attrs'[c] # "none" => c \in Live'
  PROVE  Listing' /\ Listed(zl') = D
<1>1. OneEach(attrs)
  BY DEF Listing
<1>2. /\ IsList(zl', Order(zl')) /\ BottomIn(zl', Order(zl')) /\ Rows(attrs, Order(zl'))
      /\ Listed(zl') = D
      /\ \A x \in Clients : (x \notin Listed(zl) /\ x \notin D) => zl'.znext[x] = zl.znext[x]
  BY <1>1, Packed
<1>3. Elems(Order(zl')) = D
  BY <1>2, OrderIs
<1>4. Rows(attrs', Order(zl'))
  BY <1>2, <1>3, RowsOf
<1>5. ASSUME NEW c \in Clients, life'[c] # "left", c \notin Listed(zl') PROVE zl'.znext[c] = Nil
  BY <1>2, <1>5 DEF Listing
<1> QED
  BY <1>2, <1>4, <1>5 DEF Listing

\* Nobody is there and the list is empty.
LEMMA InitIInv ==
  ASSUME Init
  PROVE  IInv
<1>1. TypeOK
  BY DEF Init, TypeOK, EmptyZlist, Zlists, Refs
<1>2. zl \in Zlists /\ zl.zorder = Nil /\ zl.bottom = Nil /\ \A c \in Clients : zl.znext[c] = Nil
  BY DEF Init, EmptyZlist, Zlists, Refs
<1>3. IsList(zl, <<>>)
  BY <1>2 DEF IsList, IsChain, Distinct
<1>4. Order(zl) = <<>> /\ Listed(zl) = {}
  <2>1. Elems(<<>>) = {}
    BY DEF Elems
  <2> QED
    BY <1>3, <2>1, OrderIs
<1>5. Listing
  <2>1. OneEach(attrs) /\ wins = {} /\ \A c \in Clients : attrs[c] = "none"
    BY DEF Init, OneEach
  <2>2. BottomIn(zl, <<>>) /\ Rows(attrs, <<>>)
    BY <1>2 DEF BottomIn, Rows
  <2> QED
    BY <1>2, <1>3, <1>4, <2>1, <2>2 DEF Listing
<1>6. TargetsAlive /\ FocusToldRight
  BY <1>4 DEF Init, TargetsAlive, FocusToldRight
<1> QED
  BY <1>1, <1>5, <1>6 DEF IInv

\* A client that joins is not listed and may get control.
LEMMA JoinIInv ==
  ASSUME IInv, NEW c \in Clients, Join(c)
  PROVE  IInv'
<1>1. TypeOK'
  <2>1. life' \in [Clients -> {"new", "joined", "left"}]
    BY DEF IInv, TypeOK, Join
  <2>2. control' \in [controller : Refs, allow : BOOLEAN, flag : SUBSET Clients, started : SUBSET Clients]
    BY DEF IInv, TypeOK, Join, Refs
  <2> QED
    BY <2>1, <2>2 DEF IInv, TypeOK, Join
<1>2. /\ Live' = Live \cup {c} /\ \A d \in Clients : life'[d] # "left" => life[d] # "left"
  BY DEF IInv, TypeOK, Join, Live
<1>3. Listing'
  BY <1>2, ListingKept DEF IInv, Join, Listing
<1>4. control'.controller \in {control.controller, c}
  BY DEF IInv, TypeOK, Join
<1>5. Listed(zl)' = Listed(zl) /\ focus' = focus /\ ptrfocus' = ptrfocus
  BY DEF Join, Listed, Order
<1>6. TargetsAlive'
  BY <1>2, <1>4, <1>5 DEF IInv, TargetsAlive
<1> QED
  BY <1>1, <1>3, <1>5, <1>6 DEF IInv, FocusToldRight

\* A client that leaves is forgotten in the list and by every reference; the
\* focus goes to a client that is still listed.
LEMMA LeaveIInv ==
  ASSUME IInv, NEW c \in Clients, Leave(c)
  PROVE  IInv'
<1> DEFINE D == Listed(zl) \ {c}
           f == [kbd |-> IF c = focus.kbd THEN Nil ELSE focus.kbd, told |-> focus.told \ {c}]
           new == FirstListed(zl', kbdstarted)
<1>1. /\ c \in Live /\ Nil \notin Clients
      /\ life' = [life EXCEPT ![c] = "left"]
      /\ zl' = pack_windows(remove(zl, c))
      /\ wins' = wins \ {c} /\ attrs' = [attrs EXCEPT ![c] = "none"] /\ kbdstarted' = kbdstarted \ {c}
      /\ ptrfocus' = (IF c = ptrfocus THEN Nil ELSE ptrfocus)
      /\ focus' = setfocus(f, kbdstarted, new)
      /\ control' = IF c = control.controller
                    THEN [control EXCEPT !.controller = Nil, !.flag = @ \ {c}, !.started = @ \ {c}]
                    ELSE control
  BY ClientsAssumption DEF Leave
<1>2. Live' = Live \ {c} /\ life' \in [Clients -> {"new", "joined", "left"}]
      /\ (\A d \in Clients : life'[d] # "left" => life[d] # "left" /\ d # c)
  BY <1>1 DEF IInv, TypeOK, Live
<1>3. attrs' \in [Clients -> {"none", "header", "footer"}]
      /\ \A d \in Clients : attrs'[d] = IF d = c THEN "none" ELSE attrs[d]
  BY <1>1 DEF IInv, TypeOK
<1>4. Packable(remove(zl, c), D)
  BY PackableRemoved DEF IInv
<1>5. Listed(zl) \subseteq Live
  BY DEF IInv, TargetsAlive
<1>6. Live \subseteq Clients
  BY DEF Live
<1>7. Listing' /\ Listed(zl') = D
  <2>1. OneEach(attrs)'
    BY <1>3 DEF IInv, Listing, OneEach
  <2>2. \A d \in Clients : attrs'[d] # "none" => d \in Live'
    BY <1>2, <1>3 DEF IInv, Listing
  <2>3. wins' \subseteq D
    BY <1>1 DEF IInv, Listing
  <2>4. \A d \in D : attrs'[d] = attrs[d]
    BY <1>3, <1>5, <1>6
  <2>5. D \subseteq Listed(zl) \cup Live
    OBVIOUS
  <2>6. \A d \in Clients : life'[d] # "left" /\ d \in Listed(zl) => d \in D
    BY <1>2
  <2>7. Listing /\ \A d \in Clients : life'[d] # "left" => life[d] # "left"
    BY <1>2 DEF IInv
  <2> HIDE DEF D
  <2> QED
    BY <1>1, <1>4, <2>1, <2>2, <2>3, <2>4, <2>5, <2>6, <2>7, ListingPacked
<1>8. new = Nil \/ new \in D
  <2>1. IsList(zl', Order(zl')) /\ Elems(Order(zl')) = D
    <3>1. IsList(zl', Order(zl'))
      BY <1>7 DEF Listing
    <3> QED
      BY <1>7, <3>1, OrderIs
  <2> HIDE DEF D
  <2> QED
    BY <2>1, FirstIs
<1>9. D \subseteq Live'
  BY <1>2, <1>5
<1>10. new \in Refs
  BY <1>6, <1>8, <1>5 DEF Refs
<1> HIDE DEF new
<1>11. f \in [kbd : Refs, told : SUBSET Clients] /\ f.told = {f.kbd} \ {Nil}
       /\ f.kbd \in (Live \ {c}) \cup {Nil}
  <2>1. focus.kbd \in Refs /\ focus.told \subseteq Clients /\ focus.told = {focus.kbd} \ {Nil}
        /\ focus.kbd \in Live \cup {Nil}
    BY DEF IInv, TypeOK, FocusToldRight, TargetsAlive
  <2>2. f.told = {f.kbd} \ {Nil}
    BY <1>1, <1>6, <2>1
  <2> QED
    BY <2>1, <2>2 DEF Refs
<1>12. focus' \in [kbd : Refs, told : SUBSET Clients] /\ FocusToldRight' /\ focus'.kbd \in {f.kbd, new}
  <2> HIDE DEF f
  <2> QED
    BY <1>1, <1>10, <1>11, FocusMoves DEF FocusToldRight
<1>13. control' \in [controller : Refs, allow : BOOLEAN, flag : SUBSET Clients, started : SUBSET Clients]
       /\ control'.controller = IF c = control.controller THEN Nil ELSE control.controller
  <2>1. control \in [controller : Refs, allow : BOOLEAN, flag : SUBSET Clients, started : SUBSET Clients]
    BY DEF IInv, TypeOK
  <2> QED
    BY <1>1, <2>1 DEF Refs
<1>14. TypeOK'
  <2>1. zl' \in Zlists
    BY <1>7 DEF Listing, IsList
  <2>2. ptrfocus' \in Refs /\ wins' \subseteq Clients /\ kbdstarted' \subseteq Clients
    BY <1>1 DEF IInv, TypeOK, Refs
  <2> QED
    BY <1>2, <1>3, <1>12, <1>13, <2>1, <2>2 DEF TypeOK
<1>15. TargetsAlive'
  <2>1. ptrfocus' \in Live' \cup {Nil} /\ control'.controller \in Live' \cup {Nil}
    BY <1>1, <1>2, <1>13 DEF IInv, TargetsAlive
  <2>2. focus'.kbd \in Live' \cup {Nil}
    <3> HIDE DEF f, D
    <3> QED
      BY <1>2, <1>8, <1>9, <1>11, <1>12
  <2> QED
    BY <1>7, <1>9, <2>1, <2>2 DEF TargetsAlive
<1> QED
  BY <1>7, <1>12, <1>14, <1>15 DEF IInv

\* A wintype is announced before the client is listed and nobody else has it.
LEMMA WintypeIInv ==
  ASSUME IInv, NEW c \in Clients, NEW type \in {"header", "footer"}, Wintype(c, type)
  PROVE  IInv'
<1>1. /\ c \in Live /\ c \notin Listed(zl) /\ \A d \in Live : attrs[d] # type
      /\ attrs' = [attrs EXCEPT ![c] = type]
      /\ UNCHANGED <<life, zl, wins, kbdstarted, focus, ptrfocus, control>>
  BY DEF Wintype
<1>2. attrs' \in [Clients -> {"none", "header", "footer"}]
      /\ \A d \in Clients : attrs'[d] = IF d = c THEN type ELSE attrs[d]
  BY <1>1 DEF IInv, TypeOK
<1>3. Order(zl)' = Order(zl) /\ Listed(zl)' = Listed(zl) /\ Live' = Live
  BY <1>1 DEF Order, Listed, Live
<1>4. TypeOK'
  BY <1>1, <1>2 DEF IInv, TypeOK
<1>5. Rows(attrs', Order(zl))
  <2>1. Elems(Order(zl)) = Listed(zl) /\ \A x \in Elems(Order(zl)) : x \in Clients
    <3>1. IsList(zl, Order(zl))
      BY DEF IInv, Listing
    <3>2. \A i \in 1..Len(Order(zl)) : Order(zl)[i] \in Clients
      BY <3>1, ListFacts
    <3> QED
      BY <3>1, <3>2, OrderIs DEF Elems
  <2>2. \A x \in Elems(Order(zl)) : attrs[x] = attrs'[x]
    BY <1>1, <1>2, <2>1
  <2>3. Rows(attrs, Order(zl))
    BY DEF IInv, Listing
  <2> QED
    BY <2>2, <2>3, RowsOf
<1>6. ASSUME NEW d \in Clients, NEW e \in Clients, attrs'[d] = attrs'[e], attrs'[d] # "none" PROVE d = e
  <2>1. \A x \in Clients : attrs[x] # type
    BY <1>1 DEF IInv, Listing
  <2> QED
    BY <1>2, <1>6, <2>1 DEF IInv, Listing, OneEach
<1>7. \A d \in Clients : attrs'[d] # "none" => d \in Live
  BY <1>1, <1>2 DEF IInv, Listing
<1>8. Listing'
  <2>1. OneEach(attrs)'
    BY <1>6 DEF OneEach
  <2>2. IsList(zl, Order(zl))' /\ BottomIn(zl, Order(zl))'
    BY <1>1, <1>3 DEF IInv, Listing, IsList, BottomIn
  <2> QED
    BY <1>1, <1>3, <1>5, <1>7, <2>1, <2>2 DEF IInv, Listing
<1>9. TargetsAlive' /\ FocusToldRight'
  BY <1>1, <1>3 DEF IInv, TargetsAlive, FocusToldRight
<1> QED
  BY <1>4, <1>8, <1>9 DEF IInv

\* Where only the references and flags change, the list is as it was.
LEMMA FrameIInv ==
  ASSUME IInv, UNCHANGED <<life, zl, attrs>>, wins' \subseteq Listed(zl), TypeOK', FocusToldRight',
         {focus'.kbd, ptrfocus', control'.controller} \ {Nil} \subseteq Live
  PROVE  IInv'
<1>1. Live' = Live /\ Listed(zl)' = Listed(zl)
  BY DEF Live, Listed, Order
<1>2. Listing'
  BY <1>1, ListingKept DEF IInv
<1>3. TargetsAlive'
  BY <1>1 DEF IInv, TargetsAlive
<1> QED
  BY <1>2, <1>3 DEF IInv

\* What the invariant says of the references.
LEMMA References ==
  ASSUME IInv
  PROVE  /\ focus \in [kbd : Refs, told : SUBSET Clients] /\ focus.told = {focus.kbd} \ {Nil}
         /\ {focus.kbd, ptrfocus, control.controller} \ {Nil} \subseteq Live
         /\ wins \subseteq Listed(zl) /\ Listed(zl) \subseteq Live /\ Live \subseteq Clients
         /\ Nil \notin Clients /\ Nil \in Refs /\ Clients \subseteq Refs
  BY ClientsAssumption DEF IInv, TypeOK, Listing, TargetsAlive, FocusToldRight, Live, Refs

\* The focus after an action that may give it to a client that is there or to
\* nobody.
LEMMA FocusIInv ==
  ASSUME IInv, UNCHANGED <<life, zl, attrs, control>>, wins' \subseteq Listed(zl), wins' \subseteq Clients,
         kbdstarted' \subseteq Clients, ptrfocus' \in Live \cup {Nil},
         NEW started, NEW new \in Live \cup {Nil},
         focus' \in {focus, setfocus(focus, started, new)}
  PROVE  IInv'
<1>1. /\ focus' \in [kbd : Refs, told : SUBSET Clients] /\ focus'.told = {focus'.kbd} \ {Nil}
      /\ focus'.kbd \in {focus.kbd, new}
  <2>1. new \in Refs
    BY References
  <2> QED
    BY <2>1, References, FocusMoves
<1>2. TypeOK'
  <2>1. ptrfocus' \in Refs
    BY References
  <2> QED
    BY <1>1, <2>1 DEF IInv, TypeOK
<1>3. {focus'.kbd, ptrfocus', control'.controller} \ {Nil} \subseteq Live
  BY <1>1, References
<1>4. FocusToldRight'
  BY <1>1 DEF FocusToldRight
<1> QED
  BY <1>2, <1>3, <1>4, FrameIInv

\* Control goes to nobody or stays.
LEMMA ControlIInv ==
  ASSUME IInv, NEW c \in Clients, StartControl(c) \/ EndControl(c)
  PROVE  IInv'
<1>1. control \in [controller : Refs, allow : BOOLEAN, flag : SUBSET Clients, started : SUBSET Clients]
  BY DEF IInv, TypeOK
<1>2. control'.controller \in {control.controller, Nil}
      /\ control' \in [controller : Refs, allow : BOOLEAN, flag : SUBSET Clients, started : SUBSET Clients]
  <2>1. CASE StartControl(c)
    BY <1>1, <2>1 DEF StartControl
  <2>2. CASE EndControl(c)
    BY <1>1, <2>2 DEF EndControl, Refs
  <2> QED
    BY <2>1, <2>2
<1>3. UNCHANGED <<life, zl, wins, attrs, kbdstarted, focus, ptrfocus>>
  BY DEF StartControl, EndControl
<1>4. TypeOK' /\ FocusToldRight'
  BY <1>2, <1>3 DEF IInv, TypeOK, FocusToldRight
<1>5. {focus'.kbd, ptrfocus', control'.controller} \ {Nil} \subseteq Live
  BY <1>2, <1>3, References
<1> QED
  BY <1>3, <1>4, <1>5, References, FrameIInv

\* reshape lists a new client and packs.
LEMMA reshapeIInv ==
  ASSUME IInv, NEW c \in Clients, NEW samesize \in BOOLEAN, reshape(c, samesize)
  PROVE  IInv'
<1> DEFINE z == IF c \in Listed(zl) THEN zl ELSE bottom(zl, c)
<1>1. /\ c \in Live /\ (samesize => c \in wins) /\ wins' = wins \cup {c}
      /\ zl' = (IF samesize THEN z ELSE pack_windows(z))
      /\ UNCHANGED <<life, attrs, kbdstarted, focus, ptrfocus, control>>
  BY DEF reshape
<1>2. life[c] = "joined" /\ Live' = Live
  BY <1>1 DEF Live
<1>3. CASE samesize
  <2>1. c \in wins
    BY <1>1, <1>3
  <2>2. UNCHANGED vars
    BY <1>1, <1>3, <2>1, References DEF vars
  <2>3. TypeOK' /\ FocusToldRight'
    BY <2>2 DEF IInv, TypeOK, FocusToldRight, vars
  <2> QED
    BY <2>2, <2>3, References, FrameIInv DEF vars
<1>4. CASE ~samesize
  <2> DEFINE D == Listed(zl) \cup {c}
  <2>1. Packable(z, D)
    <3>1. Listing
      BY DEF IInv
    <3>2. CASE c \in Listed(zl)
      <4>1. D = Listed(zl) /\ z = zl
        BY <3>2
      <4> QED
        BY <3>1, <4>1, PackableNow
    <3>3. CASE c \notin Listed(zl)
      BY <1>2, <3>1, <3>3, PackableAdded
    <3> QED
      BY <3>2, <3>3
  <2>2. zl' = pack_windows(z)
    BY <1>1, <1>4
  <2>3. Listing' /\ Listed(zl') = D
    <3>1. wins' \subseteq D /\ D \subseteq Listed(zl) \cup Live
      BY <1>1, References
    <3>2. OneEach(attrs)'
      BY <1>1 DEF IInv, Listing, OneEach
    <3>3. \A d \in Clients : attrs'[d] # "none" => d \in Live'
      BY <1>1, <1>2 DEF IInv, Listing
    <3>4. /\ \A d \in Clients : life'[d] # "left" /\ d \in Listed(zl) => d \in D
          /\ \A d \in Clients : life'[d] # "left" => life[d] # "left"
          /\ \A d \in D : attrs'[d] = attrs[d]
          /\ Listing
      BY <1>1 DEF IInv
    <3> HIDE DEF D, z
    <3> QED
      BY <2>1, <2>2, <3>1, <3>2, <3>3, <3>4, ListingPacked
  <2>4. TypeOK'
    <3>1. zl' \in Zlists
      BY <2>3 DEF Listing, IsList
    <3> QED
      BY <1>1, <3>1 DEF IInv, TypeOK
  <2>5. TargetsAlive'
    <3>1. D \subseteq Live'
      BY <1>1, <1>2, References
    <3> QED
      BY <1>1, <1>2, <2>3, <3>1, References DEF TargetsAlive
  <2>6. FocusToldRight'
    BY <1>1 DEF IInv, FocusToldRight
  <2> QED
    BY <2>3, <2>4, <2>5, <2>6 DEF IInv
<1> QED
  BY <1>3, <1>4

\* The manager's own reshape packs.
LEMMA reshapedIInv ==
  ASSUME IInv, reshaped
  PROVE  IInv'
<1>1. /\ zl' = pack_windows(zl)
      /\ UNCHANGED <<life, wins, attrs, kbdstarted, focus, ptrfocus, control>>
  BY DEF reshaped
<1>2. Live' = Live /\ Listing
  BY <1>1 DEF Live, IInv
<1>3. Packable(zl, Listed(zl))
  BY <1>2, PackableNow
<1>4. Listing' /\ Listed(zl') = Listed(zl)
  <2>1. wins' \subseteq Listed(zl) /\ Listed(zl) \subseteq Listed(zl) \cup Live
    BY <1>1, References
  <2>2. OneEach(attrs)'
    BY <1>1 DEF IInv, Listing, OneEach
  <2>3. \A d \in Clients : attrs'[d] # "none" => d \in Live'
    BY <1>1, <1>2 DEF Listing
  <2> QED
    BY <1>1, <1>2, <1>3, <2>1, <2>2, <2>3, ListingPacked
<1>5. TypeOK'
  <2>1. zl' \in Zlists
    BY <1>4 DEF Listing, IsList
  <2> QED
    BY <1>1, <2>1 DEF IInv, TypeOK
<1>6. TargetsAlive'
  BY <1>1, <1>2, <1>4, References DEF TargetsAlive
<1>7. FocusToldRight'
  BY <1>1 DEF IInv, FocusToldRight
<1> QED
  BY <1>4, <1>5, <1>6, <1>7 DEF IInv

\* Every pass of the main loop keeps the invariant.
LEMMA NextIInv ==
  ASSUME IInv, [Next]_vars
  PROVE  IInv'
<1>1. ASSUME NEW c \in Clients, reshape_refused(c) PROVE IInv'
  <2>1. /\ wins' = wins \cup {c} /\ c \in Listed(zl)
        /\ UNCHANGED <<life, zl, attrs, kbdstarted, focus, ptrfocus, control>>
    BY <1>1 DEF reshape_refused
  <2>2. TypeOK' /\ FocusToldRight'
    BY <2>1 DEF IInv, TypeOK, FocusToldRight
  <2>3. wins' \subseteq Listed(zl) /\ {focus'.kbd, ptrfocus', control'.controller} \ {Nil} \subseteq Live
    BY <2>1, References
  <2> QED
    BY <2>1, <2>2, <2>3, FrameIInv
<1>2. ASSUME NEW c \in Clients, Delete(c) PROVE IInv'
  <2>1. /\ wins' = wins \ {c} /\ focus' \in {focus, setfocus(focus, kbdstarted, Nil)}
        /\ UNCHANGED <<life, zl, attrs, kbdstarted, ptrfocus, control>>
    BY <1>2 DEF Delete
  <2>2. wins' \subseteq Listed(zl) /\ wins' \subseteq Clients /\ ptrfocus' \in Live \cup {Nil}
        /\ kbdstarted' \subseteq Clients
    BY <2>1, References DEF IInv, TypeOK
  <2>3. Nil \in Live \cup {Nil}
    OBVIOUS
  <2> QED
    BY <2>1, <2>2, <2>3, FocusIInv
<1>3. ASSUME NEW c \in Clients, StartKbd(c) PROVE IInv'
  <2>1. /\ kbdstarted' = kbdstarted \cup {c} /\ focus' \in {focus, setfocus(focus, kbdstarted', c)}
        /\ c \in Live \cup {Nil} /\ UNCHANGED <<life, zl, wins, attrs, ptrfocus, control>>
    BY <1>3 DEF StartKbd
  <2>2. wins' \subseteq Listed(zl) /\ wins' \subseteq Clients /\ ptrfocus' \in Live \cup {Nil}
        /\ kbdstarted' \subseteq Clients
    BY <2>1, References DEF IInv, TypeOK
  <2> QED
    BY <2>1, <2>2, FocusIInv
<1>4. ASSUME NEW c \in Clients, NEW take \in BOOLEAN, KbdFocus(c, take) PROVE IInv'
  <2>1. /\ c \in Live /\ UNCHANGED <<life, zl, wins, attrs, kbdstarted, ptrfocus, control>>
        /\ \/ focus' \in {focus, setfocus(focus, kbdstarted, c)}
           \/ focus' \in {focus, setfocus(focus, kbdstarted, Nil)}
    BY <1>4 DEF KbdFocus
  <2>2. wins' \subseteq Listed(zl) /\ wins' \subseteq Clients /\ ptrfocus' \in Live \cup {Nil}
        /\ kbdstarted' \subseteq Clients
    BY <2>1, References DEF IInv, TypeOK
  <2>3. Nil \in Live \cup {Nil} /\ c \in Live \cup {Nil}
    BY <2>1
  <2> QED
    BY <2>1, <2>2, <2>3, FocusIInv
<1>5. ASSUME NEW c \in Refs, NEW pressed \in BOOLEAN, PointerEvent(c, pressed) PROVE IInv'
  <2>1. /\ c = Nil \/ c \in Listed(zl)
        /\ ptrfocus' \in {ptrfocus, c} /\ focus' \in {focus, setfocus(focus, kbdstarted, c)}
        /\ UNCHANGED <<life, zl, wins, attrs, kbdstarted, control>>
    BY <1>5 DEF PointerEvent
  <2>2. c \in Live \cup {Nil} /\ wins' \subseteq Listed(zl) /\ wins' \subseteq Clients
        /\ ptrfocus' \in Live \cup {Nil} /\ kbdstarted' \subseteq Clients
    BY <2>1, References DEF IInv, TypeOK
  <2> QED
    BY <2>1, <2>2, FocusIInv
<1>6. ASSUME UNCHANGED vars PROVE IInv'
  <2>1. TypeOK' /\ FocusToldRight'
    BY <1>6 DEF IInv, TypeOK, FocusToldRight, vars
  <2> QED
    BY <1>6, <2>1, References, FrameIInv DEF vars
<1>7. Interactive \subseteq Clients
  BY InteractiveAssumption
<1> QED
  BY <1>1, <1>2, <1>3, <1>4, <1>5, <1>6, <1>7, JoinIInv, LeaveIInv, WintypeIInv, ControlIInv,
     reshapeIInv, reshapedIInv DEF Next

----------------------------------------------------------------------------
(* Theorems *)

\* The invariant holds in every reachable state.
THEOREM Invariance == Spec => []IInv
<1>1. Init => IInv
  BY InitIInv
<1>2. IInv /\ [Next]_vars => IInv'
  BY NextIInv
<1> QED
  BY <1>1, <1>2, PTL DEF Spec

\* The manager only ever sends to clients that are there: the listed ones, the
\* owners of keyboard and pointer and the controller have not left.
THEOREM OnlyTheLiving == Spec => []TargetsAlive
<1>1. IInv => TargetsAlive
  BY DEF IInv
<1> QED
  BY <1>1, Invariance, PTL

\* Exactly the client that setfocus gave the keyboard to was told so last.
THEOREM FocusIsTold == Spec => []FocusToldRight
<1>1. IInv => FocusToldRight
  BY DEF IInv
<1> QED
  BY <1>1, Invariance, PTL

\* After any number of top, bottom and remove the links of xwmsrv.b are a list
\* that holds every client with a window, and bottom is a member of it.
THEOREM LinksAreAList == Spec => []ZorderIsList
<1>1. ASSUME IInv PROVE ZorderIsList
  <2>1. IsList(zl, Order(zl)) /\ BottomIn(zl, Order(zl)) /\ wins \subseteq Listed(zl) /\ TypeOK
    BY <1>1 DEF IInv, Listing
  <2>2. Ends(zl) /\ Listed(zl) = Elems(Order(zl))
    BY <2>1, OrderIs
  <2>3. zl.zorder = Nil <=> Order(zl) = <<>>
    <3>1. /\ Nil \notin Clients /\ Len(Order(zl)) \in Nat
          /\ \A i \in 1..Len(Order(zl)) : Order(zl)[i] \in Clients
          /\ (Order(zl) = <<>> <=> Len(Order(zl)) = 0)
          /\ zl.zorder = IF Order(zl) = <<>> THEN Nil ELSE Order(zl)[1]
      BY <2>1, ListFacts
    <3> QED
      BY <3>1
  <2> QED
    BY <2>1, <2>2, <2>3 DEF ZorderIsList, BottomIn
<1> QED
  BY <1>1, Invariance, PTL

\* pack_windows keeps the header on top and the footer at the bottom after
\* every event, although bottom may be stale when Client.bottom trusts it.
THEOREM RowsStayInOrder == Spec => []HeaderFirstFooterLast
<1>1. ASSUME IInv PROVE HeaderFirstFooterLast
  <2> DEFINE s == Order(zl)
  <2>1. \A i \in 1..Len(s) : /\ attrs[s[i]] = "header" => i = 1
                             /\ attrs[s[i]] = "footer" => i = Len(s)
    BY <1>1 DEF IInv, Listing, Rows
  <2> HIDE DEF s
  <2>2. /\ (\E i \in 1..Len(s) : attrs[s[i]] = "header") => attrs[s[1]] = "header"
        /\ (\E i \in 1..Len(s) : attrs[s[i]] = "footer") => attrs[Last(s)] = "footer"
    BY <2>1 DEF Last
  <2> QED
    BY <2>2 DEF HeaderFirstFooterLast, s
<1> QED
  BY <1>1, Invariance, PTL
=============================================================================
