--------------------------- MODULE WmServer_proofs ---------------------------
(***************************************************************************)
(* Proofs about WmServer for any set of clients and of fids, any buffer and *)
(* growth of the table, and with clients that die early.                    *)
(***************************************************************************)
EXTENDS WmServer, WellFoundedInduction, TLAPS

Minders == {"none", "reply", "run", "exited"}

\* The state but the table and the ids.
ControlType ==
    /\ fid \in [Clients -> Fids \cup {Nil}]
    /\ proc \in [Clients -> ClientStates]
    /\ rec \in [Clients -> Refs]
    /\ wm \in [at : {"alt", "join", "spawn", "req", "leave"}, who : Refs, writer : Refs]
    /\ mgr \in [at : {"alt", "greet", "request", "image", "leave", "broken"},
                who : Refs, writer : Refs]
    /\ minder \in [Clients -> Minders]
    /\ members \subseteq Clients /\ late \subseteq Clients /\ lost \subseteq Clients
    /\ wm = Alt \/ wm.who \in Clients
    /\ mgr = Alt \/ mgr.who \in Clients
    /\ wm.at \in {"join", "spawn", "leave"} => wm.writer = Nil
    /\ mgr.at \in {"greet", "leave"} => mgr.writer = Nil
    /\ \A c \in Clients : proc[c] = "asking" => rec[c] \in Clients

\* What the channel holds.
ChannelType ==
    /\ reads \subseteq Clients
    /\ writes \in Seq(Messages)
    /\ blocked \in Seq(Clients)

\* Why MindersMatchMembers is kept: who is joining is no member and was never
\* started, the manager waits in greet while a childminder is being started,
\* and a leaver is no member any more.
MInv ==
    /\ ControlType
    /\ MindersMatchMembers
    /\ wm.at = "join" => minder[wm.who] = "none" /\ wm.who \notin members
    /\ wm.at = "spawn" => /\ minder[wm.who] = "none"
                          /\ wm.who \in members
                          /\ mgr = At("greet", wm.who, Nil)
    /\ mgr.at \in {"leave", "broken"} => mgr.who \notin members

USE DEF At, Alt

\* The started server satisfies the control invariant.
LEMMA InitMInv == Init => MInv /\ ChannelType
BY ConstantsAssumption DEF Init, MInv, ControlType, ChannelType, MindersMatchMembers, Listening,
     ClientStates, Minders, Refs

----------------------------------------------------------------------------
(* findfid *)

\* A set of numbers that is not empty has a least one.
LEMMA Least ==
  ASSUME NEW S \in SUBSET Nat, S # {}
  PROVE  \E i \in S : \A j \in S : i <= j
<1> DEFINE R == OpToRel(<, Nat)
<1>1. IsWellFoundedOn(R, Nat)
  BY NatLessThanWellFounded, Zenon
<1>2. \E i \in S : \A j \in S : <<j, i>> \notin R
  <2> HIDE DEF R
  <2> QED
    BY <1>1, WFMin
<1>3. PICK i \in S : \A j \in S : <<j, i>> \notin R
  BY <1>2, Zenon
<1>4. ASSUME NEW a \in Nat, NEW b \in Nat, a < b PROVE <<a, b>> \in R
  BY <1>4 DEF OpToRel
<1> HIDE DEF R
<1>5. ASSUME NEW j \in S PROVE i <= j
  <2>1. i \in Nat /\ j \in Nat
    OBVIOUS
  <2>2. ~(j < i)
    BY <1>3, <1>4, <2>1
  <2> QED
    BY <2>1, <2>2
<1> QED
  BY <1>5

\* findfid returns a client of the table with the fid, or nil if there is none.
LEMMA Findfid ==
  ASSUME clients \in Seq(Refs), NEW f
  PROVE  \/ /\ findfid(f) = Nil
            /\ \A c \in Clients : Registered(c) => fid[c] # f
         \/ findfid(f) \in Clients /\ Registered(findfid(f)) /\ fid[findfid(f)] = f
<1>1. CASE ~\E c \in Clients : Registered(c) /\ fid[c] = f
  <2>1. findfid(f) = Nil
    BY <1>1 DEF findfid
  <2> QED
    BY <1>1, <2>1
<1>2. CASE \E c \in Clients : Registered(c) /\ fid[c] = f
  <2> DEFINE S == {i \in DOMAIN clients : clients[i] # Nil /\ fid[clients[i]] = f}
             First(i) == /\ clients[i] # Nil /\ fid[clients[i]] = f
                         /\ \A j \in 1..(i - 1) : clients[j] # Nil => fid[clients[j]] # f
             first == CHOOSE i \in DOMAIN clients : First(i)
  <2>1. PICK c \in Clients : Registered(c) /\ fid[c] = f
    BY <1>2
  <2>2. PICK k \in DOMAIN clients : clients[k] = c
    BY <2>1 DEF Registered
  <2>3. S \subseteq Nat
    OBVIOUS
  <2>4. S # {}
    BY <2>1, <2>2, ConstantsAssumption
  <2>5. PICK i \in S : \A j \in S : i <= j
    BY <2>3, <2>4, Least
  <2>6. i \in DOMAIN clients /\ First(i)
    <3>1. i \in 1..Len(clients) /\ clients[i] # Nil /\ fid[clients[i]] = f
      BY <2>5
    <3>2. ASSUME NEW j \in 1..(i - 1), clients[j] # Nil PROVE fid[clients[j]] # f
      <4>1. j \in 1..Len(clients) /\ ~(i <= j)
        BY <3>1, <3>2
      <4>2. j \notin S
        BY <2>5, <4>1
      <4> QED
        BY <3>2, <4>1, <4>2
    <3> QED
      BY <3>1, <3>2
  <2>7. first \in DOMAIN clients /\ First(first)
    <3> HIDE DEF First
    <3> QED
      BY <2>6
  <2>8. findfid(f) = clients[first]
    BY <1>2, Zenon DEF findfid
  <2> HIDE DEF first
  <2>9. clients[first] \in Clients /\ fid[clients[first]] = f
    BY <2>7 DEF Refs
  <2> QED
    BY <2>7, <2>8, <2>9 DEF Registered
<1> QED
  BY <1>1, <1>2

----------------------------------------------------------------------------
(* Members and childminders *)

\* Every step of the server and of the childminders keeps the control invariant.
LEMMA NextMInv ==
  MInv /\ ChannelType /\ clients \in Seq(Refs) /\ [Next]_vars => MInv'
<1> SUFFICES ASSUME MInv, ChannelType, clients \in Seq(Refs), [Next]_vars PROVE MInv'
  OBVIOUS
<1> USE ConstantsAssumption DEF MInv, ControlType, MindersMatchMembers, Listening,
          ClientStates, Minders, Refs
<1>1. ASSUME NEW c \in Clients, NEW f \in Fids, Connect(c, f) PROVE MInv'
  BY <1>1 DEF Connect, history
<1>2. ASSUME NEW c \in Clients, ReadToken(c) \/ WriteRequest(c) PROVE MInv'
  <2>1. \E l \in {"reading", "writing"} : proc' = [proc EXCEPT ![c] = l]
    BY <1>2 DEF ReadToken, WriteRequest
  <2>2. UNCHANGED <<fid, rec, wm, mgr, minder, members, late, lost>>
    BY <1>2 DEF ReadToken, WriteRequest, history
  <2> QED
    BY <2>1, <2>2
<1>3. ASSUME NEW c \in Clients, Reply(c) PROVE MInv'
  <2>1. PICK r \in Clients : r = rec[c]
    BY <1>3 DEF Reply
  <2>2. /\ minder[r] = "reply" /\ minder' = [minder EXCEPT ![r] = "run"]
        /\ proc' = [proc EXCEPT ![c] = "running"]
        /\ UNCHANGED <<fid, rec, wm, mgr, members, late, lost>>
    BY <1>3, <2>1 DEF Reply, history
  <2> QED
    BY <2>2
<1>4. ASSUME NEW c \in Clients, Die(c) PROVE MInv'
  BY <1>4 DEF Die, history
<1>5. ASSUME NEW c \in Clients, Close(c) PROVE MInv'
  <2>1. lost' \subseteq Clients
    BY <1>5 DEF Close
  <2>2. proc' = [proc EXCEPT ![c] = "gone"]
        /\ UNCHANGED <<fid, rec, wm, mgr, minder, members, late>>
    BY <1>5 DEF Close
  <2> QED
    BY <2>1, <2>2
<1>6. ASSUME NEW c \in Clients, Read(c) PROVE MInv'
  <2>1. lost' \subseteq Clients /\ late' \subseteq Clients
    BY <1>6 DEF Read, table
  <2>2. \E l \in {"token", proc[c]} : proc' = [proc EXCEPT ![c] = l]
    BY <1>6 DEF Read
  <2>3. UNCHANGED <<fid, rec, wm, mgr, minder, members>>
    BY <1>6 DEF Read
  <2> QED
    BY <2>1, <2>2, <2>3
<1>7. ASSUME NEW c \in Clients, Wmreq(c) PROVE MInv'
  <2>0. UNCHANGED <<fid, mgr, minder, members, late, lost>> /\ wm = Alt
    BY <1>7 DEF Wmreq, history
  <2>1. CASE findfid(fid[c]) = Nil \/ minder[findfid(fid[c])] # "none"
    <3>1. proc' = [proc EXCEPT ![c] = "refused"] /\ UNCHANGED <<rec, wm>>
      BY <1>7, <2>1 DEF Wmreq
    <3> QED
      BY <2>0, <3>1
  <2>2. CASE ~(findfid(fid[c]) = Nil \/ minder[findfid(fid[c])] # "none")
    <3>0. PICK r \in Clients : r = findfid(fid[c])
      BY <2>2, Findfid
    <3>1. /\ wm' = At("join", r, Nil)
          /\ proc' = [proc EXCEPT ![c] = "asking"]
          /\ rec' = [rec EXCEPT ![c] = r]
      BY <1>7, <2>2, <3>0 DEF Wmreq
    <3>2. minder[r] = "none" /\ r \notin members
      BY <2>0, <2>2, <3>0
    <3> QED
      BY <2>0, <3>1, <3>2
  <2> QED
    BY <2>1, <2>2
<1>8. CASE Write
  <2> DEFINE m == Head(writes)
             r == findfid(fid[m.of])
  <2>0. m \in Messages /\ m.of \in Clients
    <3>1. writes # <<>> /\ writes \in Seq(Messages)
      BY <1>8 DEF Write, ChannelType
    <3>2. m \in Messages
      BY <3>1
    <3> QED
      BY <3>2 DEF Messages
  <2>1. UNCHANGED <<fid, rec, mgr, minder, members, late, lost>> /\ wm = Alt /\ Take(m, r)
    BY <1>8 DEF Write, history
  <2>2. r = Nil \/ r \in Clients
    BY Findfid
  <2> HIDE DEF m, r
  <2>3. /\ wm' = Alt \/ (r \in Clients /\ wm' \in {At("req", r, m.of), At("leave", r, Nil)})
        /\ \E l \in {"running", proc[m.of]} : proc' = [proc EXCEPT ![m.of] = l]
    BY <2>0, <2>1, <2>2 DEF Take
  <2>4. /\ proc' \in [Clients -> ClientStates]
        /\ \A c \in Clients : proc'[c] = "asking" => rec'[c] \in Clients
    BY <2>0, <2>1, <2>3
  <2>5. /\ wm' \in [at : {"alt", "join", "spawn", "req", "leave"}, who : Refs, writer : Refs]
        /\ wm'.at \in {"alt", "req", "leave"}
        /\ wm' = Alt \/ wm'.who \in Clients
        /\ wm'.at = "leave" => wm'.writer = Nil
    BY <2>0, <2>3
  <2>6. \A c \in Clients : wm # At("spawn", c, Nil) /\ wm' # At("spawn", c, Nil)
    BY <2>1, <2>5
  <2> QED
    BY <2>1, <2>4, <2>5, <2>6, ZenonT(40)
<1>9. CASE Join
  BY <1>9 DEF Join, history
<1>10. CASE Spawn
  BY <1>10 DEF Spawn, history
<1>11. CASE Req
  BY <1>11 DEF Req, history
<1>12. CASE Leave
  BY <1>12 DEF Leave, history
<1>13. CASE Greet
  BY <1>13 DEF Greet, history
<1>14. CASE HandleLeave
  BY <1>14 DEF HandleLeave, history
<1>15. CASE HandleRequest
  <2>1. PICK w \in Refs : w = mgr.writer
    OBVIOUS
  <2>2. /\ mgr.at \in {"request", "image"} /\ mgr' = Alt
        /\ proc' = [proc EXCEPT ![w] = IF proc[w] = "writing" THEN "running" ELSE proc[w]]
        /\ UNCHANGED <<fid, rec, wm, minder, members, late, lost>>
    BY <1>15, <2>1 DEF HandleRequest, history
  <2>3. /\ proc' \in [Clients -> ClientStates]
        /\ \A c \in Clients : proc'[c] = "asking" => rec'[c] \in Clients
    BY <2>2
  <2>4. \A c \in Clients : mgr # At("leave", c, Nil)
    BY <2>2
  <2> QED
    BY <2>2, <2>3, <2>4
<1>16. CASE Quiet \/ UNCHANGED vars
  BY <1>16 DEF Quiet, vars, history
<1> QED
  BY <1>1, <1>2, <1>3, <1>4, <1>5, <1>6, <1>7, <1>8, <1>9, <1>10, <1>11, <1>12,
     <1>13, <1>14, <1>15, <1>16 DEF Next

----------------------------------------------------------------------------
(* The channel *)

\* What the messages of the write channel are.
LEMMA MessageType ==
  ASSUME NEW c \in Clients
  PROVE  /\ Data(c) \in Messages /\ Data(c).of = c /\ Data(c).close = FALSE
         /\ Notice(c) \in Messages /\ Notice(c).of = c /\ Notice(c).close = TRUE
BY DEF Data, Notice, Messages

\* A message that is appended joins those that are there.
LEMMA Appended ==
  ASSUME NEW s \in Seq(Messages), NEW m \in Messages
  PROVE  /\ Append(s, m) \in Seq(Messages)
         /\ \A i \in DOMAIN s : \E j \in DOMAIN Append(s, m) : Append(s, m)[j] = s[i]
         /\ \A j \in DOMAIN Append(s, m) : Append(s, m)[j] = m \/ \E i \in DOMAIN s : s[i] = Append(s, m)[j]
         /\ \E j \in DOMAIN Append(s, m) : Append(s, m)[j] = m
<1> DEFINE t == Append(s, m)
<1>1. /\ t \in Seq(Messages) /\ DOMAIN t = 1..(Len(s) + 1) /\ DOMAIN s = 1..Len(s)
      /\ t[Len(s) + 1] = m /\ \A i \in 1..Len(s) : t[i] = s[i]
      /\ Len(s) \in Nat
  OBVIOUS
<1> HIDE DEF t
<1>2. ASSUME NEW i \in DOMAIN s PROVE i \in DOMAIN t /\ t[i] = s[i]
  BY <1>1
<1>3. ASSUME NEW j \in DOMAIN t PROVE t[j] = m \/ (j \in DOMAIN s /\ s[j] = t[j])
  BY <1>1
<1>4. Len(s) + 1 \in DOMAIN t
  BY <1>1
<1>5. /\ \A i \in DOMAIN s : \E j \in DOMAIN t : t[j] = s[i]
      /\ \A j \in DOMAIN t : t[j] = m \/ \E i \in DOMAIN s : s[i] = t[j]
      /\ \E j \in DOMAIN t : t[j] = m
  BY <1>1, <1>2, <1>3, <1>4
<1> QED
  BY <1>1, <1>5 DEF t

\* Without takes nothing but the one element out of a queue.
LEMMA WithoutType ==
  ASSUME NEW q \in Seq(Clients), NEW c \in Clients
  PROVE  /\ Without(q, c) \in Seq(Clients)
         /\ \A i \in DOMAIN Without(q, c) : \E j \in DOMAIN q : q[j] = Without(q, c)[i]
<1> DEFINE at == {i \in 1..Len(q) : q[i] = c}
           k == CHOOSE i \in at : TRUE
           w == [j \in 1..(Len(q) - 1) |-> IF j < k THEN q[j] ELSE q[j + 1]]
<1>1. CASE at = {}
  BY <1>1, Zenon DEF Without
<1>2. CASE at # {}
  <2>1. Without(q, c) = w
    BY <1>2, Zenon DEF Without
  <2>2. k \in 1..Len(q)
    BY <1>2
  <2> HIDE DEF k
  <2>3. Len(q) \in Nat /\ Len(q) - 1 \in Nat
    BY <2>2
  <2>4. \A j \in 1..(Len(q) - 1) : w[j] \in Clients /\ w[j] \in {q[j], q[j + 1]}
    BY <2>3
  <2>5. w \in Seq(Clients) /\ DOMAIN w = 1..(Len(q) - 1)
    BY <2>3, <2>4
  <2> HIDE DEF w
  <2>6. ASSUME NEW i \in DOMAIN w PROVE \E j \in DOMAIN q : q[j] = w[i]
    <3>1. i \in 1..(Len(q) - 1) /\ i \in 1..Len(q) /\ i + 1 \in 1..Len(q)
      BY <2>3, <2>5
    <3> QED
      BY <2>4, <3>1
  <2> QED
    BY <2>1, <2>5, <2>6
<1> QED
  BY <1>1, <1>2

\* What Write does to the channel: its head goes, and a writer that waited may
\* come in; no notice comes in and only the head can go.
LEMMA WriteChannel ==
  ASSUME ChannelType, Write
  PROVE  /\ Head(writes) \in Messages /\ writes[1] = Head(writes) /\ 1 \in DOMAIN writes
         /\ writes' \in Seq(Messages) /\ blocked' \in Seq(Clients)
         /\ \A i \in DOMAIN writes' :
              \/ \E j \in DOMAIN writes : writes[j] = writes'[i]
              \/ ~writes'[i].close /\ \E j \in DOMAIN blocked : blocked[j] = writes'[i].of
         /\ \A j \in DOMAIN writes : j # 1 => \E i \in DOMAIN writes' : writes'[i] = writes[j]
         /\ \A i \in DOMAIN blocked' : \E j \in DOMAIN blocked : blocked[j] = blocked'[i]
<1> DEFINE n == Len(writes)
           rest == Tail(writes)
<1>1. writes \in Seq(Messages) /\ writes # <<>> /\ blocked \in Seq(Clients)
  BY DEF Write, ChannelType
<1>2. /\ Head(writes) \in Messages /\ writes[1] = Head(writes) /\ 1 \in DOMAIN writes
      /\ rest \in Seq(Messages) /\ Len(rest) = n - 1 /\ n \in Nat \ {0}
      /\ \A i \in 1..(n - 1) : rest[i] = writes[i + 1]
  BY <1>1
<1>3. \A j \in DOMAIN writes : j # 1 => j - 1 \in 1..(n - 1) /\ rest[j - 1] = writes[j]
  BY <1>1, <1>2
<1>4. \A i \in 1..(n - 1) : i + 1 \in DOMAIN writes
  BY <1>1, <1>2
<1> HIDE DEF rest
<1>5. CASE blocked = <<>>
  <2>1. writes' = rest /\ blocked' = blocked
    BY <1>5 DEF Write, rest
  <2>2. DOMAIN writes' = 1..(n - 1)
    BY <1>2, <2>1
  <2> QED
    BY <1>1, <1>2, <1>3, <1>4, <2>1, <2>2
<1>6. CASE blocked # <<>>
  <2> DEFINE b == Head(blocked)
             d == Data(b)
  <2>1. writes' = Append(rest, d) /\ blocked' = Tail(blocked)
    BY <1>6 DEF Write, rest
  <2>2. b \in Clients /\ b = blocked[1] /\ 1 \in DOMAIN blocked
    BY <1>1, <1>6
  <2> HIDE DEF b
  <2>3. d \in Messages /\ d.of = b /\ d.close = FALSE
    BY <2>2 DEF Messages, Data
  <2> HIDE DEF d
  <2>4. /\ writes' \in Seq(Messages) /\ DOMAIN writes' = 1..n
        /\ \A i \in 1..(n - 1) : writes'[i] = rest[i]
        /\ writes'[n] = d
    BY <1>2, <2>1, <2>3
  <2>5. /\ blocked' \in Seq(Clients)
        /\ \A i \in DOMAIN blocked' : blocked'[i] = blocked[i + 1] /\ i + 1 \in DOMAIN blocked
    BY <1>1, <1>6, <2>1
  <2>6. ASSUME NEW i \in DOMAIN writes'
        PROVE  \/ \E j \in DOMAIN writes : writes[j] = writes'[i]
               \/ ~writes'[i].close /\ \E j \in DOMAIN blocked : blocked[j] = writes'[i].of
    <3>1. CASE i = n
      BY <2>2, <2>3, <2>4, <3>1
    <3>2. CASE i # n
      <4>1. i \in 1..(n - 1)
        BY <1>2, <2>4, <3>2
      <4>2. writes'[i] = writes[i + 1] /\ i + 1 \in DOMAIN writes
        BY <1>2, <1>4, <2>4, <4>1
      <4> QED
        BY <4>2
    <3> QED
      BY <3>1, <3>2
  <2>7. ASSUME NEW j \in DOMAIN writes, j # 1 PROVE \E i \in DOMAIN writes' : writes'[i] = writes[j]
    <3>1. j - 1 \in 1..(n - 1) /\ rest[j - 1] = writes[j]
      BY <1>3, <2>7
    <3>2. j - 1 \in DOMAIN writes' /\ writes'[j - 1] = writes[j]
      BY <1>2, <2>4, <3>1
    <3> QED
      BY <3>2
  <2> QED
    BY <1>2, <2>4, <2>5, <2>6, <2>7
<1> QED
  BY <1>5, <1>6

\* Every step keeps the types of the channel.
LEMMA NextChannelType == ChannelType /\ [Next]_vars => ChannelType'
<1> SUFFICES ASSUME ChannelType, [Next]_vars PROVE ChannelType'
  OBVIOUS
<1>1. ASSUME NEW c \in Clients, ReadToken(c) PROVE ChannelType'
  BY <1>1 DEF ReadToken, ChannelType
<1>2. ASSUME NEW c \in Clients, WriteRequest(c) PROVE ChannelType'
  <2>1. Data(c) \in Messages /\ writes \in Seq(Messages) /\ blocked \in Seq(Clients)
    BY MessageType DEF ChannelType
  <2>2. writes' \in {writes, Append(writes, Data(c))} /\ blocked' \in {blocked, Append(blocked, c)}
    BY <1>2 DEF WriteRequest
  <2>3. Append(writes, Data(c)) \in Seq(Messages) /\ Append(blocked, c) \in Seq(Clients)
    BY <2>1
  <2> QED
    BY <1>2, <2>1, <2>2, <2>3 DEF WriteRequest, ChannelType
<1>3. ASSUME NEW c \in Clients, Die(c) PROVE ChannelType'
  BY <1>3, WithoutType DEF Die, ChannelType
<1>4. ASSUME NEW c \in Clients, Close(c) PROVE ChannelType'
  <2>1. Notice(c) \in Messages /\ writes \in Seq(Messages)
    BY MessageType DEF ChannelType
  <2>2. writes' \in {writes, Append(writes, Notice(c))}
    BY <1>4 DEF Close
  <2>3. Append(writes, Notice(c)) \in Seq(Messages)
    BY <2>1
  <2> QED
    BY <1>4, <2>1, <2>2, <2>3 DEF Close, ChannelType
<1>5. ASSUME NEW c \in Clients, Read(c) PROVE ChannelType'
  BY <1>5 DEF Read, ChannelType
<1>6. CASE Write
  BY <1>6, WriteChannel DEF Write, ChannelType
<1>7. CASE UNCHANGED channel
  BY <1>7 DEF channel, ChannelType
<1>8. ASSUME NEW c \in Clients, NEW f \in Fids, Connect(c, f) PROVE UNCHANGED channel
  BY <1>8, Zenon DEF Connect
<1>9. ASSUME NEW c \in Clients, Reply(c) \/ Wmreq(c) PROVE UNCHANGED channel
  BY <1>9, Zenon DEF Reply, Wmreq
<1>10. CASE Join \/ Spawn \/ Req \/ Leave \/ Greet \/ HandleLeave \/ HandleRequest
  <2>1. UNCHANGED channel
    BY <1>10, Zenon DEF Join, Spawn, Req, Leave, Greet, HandleLeave, HandleRequest
  <2> QED
    BY <1>7, <2>1
<1>11. CASE Quiet \/ UNCHANGED vars
  BY <1>7, <1>11 DEF Quiet, vars, channel
<1> QED
  BY <1>1, <1>2, <1>3, <1>4, <1>5, <1>6, <1>7, <1>8, <1>9, <1>10, <1>11 DEF Next

----------------------------------------------------------------------------
(* The table *)

\* addclient puts c in one slot that was free or is new, and moves nobody.
LEMMA AddClient ==
  ASSUME NEW tab \in Seq(Refs), NEW c \in Clients
  PROVE  /\ addclient(tab, c) \in Seq(Refs)
         /\ Len(addclient(tab, c)) >= Len(tab)
         /\ \A i \in DOMAIN tab : tab[i] # Nil => addclient(tab, c)[i] = tab[i]
         /\ \E k \in DOMAIN addclient(tab, c) :
              /\ addclient(tab, c)[k] = c
              /\ \A i \in DOMAIN addclient(tab, c) :
                   i # k /\ addclient(tab, c)[i] # Nil =>
                      i \in DOMAIN tab /\ addclient(tab, c)[i] = tab[i]
<1> DEFINE free == {i \in DOMAIN tab : tab[i] = Nil}
           first == CHOOSE i \in free : \A j \in free : i <= j
           rest == [i \in 1..(Grow - 1) |-> Nil]
           long == tab \o <<c>> \o rest
<1> USE DEF Refs
<1>1. CASE free # {}
  <2>1. first \in free
    <3>1. free \subseteq Nat
      OBVIOUS
    <3>2. \E i \in free : \A j \in free : i <= j
      BY <1>1, <3>1, Least
    <3> QED
      BY <3>2
  <2>2. addclient(tab, c) = [tab EXCEPT ![first] = c]
    BY <1>1 DEF addclient
  <2>3. first \in DOMAIN tab /\ tab[first] = Nil
    BY <2>1
  <2> HIDE DEF first, free
  <2>4. /\ addclient(tab, c) \in Seq(Refs)
        /\ Len(addclient(tab, c)) = Len(tab)
        /\ addclient(tab, c)[first] = c
        /\ \A i \in DOMAIN tab : i # first => addclient(tab, c)[i] = tab[i]
    BY <2>2, <2>3
  <2> QED
    BY <2>3, <2>4
<1>2. CASE free = {}
  <2>1. addclient(tab, c) = long
    BY <1>2 DEF addclient
  <2>2. rest \in Seq(Refs) /\ Len(rest) = Grow - 1
    BY ConstantsAssumption
  <2> DEFINE n == Len(tab)
  <2> HIDE DEF rest
  <2>3. /\ long \in Seq(Refs)
        /\ Len(long) = n + Grow
        /\ long[n + 1] = c
        /\ \A i \in 1..n : long[i] = tab[i]
    BY <2>2, ConstantsAssumption
  <2>4. \A i \in (n + 2)..(n + Grow) : long[i] = Nil
    <3> SUFFICES ASSUME NEW i \in (n + 2)..(n + Grow) PROVE long[i] = Nil
      OBVIOUS
    <3>1. long[i] = rest[i - n - 1]
      BY <2>2, ConstantsAssumption
    <3>2. i - n - 1 \in 1..(Grow - 1)
      BY ConstantsAssumption
    <3> QED
      BY <3>1, <3>2 DEF rest
  <2>5. n + 1 \in DOMAIN long
    BY <2>3, ConstantsAssumption
  <2> HIDE DEF long
  <2>6. ASSUME NEW i \in DOMAIN long, i # n + 1, long[i] # Nil
        PROVE  i \in DOMAIN tab /\ long[i] = tab[i]
    BY <2>3, <2>4, <2>6, ConstantsAssumption
  <2> QED
    BY <2>1, <2>3, <2>5, <2>6, ConstantsAssumption
<1> QED
  BY <1>1, <1>2

\* What names a connection did so after it was opened, so its fid stays.
Used ==
    \A c \in Clients :
      Registered(c) \/ c \in reads \/ (\E i \in DOMAIN writes : writes[i].of = c)
         \/ (\E i \in DOMAIN blocked : blocked[i] = c)
      => proc[c] # "new"

\* Two open connections have different fids.
FidsApart == \A c, d \in Clients : Open(c) /\ Open(d) /\ fid[c] = fid[d] => c = d

Holding == {"token", "asking", "running", "writing"}

\* Why HoldersFound is kept: no notice with its fid is on its way, and none
\* can be sent before the client's own.
Held ==
    \A c \in Clients : proc[c] \in Holding /\ c \notin late =>
      /\ \E r \in Clients : Registered(r) /\ fid[r] = fid[c]
      /\ proc[c] # "token" => rec[c] \in Clients /\ Registered(rec[c]) /\ fid[rec[c]] = fid[c]
      /\ ~Noticed(fid[c])
      /\ wm.at = "leave" => fid[wm.who] # fid[c]

\* Why TableAgrees is kept: a leaver is still in its slot.
TInv ==
    /\ clients \in Seq(Refs)
    /\ id \in [Clients -> -1..(Len(clients) - 1)]
    /\ SlotsMatchIds /\ OnePerFid
    /\ Used /\ FidsApart /\ Held /\ NoneForgotten
    /\ wm.at = "leave" => Registered(wm.who)

\* The started server has an empty table.
LEMMA InitTInv == Init => TInv
<1> SUFFICES ASSUME Init PROVE TInv
  OBVIOUS
<1>1. \A c \in Clients : proc[c] = "new" /\ ~Registered(c)
  BY DEF Init, Registered
<1> QED
  BY <1>1, ConstantsAssumption DEF Init, TInv, SlotsMatchIds, OnePerFid, Used, FidsApart, Held,
     Holding, NoneForgotten, Open, Refs

\* Steps that leave the table, the notices and the open connections alone.
LEMMA TableKept ==
  ASSUME MInv, TInv, UNCHANGED <<clients, id, fid, late, lost>>,
         wm.at = "leave" \/ wm'.at = "leave" => wm' = wm,
         \A i \in DOMAIN writes' : writes'[i].close => \E j \in DOMAIN writes : writes[j] = writes'[i],
         \A j \in DOMAIN writes : writes[j].close => \E i \in DOMAIN writes' : writes'[i] = writes[j],
         \A c \in Clients :
           c \in reads' \/ (\E i \in DOMAIN writes' : writes'[i].of = c)
             \/ (\E i \in DOMAIN blocked' : blocked'[i] = c) => proc'[c] # "new",
         \A c \in Clients :
           /\ proc'[c] \in {"new", "gone"} <=> proc[c] \in {"new", "gone"}
           /\ proc[c] # "new" => proc'[c] # "new"
           /\ proc'[c] \in Holding =>
                /\ proc[c] \in Holding
                /\ proc'[c] # "token" =>
                     \/ proc[c] # "token" /\ rec'[c] = rec[c]
                     \/ rec'[c] \in Clients /\ Registered(rec'[c]) /\ fid[rec'[c]] = fid[c]
  PROVE  TInv'
<1>1. \A c : Registered(c)' <=> Registered(c)
  BY DEF Registered
<1>2. \A f : Noticed(f)' <=> Noticed(f)
  BY DEF Noticed
<1>3. \A c \in Clients : Open(c)' <=> Open(c)
  BY DEF Open
<1>4. SlotsMatchIds' /\ OnePerFid'
  BY <1>1 DEF TInv, SlotsMatchIds, OnePerFid
<1>5. Used'
  BY <1>1 DEF TInv, Used
<1>6. FidsApart'
  BY <1>3 DEF TInv, FidsApart
<1>7. Held'
  <2> SUFFICES ASSUME NEW c \in Clients, proc'[c] \in Holding, c \notin late', NEW f, f = fid'[c]
               PROVE  /\ \E r \in Clients : Registered(r)' /\ fid'[r] = f
                      /\ proc'[c] # "token" =>
                           rec'[c] \in Clients /\ (\E i \in DOMAIN clients' : clients'[i] = rec'[c])
                             /\ fid'[rec'[c]] = f
                      /\ ~Noticed(f)'
                      /\ wm'.at = "leave" => fid'[wm'.who] # f
    BY DEF Held, Registered, Noticed
  <2>1. proc[c] \in Holding /\ c \notin late /\ f = fid[c]
    OBVIOUS
  <2>2. /\ \E r \in Clients : Registered(r) /\ fid[r] = f
        /\ proc[c] # "token" => rec[c] \in Clients /\ Registered(rec[c]) /\ fid[rec[c]] = f
        /\ ~Noticed(f)
        /\ wm.at = "leave" => fid[wm.who] # f
    BY <2>1 DEF TInv, Held
  <2>3. proc'[c] # "token" => rec'[c] \in Clients /\ Registered(rec'[c]) /\ fid[rec'[c]] = f
    BY <2>2
  <2>4. \E r \in Clients : Registered(r)' /\ fid'[r] = f
    BY <1>1, <2>2
  <2>5. ~Noticed(f)'
    BY <1>2, <2>2
  <2>6. wm'.at = "leave" => fid'[wm'.who] # f
    BY <2>2
  <2> QED
    BY <2>3, <2>4, <2>5, <2>6 DEF Registered
<1>8. NoneForgotten'
  BY <1>1, <1>2, <1>3 DEF TInv, NoneForgotten
<1>9. wm'.at = "leave" => Registered(wm'.who)
  BY DEF TInv
<1> QED
  BY <1>4, <1>5, <1>6, <1>7, <1>8, <1>9 DEF TInv, Registered

\* A client of the table is the one found by its fid.
LEMMA FindThe ==
  ASSUME TInv, NEW r \in Clients, Registered(r)
  PROVE  findfid(fid[r]) = r
<1> DEFINE f == fid[r]
<1>1. clients \in Seq(Refs)
  BY DEF TInv
<1>2. findfid(f) \in Clients /\ Registered(findfid(f)) /\ fid[findfid(f)] = f
  <2> HIDE DEF f
  <2>1. \/ findfid(f) = Nil /\ \A c \in Clients : Registered(c) => fid[c] # f
        \/ findfid(f) \in Clients /\ Registered(findfid(f)) /\ fid[findfid(f)] = f
    BY <1>1, Findfid
  <2> QED
    BY <2>1 DEF f
<1> QED
  BY <1>2, Zenon DEF TInv, OnePerFid

\* A connection that is opened has a fid no open one has, and nothing names it yet.
LEMMA ConnectKeepsTable ==
  ASSUME MInv, ChannelType, TInv, NEW c \in Clients, NEW f \in Fids, Connect(c, f)
  PROVE  TInv'
<1>1. /\ proc[c] = "new" /\ \A d \in Clients : Open(d) => fid[d] # f
      /\ fid' = [fid EXCEPT ![c] = f] /\ proc' = [proc EXCEPT ![c] = "open"]
      /\ UNCHANGED <<clients, id, rec, reads, writes, blocked, wm, late, lost>>
  BY DEF Connect, table, channel, history
<1>2. \A d \in Clients : d # c => fid'[d] = fid[d] /\ proc'[d] = proc[d]
  BY <1>1 DEF MInv, ControlType
<1>3. fid'[c] = f /\ proc'[c] = "open"
  BY <1>1 DEF MInv, ControlType
<1>4. \A d : Registered(d)' <=> Registered(d)
  BY <1>1 DEF Registered
<1>5. ~Registered(c) /\ \A i \in DOMAIN writes : writes[i].of \in Clients /\ writes[i].of # c
  <2>1. ~Registered(c) /\ \A i \in DOMAIN writes : writes[i].of # c
    BY <1>1 DEF TInv, Used
  <2>2. \A i \in DOMAIN writes : writes[i] \in Messages
    BY DEF ChannelType
  <2> QED
    BY <2>1, <2>2 DEF Messages
<1>6. \A g : Noticed(g)' <=> Noticed(g)
  BY <1>1, <1>2, <1>5 DEF Noticed
<1>7. \A d \in Clients : d # c => (Open(d)' <=> Open(d))
  BY <1>2 DEF Open
<1>8. SlotsMatchIds' /\ OnePerFid'
  BY <1>1, <1>2, <1>4, <1>5 DEF TInv, SlotsMatchIds, OnePerFid
<1>9. Used'
  BY <1>1, <1>2, <1>3, <1>4 DEF TInv, Used
<1>10. FidsApart'
  BY <1>1, <1>2, <1>3, <1>7 DEF TInv, FidsApart
<1>11. Held'
  <2> SUFFICES ASSUME NEW d \in Clients, proc'[d] \in Holding, d \notin late', NEW g, g = fid'[d]
               PROVE  /\ \E r \in Clients : Registered(r)' /\ fid'[r] = g
                      /\ proc'[d] # "token" =>
                           rec'[d] \in Clients /\ (\E i \in DOMAIN clients' : clients'[i] = rec'[d])
                             /\ fid'[rec'[d]] = g
                      /\ ~Noticed(g)'
                      /\ wm'.at = "leave" => fid'[wm'.who] # g
    BY DEF Held, Registered, Noticed
  <2>1. d # c /\ proc[d] \in Holding /\ d \notin late /\ g = fid[d]
    BY <1>1, <1>2, <1>3 DEF Holding
  <2>2. /\ \E r \in Clients : Registered(r) /\ fid[r] = g
        /\ proc[d] # "token" => rec[d] \in Clients /\ Registered(rec[d]) /\ fid[rec[d]] = g
        /\ ~Noticed(g)
        /\ wm.at = "leave" => fid[wm.who] # g
    BY <2>1 DEF TInv, Held
  <2>3. \E r \in Clients : Registered(r)' /\ fid'[r] = g
    BY <1>2, <1>4, <1>5, <2>2
  <2>4. proc'[d] # "token" => rec'[d] \in Clients /\ Registered(rec'[d]) /\ fid'[rec'[d]] = g
    BY <1>1, <1>2, <1>5, <2>1, <2>2
  <2>5. wm.at = "leave" => wm.who \in Clients /\ wm.who # c
    BY <1>5 DEF TInv, MInv, ControlType
  <2>6. wm'.at = "leave" => fid'[wm'.who] # g
    BY <1>1, <1>2, <2>2, <2>5
  <2> QED
    BY <1>1, <1>6, <2>2, <2>3, <2>4, <2>6 DEF Registered
<1>12. NoneForgotten'
  <2> SUFFICES ASSUME NEW r \in Clients, Registered(r)
               PROVE  \/ \E d \in Clients : Open(d)' /\ fid'[d] = fid'[r]
                      \/ \E i \in DOMAIN writes : writes[i].close /\ fid'[writes[i].of] = fid'[r]
                      \/ wm' = At("leave", r, Nil)
                      \/ r \in lost'
    BY <1>1, <1>4 DEF NoneForgotten, Noticed
  <2>1. fid'[r] = fid[r]
    BY <1>2, <1>5
  <2>2. \/ \E d \in Clients : Open(d) /\ fid[d] = fid[r]
        \/ Noticed(fid[r])
        \/ wm = At("leave", r, Nil)
        \/ r \in lost
    BY DEF TInv, NoneForgotten
  <2>3. ASSUME NEW d \in Clients, Open(d), fid[d] = fid[r]
        PROVE  Open(d)' /\ fid'[d] = fid'[r]
    BY <1>1, <1>2, <1>7, <2>1, <2>3 DEF Open
  <2>4. Noticed(fid[r]) => \E i \in DOMAIN writes : writes[i].close /\ fid'[writes[i].of] = fid'[r]
    BY <1>2, <1>5, <2>1 DEF Noticed
  <2> QED
    BY <1>1, <2>2, <2>3, <2>4
<1> QED
  BY <1>1, <1>4, <1>8, <1>9, <1>10, <1>11, <1>12 DEF TInv, Registered

\* The notice of a closed connection names a fid that no other open one has;
\* what it is dropped for is lost.
LEMMA CloseKeepsTable ==
  ASSUME MInv, ChannelType, TInv, NEW c \in Clients, Close(c)
  PROVE  TInv'
<1>1. /\ proc[c] = "closing" /\ proc' = [proc EXCEPT ![c] = "gone"]
      /\ UNCHANGED <<clients, id, fid, rec, reads, blocked, wm, late>>
  BY DEF Close, table
<1>2. \A d \in Clients : d # c => proc'[d] = proc[d]
  BY <1>1 DEF MInv, ControlType
<1>3. proc'[c] = "gone"
  BY <1>1 DEF MInv, ControlType
<1>4. \A d : Registered(d)' <=> Registered(d)
  BY <1>1 DEF Registered
<1>5. /\ \A i \in DOMAIN writes : \E j \in DOMAIN writes' : writes'[j] = writes[i]
      /\ \A j \in DOMAIN writes' : writes'[j] = Notice(c) \/ \E i \in DOMAIN writes : writes[i] = writes'[j]
      /\ \/ \E j \in DOMAIN writes' : writes'[j] = Notice(c)
         \/ \A r \in Clients : Registered(r) /\ fid[r] = fid[c] => r \in lost'
      /\ lost \subseteq lost'
  <2>1. writes \in Seq(Messages) /\ Notice(c) \in Messages
    BY MessageType DEF ChannelType
  <2>2. CASE Len(writes) < Slots
    <3>1. writes' = Append(writes, Notice(c)) /\ lost' = lost
      BY <2>2 DEF Close
    <3>2. /\ \A i \in DOMAIN writes : \E j \in DOMAIN writes' : writes'[j] = writes[i]
          /\ \A j \in DOMAIN writes' : writes'[j] = Notice(c) \/ \E i \in DOMAIN writes : writes[i] = writes'[j]
          /\ \E j \in DOMAIN writes' : writes'[j] = Notice(c)
      <4> DEFINE m == Notice(c)
      <4> HIDE DEF m
      <4>1. writes' = Append(writes, m) /\ m \in Messages
        BY <2>1, <3>1 DEF m
      <4>2. /\ \A i \in DOMAIN writes : \E j \in DOMAIN writes' : writes'[j] = writes[i]
            /\ \A j \in DOMAIN writes' : writes'[j] = m \/ \E i \in DOMAIN writes : writes[i] = writes'[j]
            /\ \E j \in DOMAIN writes' : writes'[j] = m
        <5>1. writes \in Seq(Messages) /\ m \in Messages
          BY <2>1, <4>1
        <5>2. /\ \A i \in DOMAIN writes : \E j \in DOMAIN Append(writes, m) : Append(writes, m)[j] = writes[i]
              /\ \A j \in DOMAIN Append(writes, m) :
                   Append(writes, m)[j] = m \/ \E i \in DOMAIN writes : writes[i] = Append(writes, m)[j]
              /\ \E j \in DOMAIN Append(writes, m) : Append(writes, m)[j] = m
          BY <5>1, Appended
        <5> QED
          BY <4>1, <5>2, Zenon
      <4> QED
        BY <4>2 DEF m
    <3> QED
      BY <3>1, <3>2
  <2>3. CASE ~(Len(writes) < Slots)
    <3>1. writes' = writes /\ lost' = lost \cup {r \in Clients : Registered(r) /\ fid[r] = fid[c]}
      BY <2>3 DEF Close
    <3> QED
      BY <3>1
  <2> QED
    BY <2>2, <2>3
<1>6. Notice(c).of = c /\ Notice(c).close
  BY MessageType
<1>7. \A g : /\ Noticed(g) => Noticed(g)'
             /\ Noticed(g)' => Noticed(g) \/ g = fid[c]
  BY <1>1, <1>5, <1>6 DEF Noticed
<1>8. \A d \in Clients : d # c => (Open(d)' <=> Open(d))
  BY <1>2 DEF Open
<1>9. ~Open(c)' /\ Open(c)
  BY <1>1, <1>3 DEF Open
<1>10. SlotsMatchIds' /\ OnePerFid'
  BY <1>1, <1>4 DEF TInv, SlotsMatchIds, OnePerFid
<1>11. Used'
  BY <1>1, <1>2, <1>3, <1>4, <1>5, <1>6 DEF TInv, Used
<1>12. FidsApart'
  BY <1>1, <1>8, <1>9 DEF TInv, FidsApart
<1>13. Held'
  <2> SUFFICES ASSUME NEW d \in Clients, proc'[d] \in Holding, d \notin late', NEW g, g = fid'[d]
               PROVE  /\ \E r \in Clients : Registered(r)' /\ fid'[r] = g
                      /\ proc'[d] # "token" =>
                           rec'[d] \in Clients /\ (\E i \in DOMAIN clients' : clients'[i] = rec'[d])
                             /\ fid'[rec'[d]] = g
                      /\ ~Noticed(g)'
                      /\ wm'.at = "leave" => fid'[wm'.who] # g
    BY DEF Held, Registered, Noticed
  <2>1. d # c /\ proc[d] \in Holding /\ d \notin late /\ g = fid[d]
    BY <1>1, <1>2, <1>3 DEF Holding
  <2>2. /\ \E r \in Clients : Registered(r) /\ fid[r] = g
        /\ proc[d] # "token" => rec[d] \in Clients /\ Registered(rec[d]) /\ fid[rec[d]] = g
        /\ ~Noticed(g)
        /\ wm.at = "leave" => fid[wm.who] # g
    BY <2>1 DEF TInv, Held
  <2>3. g # fid[c]
    BY <1>9, <2>1 DEF TInv, FidsApart, Open, Holding
  <2>4. ~Noticed(g)'
    BY <1>7, <2>2, <2>3
  <2>5. \E r \in Clients : Registered(r)' /\ fid'[r] = g
    BY <1>1, <1>4, <2>2
  <2> QED
    BY <1>1, <1>2, <2>1, <2>2, <2>4, <2>5 DEF Registered
<1>14. NoneForgotten'
  <2> SUFFICES ASSUME NEW r \in Clients, Registered(r), NEW g, g = fid[r]
               PROVE  \/ \E d \in Clients : Open(d)' /\ fid[d] = g
                      \/ Noticed(g)'
                      \/ wm = At("leave", r, Nil)
                      \/ r \in lost'
    BY <1>1, <1>4 DEF NoneForgotten, Noticed
  <2>1. \/ \E d \in Clients : Open(d) /\ fid[d] = g
        \/ Noticed(g)
        \/ wm = At("leave", r, Nil)
        \/ r \in lost
    BY DEF TInv, NoneForgotten
  <2>2. ASSUME NEW d \in Clients, Open(d), fid[d] = g
        PROVE  Open(d)' \/ Noticed(g)' \/ r \in lost'
    <3>1. CASE d = c
      BY <1>1, <1>5, <1>6, <2>2, <3>1 DEF Noticed
    <3>2. CASE d # c
      BY <1>8, <2>2, <3>2
    <3> QED
      BY <3>1, <3>2
  <2> QED
    BY <1>5, <1>7, <2>1, <2>2
<1> QED
  BY <1>1, <1>4, <1>10, <1>11, <1>12, <1>13, <1>14 DEF TInv, Registered

\* The read of a fid that is in the table changes who has a token, no more.
LEMMA ReadFound ==
  ASSUME MInv, ChannelType, TInv, NEW c \in Clients, Read(c), findfid(fid[c]) # Nil
  PROVE  TInv'
<1>1. /\ wm = Alt /\ c \in reads /\ reads' = reads \ {c}
      /\ proc' = [proc EXCEPT ![c] = IF proc[c] = "reading" THEN "token" ELSE proc[c]]
      /\ late' = IF Noticed(fid[c]) THEN late \cup {c} ELSE late
      /\ UNCHANGED <<clients, id, fid, rec, writes, blocked, wm, lost>>
  BY DEF Read, table
<1>2. /\ \A d \in Clients : d # c => proc'[d] = proc[d]
      /\ proc'[c] = IF proc[c] = "reading" THEN "token" ELSE proc[c]
  BY <1>1 DEF MInv, ControlType
<1>3. findfid(fid[c]) \in Clients /\ Registered(findfid(fid[c])) /\ fid[findfid(fid[c])] = fid[c]
  BY Findfid DEF TInv
<1>4. \A d : Registered(d)' <=> Registered(d)
  BY <1>1 DEF Registered
<1>5. \A g : Noticed(g)' <=> Noticed(g)
  BY <1>1 DEF Noticed
<1>6. \A d \in Clients : Open(d)' <=> Open(d)
  BY <1>2 DEF Open
<1>7. SlotsMatchIds' /\ OnePerFid' /\ Used' /\ FidsApart' /\ NoneForgotten'
  <2>1. SlotsMatchIds' /\ OnePerFid'
    BY <1>1, <1>4 DEF TInv, SlotsMatchIds, OnePerFid
  <2>2. Used'
    BY <1>1, <1>2, <1>4 DEF TInv, Used
  <2>3. FidsApart' /\ NoneForgotten'
    BY <1>1, <1>4, <1>5, <1>6 DEF TInv, FidsApart, NoneForgotten
  <2> QED
    BY <2>1, <2>2, <2>3
<1>8. Held'
  <2> SUFFICES ASSUME NEW d \in Clients, proc'[d] \in Holding, d \notin late', NEW g, g = fid'[d]
               PROVE  /\ \E r \in Clients : Registered(r)' /\ fid'[r] = g
                      /\ proc'[d] # "token" =>
                           rec'[d] \in Clients /\ (\E i \in DOMAIN clients' : clients'[i] = rec'[d])
                             /\ fid'[rec'[d]] = g
                      /\ ~Noticed(g)'
                      /\ wm'.at = "leave" => fid'[wm'.who] # g
    BY DEF Held, Registered, Noticed
  <2>1. CASE d = c /\ proc[c] = "reading"
    <3>1. ~Noticed(g) /\ proc'[d] = "token" /\ g = fid[c]
      BY <1>1, <1>2, <2>1
    <3>2. \E r \in Clients : Registered(r)' /\ fid'[r] = g
      BY <1>1, <1>3, <1>4, <3>1
    <3> QED
      BY <1>1, <1>5, <3>1, <3>2
  <2>2. CASE ~(d = c /\ proc[c] = "reading")
    <3>1. proc'[d] = proc[d] /\ d \notin late /\ g = fid[d]
      BY <1>1, <1>2, <2>2
    <3>2. /\ \E r \in Clients : Registered(r) /\ fid[r] = g
          /\ proc[d] # "token" => rec[d] \in Clients /\ Registered(rec[d]) /\ fid[rec[d]] = g
          /\ ~Noticed(g)
      BY <3>1 DEF TInv, Held
    <3> QED
      BY <1>1, <1>4, <1>5, <3>1, <3>2 DEF Registered
  <2> QED
    BY <2>1, <2>2
<1> QED
  BY <1>1, <1>7, <1>8 DEF TInv

\* The read that registers a client puts it into a slot of its own and records that slot as its id.
LEMMA ReadRegisters ==
  ASSUME MInv, ChannelType, TInv, NEW c \in Clients, Read(c), findfid(fid[c]) = Nil
  PROVE  TInv'
<1> USE DEF Refs
<1>1. /\ wm = Alt /\ c \in reads /\ reads' = reads \ {c}
      /\ clients' = addclient(clients, c)
      /\ id' = [id EXCEPT ![c] = (CHOOSE i \in DOMAIN clients' : clients'[i] = c) - 1]
      /\ proc' = [proc EXCEPT ![c] = IF proc[c] = "reading" THEN "token" ELSE proc[c]]
      /\ late' = IF Noticed(fid[c]) THEN late \cup {c} ELSE late
      /\ lost' = IF Noticed(fid[c]) \/ \E d \in Clients : Open(d) /\ fid[d] = fid[c]
                 THEN lost ELSE lost \cup {c}
      /\ UNCHANGED <<fid, rec, writes, blocked, wm>>
  BY DEF Read, table
<1>2. /\ \A d \in Clients : d # c => proc'[d] = proc[d]
      /\ proc'[c] = IF proc[c] = "reading" THEN "token" ELSE proc[c]
  BY <1>1 DEF MInv, ControlType
<1>3. clients \in Seq(Refs)
  BY DEF TInv
<1>4. \A d \in Clients : Registered(d) => fid[d] # fid[c]
  <2>1. Nil \notin Clients
    BY ConstantsAssumption
  <2> QED
    BY <1>3, <2>1, Findfid
<1>5. /\ clients' \in Seq(Refs)
      /\ Len(clients') >= Len(clients)
      /\ \A i \in DOMAIN clients : clients[i] # Nil => clients'[i] = clients[i]
      /\ \E k \in DOMAIN clients' :
           /\ clients'[k] = c
           /\ \A i \in DOMAIN clients' :
                i # k /\ clients'[i] # Nil => i \in DOMAIN clients /\ clients'[i] = clients[i]
  BY <1>1, <1>3, AddClient
<1>6. PICK k \in DOMAIN clients' :
           /\ clients'[k] = c
           /\ \A i \in DOMAIN clients' :
                i # k /\ clients'[i] # Nil => i \in DOMAIN clients /\ clients'[i] = clients[i]
  BY <1>5
<1>7. \A i \in DOMAIN clients' : clients'[i] = c => i = k
  BY <1>4, <1>6, ConstantsAssumption DEF Registered
<1>8. (CHOOSE i \in DOMAIN clients' : clients'[i] = c) = k
  BY <1>6, <1>7
<1>9. id' = [id EXCEPT ![c] = k - 1] /\ k \in 1..Len(clients')
  <2>1. id' = [id EXCEPT ![c] = k - 1]
    BY <1>1, <1>8, Zenon
  <2>2. k \in 1..Len(clients')
    BY <1>5, <1>6
  <2> QED
    BY <2>1, <2>2
<1>10. id' \in [Clients -> -1..(Len(clients') - 1)]
  BY <1>3, <1>5, <1>9 DEF TInv
<1>11. SlotsMatchIds'
  <2> SUFFICES ASSUME NEW i \in DOMAIN clients', clients'[i] # Nil
               PROVE  id'[clients'[i]] = i - 1
    BY DEF SlotsMatchIds
  <2>1. CASE i = k
    BY <1>6, <1>9, <2>1 DEF TInv
  <2>2. CASE i # k
    <3>1. i \in DOMAIN clients /\ clients'[i] = clients[i] /\ clients[i] \in Clients
      BY <1>3, <1>6, <2>2
    <3>2. clients[i] # c
      BY <1>7, <2>2, <3>1
    <3> QED
      BY <1>9, <3>1, <3>2 DEF TInv, SlotsMatchIds
  <2> QED
    BY <2>1, <2>2
<1>12. \A d \in Clients : d # c => (Registered(d)' <=> Registered(d))
  BY <1>3, <1>5, <1>6, ConstantsAssumption DEF Registered
<1>13. Registered(c)'
  BY <1>6 DEF Registered
<1>14. \A g : Noticed(g)' <=> Noticed(g)
  BY <1>1 DEF Noticed
<1>15. \A d \in Clients : Open(d)' <=> Open(d)
  BY <1>2 DEF Open
<1>16. OnePerFid'
  BY <1>1, <1>4, <1>12 DEF TInv, OnePerFid
<1>17. Used' /\ FidsApart'
  <2>1. proc[c] # "new"
    BY <1>1 DEF TInv, Used
  <2>2. Used'
    BY <1>1, <1>2, <1>12, <2>1 DEF TInv, Used
  <2> QED
    BY <1>1, <1>15, <2>2 DEF TInv, FidsApart
<1>18. Held'
  <2> SUFFICES ASSUME NEW d \in Clients, proc'[d] \in Holding, d \notin late', NEW g, g = fid'[d]
               PROVE  /\ \E r \in Clients : Registered(r)' /\ fid'[r] = g
                      /\ proc'[d] # "token" =>
                           rec'[d] \in Clients /\ (\E i \in DOMAIN clients' : clients'[i] = rec'[d])
                             /\ fid'[rec'[d]] = g
                      /\ ~Noticed(g)'
                      /\ wm'.at = "leave" => fid'[wm'.who] # g
    BY DEF Held, Registered, Noticed
  <2>1. CASE d = c /\ proc[c] = "reading"
    <3>1. ~Noticed(g) /\ proc'[d] = "token" /\ g = fid[c]
      BY <1>1, <1>2, <2>1
    <3>2. \E r \in Clients : Registered(r)' /\ fid'[r] = g
      BY <1>1, <1>13, <3>1
    <3> QED
      BY <1>1, <1>14, <3>1, <3>2
  <2>2. CASE ~(d = c /\ proc[c] = "reading")
    <3>1. proc'[d] = proc[d] /\ d \notin late /\ g = fid[d]
      BY <1>1, <1>2, <2>2
    <3>2. /\ \E r \in Clients : Registered(r) /\ fid[r] = g
          /\ proc[d] # "token" => rec[d] \in Clients /\ Registered(rec[d]) /\ fid[rec[d]] = g
          /\ ~Noticed(g)
      BY <3>1 DEF TInv, Held
    <3>3. \E r \in Clients : Registered(r)' /\ fid'[r] = g
      BY <1>1, <1>12, <1>13, <3>2
    <3>4. proc'[d] # "token" => rec'[d] \in Clients /\ Registered(rec[d])' /\ fid'[rec'[d]] = g
      BY <1>1, <1>12, <1>13, <3>1, <3>2
    <3> QED
      BY <1>1, <1>14, <3>1, <3>2, <3>3, <3>4 DEF Registered
  <2> QED
    BY <2>1, <2>2
<1>19. NoneForgotten'
  <2> SUFFICES ASSUME NEW r \in Clients, Registered(r)', NEW g, g = fid[r]
               PROVE  \/ \E d \in Clients : Open(d) /\ fid[d] = g
                      \/ Noticed(g)
                      \/ wm = At("leave", r, Nil)
                      \/ r \in lost'
    BY <1>1, <1>15 DEF NoneForgotten, Noticed
  <2>1. CASE r = c
    BY <1>1, <2>1
  <2>2. CASE r # c
    <3>1. Registered(r) /\ lost \subseteq lost'
      BY <1>1, <1>12, <2>2
    <3> QED
      BY <3>1 DEF TInv, NoneForgotten
  <2> QED
    BY <2>1, <2>2
<1> QED
  BY <1>1, <1>5, <1>10, <1>11, <1>16, <1>17, <1>18, <1>19 DEF TInv

\* A notice that is taken makes the client leave that has its fid, if there is one.
LEMMA NoticeTaken ==
  ASSUME MInv, ChannelType, TInv, Write, Head(writes).close
  PROVE  TInv'
<1> DEFINE m == Head(writes)
           f == fid[m.of]
           r == findfid(f)
<1>1. /\ m \in Messages /\ writes[1] = m /\ 1 \in DOMAIN writes /\ m.close
      /\ \A i \in DOMAIN writes' :
           \/ \E j \in DOMAIN writes : writes[j] = writes'[i]
           \/ ~writes'[i].close /\ \E j \in DOMAIN blocked : blocked[j] = writes'[i].of
      /\ \A j \in DOMAIN writes : j # 1 => \E i \in DOMAIN writes' : writes'[i] = writes[j]
      /\ \A i \in DOMAIN blocked' : \E j \in DOMAIN blocked : blocked[j] = blocked'[i]
  BY WriteChannel
<1>2. /\ wm = Alt
      /\ wm' = IF r = Nil THEN wm ELSE At("leave", r, Nil)
      /\ UNCHANGED <<clients, id, fid, proc, rec, reads, late, lost>>
  BY DEF Write, Take, table, history
<1>3. \/ r = Nil /\ \A d \in Clients : Registered(d) => fid[d] # f
      \/ r \in Clients /\ Registered(r) /\ fid[r] = f
  <2> HIDE DEF f
  <2> QED
    BY Findfid DEF TInv
<1>4. m.of \in Clients /\ Noticed(f)
  BY <1>1 DEF Messages, Noticed
<1> HIDE DEF m, f, r
<1>5. \A d : Registered(d)' <=> Registered(d)
  BY <1>2 DEF Registered
<1>6. \A g : Noticed(g)' => Noticed(g)
  BY <1>1, <1>2 DEF Noticed
<1>7. \A g : Noticed(g) => Noticed(g)' \/ g = f
  BY <1>1, <1>2 DEF Noticed, f
<1>8. \A d \in Clients : Open(d)' <=> Open(d)
  BY <1>2 DEF Open
<1>9. SlotsMatchIds' /\ OnePerFid' /\ FidsApart'
  BY <1>2, <1>5, <1>8 DEF TInv, SlotsMatchIds, OnePerFid, FidsApart
<1>10. Used'
  BY <1>1, <1>2, <1>5 DEF TInv, Used
<1>11. Held'
  <2> SUFFICES ASSUME NEW d \in Clients, proc'[d] \in Holding, d \notin late', NEW g, g = fid'[d]
               PROVE  /\ \E q \in Clients : Registered(q)' /\ fid'[q] = g
                      /\ proc'[d] # "token" =>
                           rec'[d] \in Clients /\ (\E i \in DOMAIN clients' : clients'[i] = rec'[d])
                             /\ fid'[rec'[d]] = g
                      /\ ~Noticed(g)'
                      /\ wm'.at = "leave" => fid'[wm'.who] # g
    BY DEF Held, Registered, Noticed
  <2>1. proc[d] \in Holding /\ d \notin late /\ g = fid[d]
    BY <1>2
  <2>2. /\ \E q \in Clients : Registered(q) /\ fid[q] = g
        /\ proc[d] # "token" => rec[d] \in Clients /\ Registered(rec[d]) /\ fid[rec[d]] = g
        /\ ~Noticed(g)
    BY <2>1 DEF TInv, Held
  <2>3. g # f
    BY <1>4, <2>2
  <2>4. wm'.at = "leave" => fid'[wm'.who] # g
    BY <1>2, <1>3, <2>3
  <2>5. \E q \in Clients : Registered(q)' /\ fid'[q] = g
    BY <1>2, <1>5, <2>2
  <2> QED
    BY <1>2, <1>6, <2>2, <2>4, <2>5 DEF Registered
<1>12. NoneForgotten'
  <2> SUFFICES ASSUME NEW q \in Clients, Registered(q), NEW g, g = fid[q]
               PROVE  \/ \E d \in Clients : Open(d) /\ fid[d] = g
                      \/ Noticed(g)'
                      \/ wm' = At("leave", q, Nil)
                      \/ q \in lost
    BY <1>2, <1>5, <1>8 DEF NoneForgotten, Noticed
  <2>1. \/ \E d \in Clients : Open(d) /\ fid[d] = g
        \/ Noticed(g)
        \/ q \in lost
    BY <1>2 DEF TInv, NoneForgotten
  <2>2. CASE g = f
    <3>1. r \in Clients /\ r # Nil /\ Registered(r) /\ fid[r] = f
      BY <1>3, <2>2, ConstantsAssumption
    <3>2. r = q
      BY <2>2, <3>1 DEF TInv, OnePerFid
    <3> QED
      BY <1>2, <3>1, <3>2
  <2> QED
    BY <1>7, <2>1, <2>2
<1>13. wm'.at = "leave" => Registered(wm'.who)
  BY <1>2, <1>3
<1> QED
  BY <1>2, <1>5, <1>9, <1>10, <1>11, <1>12, <1>13 DEF TInv, Registered

\* The leave clears the slot the departing client's id names and no other.
LEMMA LeaveKeepsTable ==
  ASSUME MInv, ChannelType, TInv, Leave
  PROVE  TInv'
<1> USE DEF Refs
<1>0. PICK c \in Clients : c = wm.who
  BY DEF Leave, MInv, ControlType
<1> DEFINE k == id[c] + 1
<1>1. /\ wm.at = "leave" /\ wm.writer = Nil /\ Registered(c)
      /\ wm' = Alt /\ clients' = [clients EXCEPT ![k] = Nil]
      /\ UNCHANGED <<id, fid, proc, rec, reads, writes, blocked, late, lost>>
  BY <1>0 DEF Leave, delclient, TInv, channel, history, MInv, ControlType
<1>2. PICK i \in DOMAIN clients : clients[i] = c
  BY <1>1 DEF Registered
<1>3. clients \in Seq(Refs) /\ c # Nil
  BY <1>1, ConstantsAssumption DEF TInv
<1>4. i = k /\ k \in DOMAIN clients
  BY <1>1, <1>2, <1>3 DEF TInv, SlotsMatchIds
<1>5. \A j \in DOMAIN clients : clients[j] = c => j = k
  BY <1>1, <1>3, <1>4 DEF TInv, SlotsMatchIds
<1>6. /\ clients' \in Seq(Refs) /\ Len(clients') = Len(clients)
      /\ clients'[k] = Nil
      /\ \A j \in DOMAIN clients : j # k => clients'[j] = clients[j]
  BY <1>1, <1>3, <1>4
<1>7. ~Registered(c)'
  BY <1>3, <1>5, <1>6 DEF Registered
<1> HIDE DEF k
<1>8. \A d \in Clients : d # c => (Registered(d)' <=> Registered(d))
  BY <1>2, <1>3, <1>4, <1>6, ConstantsAssumption DEF Registered
<1>9. SlotsMatchIds'
  BY <1>1, <1>3, <1>6 DEF TInv, SlotsMatchIds
<1>10. \A d \in Clients : Registered(d)' => Registered(d) /\ d # c
  BY <1>7, <1>8
<1>11. OnePerFid' /\ FidsApart' /\ Used'
  <2>1. \A d \in Clients : Open(d)' <=> Open(d)
    BY <1>1 DEF Open
  <2>2. OnePerFid' /\ FidsApart'
    BY <1>1, <1>10, <2>1 DEF TInv, OnePerFid, FidsApart
  <2>3. Used'
    BY <1>1, <1>10 DEF TInv, Used
  <2> QED
    BY <2>2, <2>3
<1>12. \A g : Noticed(g)' <=> Noticed(g)
  BY <1>1 DEF Noticed
<1>13. Held'
  <2> SUFFICES ASSUME NEW d \in Clients, proc'[d] \in Holding, d \notin late', NEW g, g = fid'[d]
               PROVE  /\ \E q \in Clients : Registered(q)' /\ fid'[q] = g
                      /\ proc'[d] # "token" =>
                           rec'[d] \in Clients /\ (\E j \in DOMAIN clients' : clients'[j] = rec'[d])
                             /\ fid'[rec'[d]] = g
                      /\ ~Noticed(g)'
                      /\ wm'.at = "leave" => fid'[wm'.who] # g
    BY DEF Held, Registered, Noticed
  <2>1. proc[d] \in Holding /\ d \notin late /\ g = fid[d]
    BY <1>1
  <2>2. /\ \E q \in Clients : Registered(q) /\ fid[q] = g
        /\ proc[d] # "token" => rec[d] \in Clients /\ Registered(rec[d]) /\ fid[rec[d]] = g
        /\ ~Noticed(g)
        /\ fid[c] # g
    BY <1>0, <1>1, <2>1 DEF TInv, Held
  <2>3. \E q \in Clients : Registered(q)' /\ fid'[q] = g
    BY <1>1, <1>8, <2>2
  <2>4. proc'[d] # "token" => rec'[d] \in Clients /\ Registered(rec[d])' /\ fid'[rec'[d]] = g
    BY <1>1, <1>8, <2>2
  <2> QED
    BY <1>1, <1>12, <2>2, <2>3, <2>4 DEF Registered
<1>14. NoneForgotten'
  <2> SUFFICES ASSUME NEW q \in Clients, Registered(q)'
               PROVE  \/ \E d \in Clients : Open(d) /\ fid[d] = fid[q]
                      \/ Noticed(fid[q])
                      \/ q \in lost
    BY <1>1 DEF NoneForgotten, Noticed, Open
  <2>1. Registered(q) /\ wm # At("leave", q, Nil)
    BY <1>0, <1>10
  <2> QED
    BY <2>1 DEF TInv, NoneForgotten
<1> QED
  BY <1>1, <1>6, <1>9, <1>11, <1>13, <1>14 DEF TInv

\* Every step keeps the agreement of the table with ids, fids and connections.
LEMMA NextTInv == MInv /\ ChannelType /\ TInv /\ [Next]_vars => TInv'
<1> SUFFICES ASSUME MInv, ChannelType, TInv, [Next]_vars PROVE TInv'
  OBVIOUS
<1> DEFINE Named(c) == \/ c \in reads \/ (\E i \in DOMAIN writes : writes[i].of = c)
                       \/ (\E i \in DOMAIN blocked : blocked[i] = c)
<1>0. \A c \in Clients : Named(c) => proc[c] # "new"
  BY DEF TInv, Used
<1>1. ASSUME NEW c \in Clients, NEW f \in Fids, Connect(c, f) PROVE TInv'
  BY <1>1, ConnectKeepsTable
<1>2. ASSUME NEW c \in Clients, ReadToken(c) PROVE TInv'
  <2>1. /\ proc[c] = "open" /\ proc' = [proc EXCEPT ![c] = "reading"] /\ reads' = reads \cup {c}
        /\ UNCHANGED <<clients, id, fid, rec, writes, blocked, wm, late, lost>>
    BY <1>2 DEF ReadToken, table, history
  <2>2. \A d \in Clients : (d # c => proc'[d] = proc[d]) /\ proc'[c] = "reading"
    BY <2>1 DEF MInv, ControlType
  <2> QED
    BY <1>0, <2>1, <2>2, TableKept DEF Holding
<1>3. ASSUME NEW c \in Clients, WriteRequest(c) PROVE TInv'
  <2>1. /\ proc[c] = "running" /\ proc' = [proc EXCEPT ![c] = "writing"]
        /\ UNCHANGED <<clients, id, fid, rec, reads, wm, late, lost>>
    BY <1>3 DEF WriteRequest, table, history
  <2>2. \A d \in Clients : (d # c => proc'[d] = proc[d]) /\ proc'[c] = "writing"
    BY <2>1 DEF MInv, ControlType
  <2>3. CASE Len(writes) < Slots
    <3> DEFINE m == Data(c)
    <3>1. writes \in Seq(Messages) /\ m \in Messages /\ m.of = c /\ ~m.close
      BY MessageType DEF ChannelType
    <3> HIDE DEF m
    <3>2. writes' = Append(writes, m) /\ blocked' = blocked
      BY <1>3, <2>3 DEF WriteRequest, m
    <3>3. /\ \A i \in DOMAIN writes : \E j \in DOMAIN writes' : writes'[j] = writes[i]
          /\ \A j \in DOMAIN writes' : writes'[j] = m \/ \E i \in DOMAIN writes : writes[i] = writes'[j]
      <4>1. writes \in Seq(Messages) /\ m \in Messages
        BY <3>1
      <4>2. /\ \A i \in DOMAIN writes : \E j \in DOMAIN Append(writes, m) : Append(writes, m)[j] = writes[i]
            /\ \A j \in DOMAIN Append(writes, m) :
                 Append(writes, m)[j] = m \/ \E i \in DOMAIN writes : writes[i] = Append(writes, m)[j]
        BY <4>1, Appended
      <4> HIDE DEF Named
      <4> QED
        BY <3>2, <4>2, Zenon
    <3> QED
      BY <1>0, <2>1, <2>2, <3>1, <3>2, <3>3, TableKept, SMTT(40) DEF Holding
  <2>4. CASE ~(Len(writes) < Slots)
    <3>1. writes' = writes /\ blocked' = Append(blocked, c)
      BY <1>3, <2>4 DEF WriteRequest
    <3>2. \A i \in DOMAIN blocked' : blocked'[i] = c \/ \E j \in DOMAIN blocked : blocked[j] = blocked'[i]
      BY <3>1 DEF ChannelType
    <3> QED
      BY <1>0, <2>1, <2>2, <3>1, <3>2, TableKept DEF Holding
  <2> QED
    BY <2>3, <2>4
<1>4. ASSUME NEW c \in Clients, Reply(c) PROVE TInv'
  <2>1. /\ proc[c] = "asking" /\ proc' = [proc EXCEPT ![c] = "running"]
        /\ UNCHANGED <<clients, id, fid, rec, reads, writes, blocked, wm, late, lost>>
    BY <1>4 DEF Reply, table, channel, history
  <2>2. \A d \in Clients : (d # c => proc'[d] = proc[d]) /\ proc'[c] = "running"
    BY <2>1 DEF MInv, ControlType
  <2> QED
    BY <1>0, <2>1, <2>2, TableKept DEF Holding
<1>5. ASSUME NEW c \in Clients, Die(c) PROVE TInv'
  <2>1. /\ proc[c] \notin {"new", "gone"} /\ proc' = [proc EXCEPT ![c] = "closing"]
        /\ reads' \subseteq reads
        /\ UNCHANGED <<clients, id, fid, rec, writes, wm, late, lost>>
    BY <1>5 DEF Die, table, history
  <2>2. \A d \in Clients : (d # c => proc'[d] = proc[d]) /\ proc'[c] = "closing"
    BY <2>1 DEF MInv, ControlType
  <2>3. \A i \in DOMAIN blocked' : \E j \in DOMAIN blocked : blocked[j] = blocked'[i]
    BY <1>5, WithoutType DEF Die, ChannelType
  <2> QED
    BY <1>0, <2>1, <2>2, <2>3, TableKept DEF Holding
<1>6. ASSUME NEW c \in Clients, Close(c) PROVE TInv'
  BY <1>6, CloseKeepsTable
<1>7. ASSUME NEW c \in Clients, Read(c) PROVE TInv'
  BY <1>7, ReadFound, ReadRegisters
<1>8. ASSUME NEW c \in Clients, Wmreq(c) PROVE TInv'
  <2>1. /\ wm = Alt /\ proc[c] \in {"token", "running"}
        /\ UNCHANGED <<clients, id, fid, reads, writes, blocked, late, lost>>
    BY <1>8 DEF Wmreq, table, channel, history
  <2>2. CASE proc' = [proc EXCEPT ![c] = "refused"] /\ UNCHANGED <<rec, wm>>
    <3>1. \A d \in Clients : (d # c => proc'[d] = proc[d]) /\ proc'[c] = "refused"
      BY <2>2 DEF MInv, ControlType
    <3> QED
      BY <1>0, <2>1, <2>2, <3>1, TableKept DEF Holding
  <2>3. CASE /\ findfid(fid[c]) # Nil
             /\ proc' = [proc EXCEPT ![c] = "asking"]
             /\ rec' = [rec EXCEPT ![c] = findfid(fid[c])]
             /\ wm' = At("join", findfid(fid[c]), Nil)
    <3>1. PICK r \in Clients : r = findfid(fid[c]) /\ Registered(r) /\ fid[r] = fid[c]
      BY <2>3, Findfid DEF TInv
    <3>2. \A d \in Clients : (d # c => proc'[d] = proc[d] /\ rec'[d] = rec[d])
                             /\ proc'[c] = "asking" /\ rec'[c] = r
      BY <2>3, <3>1 DEF MInv, ControlType
    <3>3. wm.at # "leave" /\ wm'.at # "leave"
      BY <2>1, <2>3
    <3> QED
      BY <1>0, <2>1, <3>1, <3>2, <3>3, TableKept DEF Holding
  <2> QED
    BY <1>8, <2>2, <2>3 DEF Wmreq
<1>9. CASE Write
  <2>1. CASE Head(writes).close
    BY <1>9, <2>1, NoticeTaken
  <2>2. CASE ~Head(writes).close
    <3> DEFINE m == Head(writes)
    <3>1. /\ m \in Messages /\ writes[1] = m /\ ~m.close
          /\ \A i \in DOMAIN writes' :
               \/ \E j \in DOMAIN writes : writes[j] = writes'[i]
               \/ ~writes'[i].close /\ \E j \in DOMAIN blocked : blocked[j] = writes'[i].of
          /\ \A j \in DOMAIN writes : j # 1 => \E i \in DOMAIN writes' : writes'[i] = writes[j]
          /\ \A i \in DOMAIN blocked' : \E j \in DOMAIN blocked : blocked[j] = blocked'[i]
      BY <1>9, <2>2, WriteChannel
    <3>2. /\ wm = Alt /\ Take(m, findfid(fid[m.of]))
          /\ UNCHANGED <<clients, id, fid, rec, reads, late, lost>>
      BY <1>9 DEF Write, table, history
    <3> HIDE DEF m
    <3>3. /\ wm' = Alt \/ wm'.at = "req"
          /\ \/ proc' = proc
             \/ proc' = [proc EXCEPT ![m.of] = IF proc[m.of] = "writing" THEN "running" ELSE proc[m.of]]
      BY <3>1, <3>2 DEF Take
    <3>4. \A d \in Clients : proc'[d] = proc[d] \/ (proc[d] = "writing" /\ proc'[d] = "running")
      BY <3>3 DEF MInv, ControlType
    <3>5. wm.at # "leave" /\ wm'.at # "leave"
      BY <3>2, <3>3
    <3>6. /\ \A i \in DOMAIN writes' : writes'[i].close => \E j \in DOMAIN writes : writes[j] = writes'[i]
          /\ \A j \in DOMAIN writes : writes[j].close => \E i \in DOMAIN writes' : writes'[i] = writes[j]
      BY <3>1
    <3>7. \A c \in Clients : Named(c)' => Named(c)
      BY <3>1, <3>2
    <3> QED
      BY <1>0, <3>2, <3>4, <3>5, <3>6, <3>7, TableKept DEF Holding
  <2> QED
    BY <2>1, <2>2
<1>10. CASE Join \/ Spawn \/ Req \/ Greet \/ HandleLeave \/ Quiet \/ UNCHANGED vars
  <2>1. /\ UNCHANGED <<clients, id, fid, proc, rec, reads, writes, blocked, late, lost>>
        /\ wm.at = "leave" \/ wm'.at = "leave" => wm' = wm
    BY <1>10 DEF Join, Spawn, Req, Greet, HandleLeave, Quiet, vars, table, channel, history
  <2> QED
    BY <1>0, <2>1, TableKept
<1>11. CASE HandleRequest
  <2>1. PICK w \in Refs : w = mgr.writer
    BY DEF MInv, ControlType
  <2>2. /\ proc' = [proc EXCEPT ![w] = IF proc[w] = "writing" THEN "running" ELSE proc[w]]
        /\ UNCHANGED <<clients, id, fid, rec, reads, writes, blocked, wm, late, lost>>
    BY <1>11, <2>1 DEF HandleRequest, table, channel, history
  <2>3. \A d \in Clients : proc'[d] = proc[d] \/ (proc[d] = "writing" /\ proc'[d] = "running")
    BY <2>2 DEF MInv, ControlType
  <2> QED
    BY <1>0, <2>2, <2>3, TableKept DEF Holding
<1>12. CASE Leave
  BY <1>12, LeaveKeepsTable
<1> QED
  BY <1>1, <1>2, <1>3, <1>4, <1>5, <1>6, <1>7, <1>8, <1>9, <1>10, <1>11, <1>12 DEF Next

\* What all theorems about the window server rest on.
IInv == MInv /\ ChannelType /\ TInv

\* It holds at the start and is kept by every step.
LEMMA Inductive == (Init => IInv) /\ (IInv /\ [Next]_vars => IInv')
<1>1. Init => IInv
  BY InitMInv, InitTInv DEF IInv
<1>2. IInv /\ [Next]_vars => IInv'
  BY NextMInv, NextChannelType, NextTInv DEF IInv, TInv
<1> QED
  BY <1>1, <1>2

\* Every variable of wm and of the two sides it joins keeps its type; in
\* particular an id is an index of the table.
THEOREM TypeCorrect == Spec => []TypeOK
<1>1. IInv => TypeOK
  BY DEF IInv, MInv, ChannelType, TInv, ControlType, TypeOK, Minders
<1> QED
  BY <1>1, Inductive, PTL DEF Spec

\* Exactly the members have a childminder, and never two: wm starts one for
\* whoever joins and the manager stops it when the client leaves.
THEOREM MindersAlwaysMatch == Spec => []MindersMatchMembers
<1>1. IInv => MindersMatchMembers
  BY DEF IInv, MInv
<1> QED
  BY <1>1, Inductive, PTL DEF Spec

\* The table of wm agrees with ids, fids and connections however clients come
\* and go and fids come back: delclient frees the leaver's slot and no other,
\* whoever has a token is found unless its read overtook an older notice, and
\* nobody stays for ever but those whose notice was lost.
THEOREM TableAlwaysAgrees == Spec => []TableAgrees
<1>1. IInv => TableAgrees
  <2> SUFFICES ASSUME IInv PROVE HoldersFound
    BY DEF IInv, TInv, TableAgrees
  <2>1. TInv /\ Nil \notin Clients
    BY ConstantsAssumption DEF IInv
  <2>2. ASSUME NEW c \in Clients, proc[c] \in Holding, c \notin late
        PROVE  /\ findfid(fid[c]) # Nil
               /\ proc[c] # "token" => findfid(fid[c]) = rec[c]
    <3>1. PICK r \in Clients : Registered(r) /\ fid[r] = fid[c]
      BY <2>1, <2>2 DEF TInv, Held
    <3>2. findfid(fid[c]) = r
      BY <2>1, <3>1, FindThe
    <3>3. proc[c] # "token" => rec[c] \in Clients /\ Registered(rec[c]) /\ fid[rec[c]] = fid[c]
      BY <2>1, <2>2 DEF TInv, Held
    <3>4. proc[c] # "token" => rec[c] = r
      BY <2>1, <3>1, <3>3 DEF TInv, OnePerFid
    <3> QED
      BY <2>1, <3>2, <3>4
  <2> QED
    BY <2>2 DEF HoldersFound, Holding
<1> QED
  BY <1>1, Inductive, PTL DEF Spec

=============================================================================
