---------------------------- MODULE Alert_proofs ----------------------------
(***************************************************************************)
(* Proofs about Alert, for any numbers of watchers, ringers and commands.   *)
(***************************************************************************)
EXTENDS Alert, SequenceTheorems, FiniteSetTheorems, TLAPS

(***************************************************************************)
(* Lists of statements                                                      *)
(***************************************************************************)

\* A message of ctlproc that must enter the registry before the reader gets it.
IsStatus(m) == m.kind \notin {"exit", "nil"}

\* A list of statements in which every status is sent to the registry and
\* directly afterwards to the reader, and the messages of a shutdown are
\* followed by the exit of ctlproc.
WellOrdered(s) ==
    /\ \A i \in 2..Len(s) :
          s[i].op = "out" /\ IsStatus(s[i].msg) => s[i-1] = RegOp(s[i].msg)
    /\ \A i \in 1..Len(s) :
          s[i].op = "reg" => /\ IsStatus(s[i].msg)
                             /\ i + 1 \in 1..Len(s)
                             /\ s[i+1] = OutOp(s[i].msg)
    /\ \A i \in 1..Len(s) :
          s[i].op = "out" /\ ~IsStatus(s[i].msg) =>
              \E j \in (i+1)..Len(s) : s[j].op = "exit"

\* A list that can be put behind any other one.
Closed(s) ==
    /\ s \in Seq(Ops)
    /\ WellOrdered(s)
    /\ s # <<>> => ~(s[1].op = "out" /\ IsStatus(s[1].msg))

\* The statements alert.b is made of are statements.
LEMMA OpsOK ==
    /\ \A c \in Cells : KillOp(c) \in Ops /\ ClearOp(c) \in Ops
    /\ \A w \in Watchers : SpawnOp(w) \in Ops
    /\ RingOp \in Ops /\ ExitOp \in Ops
    /\ \A m \in Message : RegOp(m) \in Ops /\ OutOp(m) \in Ops
    /\ \A p \in Callers : ReplyOp(p) \in Ops
BY DEF KillOp, ClearOp, SpawnOp, RingOp, ExitOp, RegOp, OutOp, ReplyOp, Ops

\* Concatenation keeps lists closed.
LEMMA ClosedConcat ==
    ASSUME NEW s, NEW t, Closed(s), Closed(t)
    PROVE  Closed(s \o t)
<1>1. s \in Seq(Ops) /\ t \in Seq(Ops)
  BY DEF Closed
<1> DEFINE u == s \o t
           m == Len(s)
           n == Len(t)
<1>2. /\ u \in Seq(Ops)
      /\ Len(u) = m + n
      /\ \A i \in 1 .. m + n : u[i] = IF i <= m THEN s[i] ELSE t[i - m]
  BY <1>1, ConcatProperties
<1>3. m \in Nat /\ n \in Nat
  BY <1>1
<1> HIDE DEF u
<1>a. \A i \in 1..m : u[i] = s[i] /\ i \in 1..Len(u)
  BY <1>2, <1>3
<1>b. \A i \in 1..n : u[m + i] = t[i] /\ m + i \in 1..Len(u)
  <2> TAKE i \in 1..n
  <2>1. m + i \in 1..m + n /\ ~(m + i <= m) /\ (m + i) - m = i
    BY <1>3
  <2> QED BY <1>2, <2>1
<1>c. \A i \in 1..Len(u) : i \in 1..m \/ \E k \in 1..n : i = m + k
  <2> TAKE i \in 1..Len(u)
  <2>1. i \in 1..m \/ (i - m \in 1..n /\ i = m + (i - m))
    BY <1>2, <1>3
  <2> QED BY <2>1
<1>s. /\ \A i \in 2..m : s[i].op = "out" /\ IsStatus(s[i].msg) => s[i-1] = RegOp(s[i].msg)
      /\ \A i \in 1..m : s[i].op = "reg" =>
            IsStatus(s[i].msg) /\ i + 1 \in 1..m /\ s[i+1] = OutOp(s[i].msg)
      /\ \A i \in 1..m : s[i].op = "out" /\ ~IsStatus(s[i].msg) =>
            \E j \in (i+1)..m : s[j].op = "exit"
  BY Zenon DEF Closed, WellOrdered
<1>t. /\ \A i \in 2..n : t[i].op = "out" /\ IsStatus(t[i].msg) => t[i-1] = RegOp(t[i].msg)
      /\ \A i \in 1..n : t[i].op = "reg" =>
            IsStatus(t[i].msg) /\ i + 1 \in 1..n /\ t[i+1] = OutOp(t[i].msg)
      /\ \A i \in 1..n : t[i].op = "out" /\ ~IsStatus(t[i].msg) =>
            \E j \in (i+1)..n : t[j].op = "exit"
  BY Zenon DEF Closed, WellOrdered
<1>h. n > 0 => ~(t[1].op = "out" /\ IsStatus(t[1].msg))
  <2>1. n > 0 => t # <<>>
    BY <1>1
  <2> QED BY <2>1, Zenon DEF Closed
<1> HIDE DEF m, n
<1>4. ASSUME NEW i \in 2..Len(u), u[i].op = "out", IsStatus(u[i].msg)
      PROVE  u[i-1] = RegOp(u[i].msg)
  <2>1. CASE i \in 1..m
    <3>1. i - 1 \in 1..m /\ i \in 2..m
      BY <1>3, <2>1
    <3>2. u[i] = s[i] /\ u[i-1] = s[i-1]
      BY <1>a, <3>1, <2>1
    <3> QED BY <1>s, <1>4, <3>1, <3>2
  <2>2. ASSUME NEW k \in 1..n, i = m + k PROVE u[i-1] = RegOp(u[i].msg)
    <3>1. u[i] = t[k]
      BY <1>b, <2>2
    <3>2. k # 1
      BY <1>h, <1>4, <3>1, <1>3
    <3>3. k \in 2..n /\ k - 1 \in 1..n /\ i - 1 = m + (k - 1)
      BY <1>3, <2>2, <3>2
    <3>4. u[i-1] = t[k-1]
      BY <1>b, <3>3
    <3> QED BY <1>t, <1>4, <3>1, <3>3, <3>4
  <2>3. i \in 1..Len(u)
    BY <1>2, <1>3
  <2> QED BY <1>c, <2>1, <2>2, <2>3
<1>5. ASSUME NEW i \in 1..Len(u), u[i].op = "reg"
      PROVE  /\ IsStatus(u[i].msg)
             /\ i + 1 \in 1..Len(u)
             /\ u[i+1] = OutOp(u[i].msg)
  <2>1. CASE i \in 1..m
    <3>1. u[i] = s[i]
      BY <1>a, <2>1
    <3>2. IsStatus(s[i].msg) /\ i + 1 \in 1..m /\ s[i+1] = OutOp(s[i].msg)
      BY <1>s, <1>5, <2>1, <3>1
    <3> QED BY <1>a, <3>1, <3>2
  <2>2. ASSUME NEW k \in 1..n, i = m + k
        PROVE  IsStatus(u[i].msg) /\ i + 1 \in 1..Len(u) /\ u[i+1] = OutOp(u[i].msg)
    <3>1. u[i] = t[k]
      BY <1>b, <2>2
    <3>2. IsStatus(t[k].msg) /\ k + 1 \in 1..n /\ t[k+1] = OutOp(t[k].msg)
      BY <1>t, <1>5, <3>1
    <3>3. i + 1 = m + (k + 1)
      BY <1>3, <2>2
    <3> QED BY <1>b, <3>1, <3>2, <3>3
  <2> QED BY <1>c, <2>1, <2>2
<1>6. ASSUME NEW i \in 1..Len(u), u[i].op = "out", ~IsStatus(u[i].msg)
      PROVE  \E j \in (i+1)..Len(u) : u[j].op = "exit"
  <2>1. CASE i \in 1..m
    <3>1. PICK j \in (i+1)..m : s[j].op = "exit"
      BY <1>a, <1>s, <1>6, <2>1
    <3>2. j \in 1..m /\ j \in (i+1)..Len(u)
      BY <1>2, <1>3, <2>1
    <3> QED BY <1>a, <3>1, <3>2
  <2>2. ASSUME NEW k \in 1..n, i = m + k
        PROVE  \E j \in (i+1)..Len(u) : u[j].op = "exit"
    <3>1. PICK j \in (k+1)..n : t[j].op = "exit"
      BY <1>b, <1>t, <1>6, <2>2
    <3>2. j \in 1..n /\ m + j \in (i+1)..Len(u)
      BY <1>2, <1>3, <2>2
    <3>3. u[m + j].op = "exit"
      BY <1>b, <3>1, <3>2
    <3> QED BY <3>2, <3>3
  <2> QED BY <1>c, <2>1, <2>2
<1>7. ASSUME u # <<>> PROVE ~(u[1].op = "out" /\ IsStatus(u[1].msg))
  <2>1. CASE s = <<>>
    <3>1. u = t
      BY <1>1, <2>1, ConcatEmptySeq DEF u
    <3> QED BY <1>7, <3>1 DEF Closed
  <2>2. CASE s # <<>>
    <3>1. 1 \in 1..m
      BY <1>1, <2>2 DEF m
    <3>2. u[1] = s[1]
      BY <1>a, <3>1
    <3> QED BY <2>2, <3>2 DEF Closed
  <2> QED BY <2>1, <2>2
<1> QED BY <1>2, <1>4, <1>5, <1>6, <1>7 DEF Closed, WellOrdered, u

\* A list of statements that send nothing is closed.
LEMMA ClosedSilent ==
    ASSUME NEW s \in Seq(Ops), \A i \in 1..Len(s) : s[i].op \notin {"reg", "out"}
    PROVE  Closed(s)
<1>1. \A i \in 2..Len(s) : i \in 1..Len(s)
  OBVIOUS
<1>2. s # <<>> => 1 \in 1..Len(s)
  OBVIOUS
<1> QED BY <1>1, <1>2 DEF Closed, WellOrdered

\* A block of one operation that sends nothing is closed.
LEMMA ClosedSingle ==
    ASSUME NEW o \in Ops, o.op \notin {"reg", "out"}
    PROVE  Closed(<<o>>)
<1> DEFINE s == <<o>>
<1>1. s \in Seq(Ops) /\ Len(s) = 1 /\ s[1] = o
  OBVIOUS
<1> HIDE DEF s
<1>2. Closed(s)
  BY <1>1, ClosedSilent
<1> QED BY <1>2 DEF s

\* The empty block, what a command that does nothing leaves to run, is closed.
LEMMA ClosedEmpty == Closed(<<>>)
BY DEF Closed, WellOrdered

\* status sends to the registry and then to the reader.
LEMMA ClosedStatus ==
    ASSUME NEW m \in Message, IsStatus(m)
    PROVE  Closed(status(m))
<1> DEFINE s == <<RegOp(m), OutOp(m)>>
<1>1. RegOp(m) \in Ops /\ OutOp(m) \in Ops
  BY OpsOK
<1>2. s \in Seq(Ops) /\ Len(s) = 2 /\ s[1] = RegOp(m) /\ s[2] = OutOp(m)
  BY <1>1
<1> HIDE DEF s
<1>3. \A i \in 2..Len(s) : i = 2
  BY <1>2
<1>4. \A i \in 1..Len(s) : i = 1 \/ i = 2
  BY <1>2
<1>5. RegOp(m).op = "reg" /\ RegOp(m).msg = m /\ OutOp(m).op = "out" /\ OutOp(m).msg = m
  BY DEF RegOp, OutOp
<1>6. WellOrdered(s)
  <2>1. s[2-1] = RegOp(s[2].msg)
    BY <1>2, <1>5
  <2>2. 1 + 1 \in 1..Len(s) /\ s[1+1] = OutOp(s[1].msg)
    BY <1>2, <1>5
  <2>3. ~(s[2].op = "reg") /\ ~(s[1].op = "out")
    BY <1>2, <1>5
  <2> QED BY <1>2, <1>3, <1>4, <1>5, <2>1, <2>2, <2>3 DEF WellOrdered
<1>7. Closed(s)
  BY <1>2, <1>5, <1>6 DEF Closed
<1> QED BY <1>7 DEF s, status

\* Killing, spawning and answering send no message of ctlproc.
LEMMA ClosedHelpers ==
    /\ \A to \in Callers \cup {None} : Closed(Reply(to))
    /\ Closed(ringproc_kill)
    /\ Closed(watcher_kill)
    /\ \A w \in Watchers : Closed(watcher_spawn(w))
<1>1. /\ \A c \in Cells : Closed(<<KillOp(c)>>) /\ Closed(<<ClearOp(c)>>)
      /\ \A w \in Watchers : Closed(<<SpawnOp(w)>>)
      /\ \A p \in Callers : Closed(<<ReplyOp(p)>>)
  <2>1. /\ \A c \in Cells : KillOp(c).op = "kill" /\ ClearOp(c).op = "clear"
        /\ \A w \in Watchers : SpawnOp(w).op = "watch"
        /\ \A p \in Callers : ReplyOp(p).op = "reply"
    BY DEF KillOp, ClearOp, SpawnOp, ReplyOp
  <2> QED BY <2>1, OpsOK, ClosedSingle
<1>2. ASSUME NEW to \in Callers \cup {None} PROVE Closed(Reply(to))
  BY <1>1, ClosedEmpty DEF Reply
<1>3. ASSUME NEW c \in Cells PROVE Closed(<<KillOp(c), ClearOp(c)>>)
  <2>1. <<KillOp(c), ClearOp(c)>> = <<KillOp(c)>> \o <<ClearOp(c)>>
    OBVIOUS
  <2>2. Closed(<<KillOp(c)>> \o <<ClearOp(c)>>)
    BY <1>1, ClosedConcat
  <2> QED BY <2>1, <2>2
<1>4. "ring" \in Cells /\ "watcher" \in Cells
  BY DEF Cells
<1>5. Closed(ringproc_kill)
  BY <1>3, <1>4 DEF ringproc_kill
<1>6. Closed(watcher_kill)
  BY <1>3, <1>4, <1>5, ClosedConcat DEF watcher_kill
<1>7. ASSUME NEW w \in Watchers PROVE Closed(watcher_spawn(w))
  BY <1>1, <1>6, ClosedConcat DEF watcher_spawn
<1> QED BY <1>2, <1>5, <1>6, <1>7

\* The messages of ctlproc.
LEMMA MsgOK ==
    /\ \A k \in Kinds : Msg(k) \in Message /\ Msg(k).kind = k
    /\ watchertype \in Watchers \cup {None} =>
          \A k \in Kinds : Status(k) \in Message /\ Status(k).kind = k
BY DEF Msg, Status, Message

\* The last three statements of the exit branch.
LEMMA ClosedGoodbye == Closed(<<OutOp(Msg("exit")), OutOp(Msg("nil")), ExitOp>>)
<1> DEFINE a == OutOp(Msg("exit"))
           b == OutOp(Msg("nil"))
           s == <<a, b, ExitOp>>
<1>1. a \in Ops /\ b \in Ops /\ ExitOp \in Ops
  BY OpsOK, MsgOK DEF Kinds
<1>2. a.op = "out" /\ ~IsStatus(a.msg) /\ b.op = "out" /\ ~IsStatus(b.msg)
  BY DEF OutOp, Msg, IsStatus
<1>3. ExitOp.op = "exit"
  BY DEF ExitOp
<1> HIDE DEF a, b
<1>4. s \in Seq(Ops) /\ Len(s) = 3 /\ s[1] = a /\ s[2] = b /\ s[3] = ExitOp
  BY <1>1
<1> HIDE DEF s
<1>5. \A i \in 1..Len(s) : i = 1 \/ i = 2 \/ i = 3
  BY <1>4
<1>6. \A i \in 1..Len(s) : ~(s[i].op = "out" /\ IsStatus(s[i].msg)) /\ s[i].op # "reg"
  BY <1>2, <1>3, <1>4, <1>5
<1>7. \A i \in 1..Len(s) : s[i].op = "out" => 3 \in (i+1)..Len(s)
  BY <1>2, <1>3, <1>4, <1>5
<1>8. \A i \in 2..Len(s) : i \in 1..Len(s)
  BY <1>4
<1>9. 1 \in 1..Len(s)
  BY <1>4
<1>10. WellOrdered(s)
  BY <1>3, <1>4, <1>6, <1>7, <1>8 DEF WellOrdered
<1>11. Closed(s)
  BY <1>4, <1>6, <1>9, <1>10 DEF Closed
<1> QED BY <1>11 DEF s, a, b

\* The exit branch of ctlproc.
LEMMA ClosedExitOps ==
    ASSUME NEW to \in Callers \cup {None}
    PROVE  Closed(ExitOps(to))
<1> DEFINE k == ExitKills
<1>1. /\ k \in Seq(Ops) /\ Len(k) = 5
      /\ \A i \in 1..5 : k[i].op = "kill"
  <2>1. {"heartbeat", "registry", "ctlfile", "watcher", "ring"} = Cells
    BY DEF Cells
  <2>2. \A c \in Cells : KillOp(c) \in Ops
    BY OpsOK
  <2>3. k \in Seq(Ops) /\ Len(k) = 5
    BY <2>1, <2>2 DEF ExitKills
  <2>4. \A i \in 1..5 : \E c \in Cells : k[i] = KillOp(c)
    BY <2>1 DEF ExitKills
  <2> QED BY <2>3, <2>4 DEF KillOp
<1> HIDE DEF k
<1>2. Closed(k)
  BY <1>1, ClosedSilent
<1>3. Closed(Reply(to) \o k)
  BY <1>2, ClosedHelpers, ClosedConcat
<1>4. Closed((Reply(to) \o k) \o <<OutOp(Msg("exit")), OutOp(Msg("nil")), ExitOp>>)
  BY <1>3, ClosedGoodbye, ClosedConcat
<1> QED BY <1>4 DEF ExitOps, k

\* Whatever ctlproc is told, it orders its messages well.
LEMMA ClosedCommandOps ==
    ASSUME NEW c, NEW to \in Callers \cup {None}, NEW w, c = "on" => w \in Watchers
    PROVE  Closed(CommandOps(c, to, w))
<1>1. Closed(status(Msg("off"))) /\ Closed(status(Msg("pname")))
  BY MsgOK, ClosedStatus DEF Kinds, IsStatus
<1>2. Closed(Reply(to))
  BY ClosedHelpers
<1>3. CASE c = "exit"
  BY <1>3, ClosedExitOps DEF CommandOps
<1>4. CASE c = "on"
  BY <1>2, <1>4, ClosedHelpers, ClosedConcat DEF CommandOps
<1>5. CASE c = "off"
  <2>1. Closed(watcher_kill \o status(Msg("off")))
    BY <1>1, ClosedHelpers, ClosedConcat
  <2>2. Closed((watcher_kill \o status(Msg("off"))) \o Reply(to))
    BY <1>2, <2>1, ClosedConcat
  <2> QED BY <1>5, <2>2 DEF CommandOps
<1>6. CASE c = "pname"
  BY <1>1, <1>2, <1>6, ClosedConcat DEF CommandOps
<1>7. CASE c \notin {"exit", "on", "off", "pname"}
  BY <1>2, <1>7 DEF CommandOps
<1> QED BY <1>3, <1>4, <1>5, <1>6, <1>7

\* So it does with the reports of a watcher.
LEMMA ClosedReportOps ==
    ASSUME NEW state \in {-1, 0, 1}, watchertype \in Watchers \cup {None}
    PROVE  Closed(ReportOps(state))
<1>1. Closed(status(Msg("off"))) /\ Closed(status(Status("running")))
      /\ Closed(status(Status("ringing")))
  BY MsgOK, ClosedStatus DEF Kinds, IsStatus
<1>2. Closed(<<RingOp>>)
  BY OpsOK, ClosedSingle DEF RingOp
<1>3. CASE state = -1
  BY <1>1, <1>3, ClosedHelpers, ClosedConcat DEF ReportOps
<1>4. CASE state = 0
  BY <1>1, <1>4, ClosedHelpers, ClosedConcat DEF ReportOps
<1>5. CASE state = 1
  BY <1>1, <1>2, <1>5, ClosedConcat DEF ReportOps
<1> QED BY <1>3, <1>4, <1>5

(***************************************************************************)
(* Types                                                                    *)
(***************************************************************************)

\* TypeOK made inductive: an "on" names its watcher, and a watcher that
\* scans or reports has reported state 0 before.
TInv ==
    /\ TypeOK
    /\ \A p \in Callers : cmd[p].name = "on" => cmd[p].who \in Watchers
    /\ \A w \in Watchers : pc[w] \in {"watch", "report"} => wstate[w] \in {0, 1}

\* The components of a statement.
LEMMA OpFields ==
    ASSUME NEW o \in Ops
    PROVE  /\ o.op \in {"kill", "clear"} => o.cell \in Cells
           /\ o.op = "watch" => o.who \in Watchers
           /\ o.op \in {"reg", "out"} => o.msg \in Message
           /\ o.op = "reply" => o.to \in Callers
BY DEF Ops

\* Executing a statement removes it from the list.
LEMMA Pop ==
    ASSUME TypeOK, NEW k, Executing(k)
    PROVE  Head(todo) \in Ops /\ Head(todo).op = k /\ Tail(todo) \in Seq(Ops)
<1>1. todo \in Seq(Ops) /\ todo # <<>> /\ Head(todo).op = k
  BY DEF TypeOK, Executing
<1> QED BY <1>1

\* The started program satisfies the typing invariant.
LEMMA InitTInv == Init => TInv
<1> SUFFICES ASSUME Init PROVE TInv
  OBVIOUS
<1>1. pc \in [Procs -> Places]
  BY DEF Init, Places
<1>2. todo \in Seq(Ops)
  BY DEF Init
<1>3. pid \in [Cells -> Procs \cup {None}] /\ \A c \in Cells : pid[c] \in ProcsOf(c) \cup {None}
  BY DEF Init
<1>4. view \in [registry : Message, reader : Message]
  BY MsgOK DEF Init, Kinds
<1>5. cmd \in [Callers -> [name : AllCmds \cup {"none"}, wait : BOOLEAN, who : Watchers \cup {None}]]
  BY DEF Init, NoCmd
<1>6. issued \in 0..MaxCmds
  BY ConstantsAssumption DEF Init
<1>7. TypeOK
  BY <1>1, <1>2, <1>3, <1>4, <1>5, <1>6 DEF Init, TypeOK
<1>8. \A p \in Callers : cmd[p].name # "on"
  BY DEF Init, NoCmd
<1>9. \A w \in Watchers : pc[w] \notin {"watch", "report"}
  BY DEF Init, Procs, Static, Callers
<1> QED BY <1>7, <1>8, <1>9 DEF TInv

\* The statements of ctlproc keep the types.
LEMMA StatementTInv == TInv /\ CtlStatement => TInv'
<1> SUFFICES ASSUME TInv, CtlStatement PROVE TInv'
  OBVIOUS
<1> USE DEF TInv, TypeOK
<1>1. CASE Kill
  <2> DEFINE c == Head(todo).cell
  <2>1. c \in Cells /\ Tail(todo) \in Seq(Ops)
    BY <1>1, Pop, OpFields DEF Kill
  <2>2. /\ pc' = [p \in Procs |-> IF p = pid[c] THEN "dead" ELSE pc[p]]
        /\ raced' = raced \cup {p \in ProcsOf(c) : pc[p] = "spawned"}
        /\ todo' = Tail(todo)
        /\ UNCHANGED <<ctlproc, cmd, wstate, watchertype, pid, view, issued>>
    BY <1>1 DEF Kill
  <2>3. pc' \in [Procs -> Places]
    BY <2>2 DEF Places
  <2>4. ProcsOf(c) \subseteq Procs
    BY <2>1 DEF ProcsOf, Cells, Procs, Static, Callers
  <2>5. raced' \subseteq Procs
    BY <2>2, <2>4
  <2>6. \A w \in Watchers : pc'[w] \in {"watch", "report"} => wstate[w] \in {0, 1}
    BY <2>2 DEF Procs
  <2> QED BY <2>1, <2>2, <2>3, <2>5, <2>6
<1>2. CASE Clear
  <2> DEFINE c == Head(todo).cell
  <2>1. c \in Cells /\ Tail(todo) \in Seq(Ops)
    BY <1>2, Pop, OpFields DEF Clear
  <2>2. /\ pid' = [pid EXCEPT ![c] = None]
        /\ watchertype' = (IF c = "watcher" THEN None ELSE watchertype)
        /\ todo' = Tail(todo)
        /\ UNCHANGED <<ctlproc, pc, cmd, wstate, view, issued, raced>>
    BY <1>2 DEF Clear
  <2> QED BY <2>1, <2>2
<1>3. CASE SpawnWatcher
  <2> DEFINE w == Head(todo).who
  <2>1. w \in Watchers /\ Tail(todo) \in Seq(Ops)
    BY <1>3, Pop, OpFields DEF SpawnWatcher
  <2>2. /\ watchertype' = w
        /\ pc' = [pc EXCEPT ![w] = "spawned"]
        /\ todo' = Tail(todo)
        /\ UNCHANGED <<ctlproc, cmd, wstate, pid, view, issued, raced>>
    BY <1>3 DEF SpawnWatcher
  <2>3. pc' \in [Procs -> Places]
    BY <2>2 DEF Places
  <2>4. \A v \in Watchers : pc'[v] \in {"watch", "report"} => wstate[v] \in {0, 1}
    BY <2>2 DEF Procs
  <2> QED BY <2>1, <2>2, <2>3, <2>4
<1>4. CASE ringproc_spawn
  <2>1. Tail(todo) \in Seq(Ops)
    BY <1>4, Pop DEF ringproc_spawn
  <2>2. PICK r \in Ringers : pc' = [pc EXCEPT ![r] = "spawned"]
    BY <1>4 DEF ringproc_spawn
  <2>3. pc' \in [Procs -> Places]
    BY <2>2 DEF Places
  <2>4. \A v \in Watchers : pc'[v] \in {"watch", "report"} => wstate[v] \in {0, 1}
    BY <2>2 DEF Procs
  <2> QED BY <1>4, <2>1, <2>3, <2>4 DEF ringproc_spawn
<1>5. CASE SendRegistry
  <2>1. Head(todo).msg \in Message /\ Tail(todo) \in Seq(Ops)
    BY <1>5, Pop, OpFields DEF SendRegistry
  <2>2. PICK next \in {"recv", "die"} : pc' = [pc EXCEPT !["registry"] = next]
    BY <1>5 DEF SendRegistry, RegistryNext
  <2>3. pc' \in [Procs -> Places]
    BY <2>2 DEF Places
  <2>4. \A v \in Watchers : pc'[v] \in {"watch", "report"} => wstate[v] \in {0, 1}
    BY <2>2 DEF Procs
  <2>5. view' \in [registry : Message, reader : Message]
    BY <1>5, <2>1 DEF SendRegistry
  <2> QED BY <1>5, <2>1, <2>3, <2>4, <2>5 DEF SendRegistry
<1>6. CASE SendOut
  <2>1. Head(todo).msg \in Message /\ Tail(todo) \in Seq(Ops)
    BY <1>6, Pop, OpFields DEF SendOut
  <2>2. PICK next \in {"dead", "recv", "die"} : pc' = [pc EXCEPT !["reader"] = next]
    BY <1>6 DEF SendOut, ReaderNext
  <2>3. pc' \in [Procs -> Places]
    BY <2>2 DEF Places
  <2>4. \A v \in Watchers : pc'[v] \in {"watch", "report"} => wstate[v] \in {0, 1}
    BY <2>2 DEF Procs
  <2>5. view' \in [registry : Message, reader : Message]
    BY <1>6, <2>1 DEF SendOut
  <2> QED BY <1>6, <2>1, <2>3, <2>4, <2>5 DEF SendOut
<1>7. CASE SendReply
  <2>1. Tail(todo) \in Seq(Ops)
    BY <1>7, Pop DEF SendReply
  <2>2. PICK next \in {"answer", "serve"} : pc' = [pc EXCEPT ![Head(todo).to] = next]
    BY <1>7 DEF SendReply
  <2>3. pc' \in [Procs -> Places]
    BY <2>2 DEF Places
  <2>4. \A v \in Watchers : pc'[v] \in {"watch", "report"} => wstate[v] \in {0, 1}
    BY <2>2 DEF Procs
  <2> QED BY <1>7, <2>1, <2>3, <2>4 DEF SendReply
<1>8. CASE Exit
  <2>1. Tail(todo) \in Seq(Ops)
    BY <1>8, Pop DEF Exit
  <2> QED BY <1>8, <2>1 DEF Exit
<1> QED BY <1>1, <1>2, <1>3, <1>4, <1>5, <1>6, <1>7, <1>8 DEF CtlStatement

\* So do the alternatives of its alt.
LEMMA AltTInv ==
    ASSUME TInv,
           \/ \E p \in Callers : RecvCommand(p)
           \/ \E w \in Watchers : RecvReport(w)
           \/ \E p \in {"registry", "reader"} : RecvDie(p)
    PROVE  TInv'
<1> USE DEF TInv, TypeOK
<1>1. ASSUME NEW p \in Callers, RecvCommand(p) PROVE TInv'
  <2>1. PICK next \in {"wait", "serve"} : pc' = [pc EXCEPT ![p] = next]
    BY <1>1 DEF RecvCommand
  <2>2. pc' \in [Procs -> Places]
    BY <2>1 DEF Places
  <2>3. \A v \in Watchers : pc'[v] \in {"watch", "report"} => wstate[v] \in {0, 1}
    BY <2>1 DEF Procs
  <2>4. todo' \in Seq(Ops) /\ ctlproc' \in {"run", "exited", "broken"}
    <3>1. CASE cmd[p].name = "short"
      BY <1>1, <3>1 DEF RecvCommand
    <3>2. CASE cmd[p].name # "short"
      <4> DEFINE to == IF cmd[p].wait THEN p ELSE None
      <4>1. to \in Callers \cup {None}
        OBVIOUS
      <4>2. Closed(CommandOps(cmd[p].name, to, cmd[p].who))
        BY <4>1, ClosedCommandOps
      <4> QED BY <1>1, <3>2, <4>2 DEF RecvCommand, Closed
    <3> QED BY <3>1, <3>2
  <2>5. cmd' = [cmd EXCEPT ![p] = NoCmd]
    BY <1>1 DEF RecvCommand
  <2>6. /\ cmd' \in [Callers -> [name : AllCmds \cup {"none"}, wait : BOOLEAN,
                                 who : Watchers \cup {None}]]
        /\ \A q \in Callers : cmd'[q].name = "on" => cmd'[q].who \in Watchers
    BY <2>5 DEF NoCmd
  <2> QED BY <1>1, <2>2, <2>3, <2>4, <2>6 DEF RecvCommand
<1>2. ASSUME NEW w \in Watchers, RecvReport(w) PROVE TInv'
  <2>1. todo' \in Seq(Ops)
    <3>1. PICK state \in {-1, 0, 1} : todo' = ReportOps(state)
      BY <1>2 DEF RecvReport
    <3> QED BY <3>1, ClosedReportOps DEF Closed
  <2>2. PICK next \in {"watch", "return", "dead"} :
           /\ pc' = [pc EXCEPT ![w] = next]
           /\ next = "watch" => pc[w] = "report"
    BY <1>2 DEF RecvReport
  <2>3. pc' \in [Procs -> Places]
    BY <2>2 DEF Places
  <2>4. \A v \in Watchers : pc'[v] \in {"watch", "report"} => wstate[v] \in {0, 1}
    BY <2>2 DEF Procs
  <2> QED BY <1>2, <2>1, <2>3, <2>4 DEF RecvReport
<1>3. ASSUME NEW p \in {"registry", "reader"}, RecvDie(p) PROVE TInv'
  <2>1. todo' \in Seq(Ops)
    BY <1>3, ClosedExitOps DEF RecvDie, Closed
  <2>2. PICK next \in {"recv", "die"} : pc' = [pc EXCEPT ![p] = next]
    BY <1>3 DEF RecvDie, RegistryNext
  <2>3. pc' \in [Procs -> Places]
    BY <2>2 DEF Places
  <2>4. \A v \in Watchers : pc'[v] \in {"watch", "report"} => wstate[v] \in {0, 1}
    BY <2>2 DEF Procs
  <2> QED BY <1>3, <2>1, <2>3, <2>4 DEF RecvDie
<1> QED BY <1>1, <1>2, <1>3

\* A process that stores its pid in its own global keeps pid well typed.
LEMMA PidOK ==
    ASSUME TypeOK, NEW c \in Cells, NEW p \in ProcsOf(c), pid' = [pid EXCEPT ![c] = p]
    PROVE  /\ pid' \in [Cells -> Procs \cup {None}]
           /\ \A d \in Cells : pid'[d] \in ProcsOf(d) \cup {None}
<1>1. p \in Procs
  BY DEF ProcsOf, Cells, Procs, Static, Callers
<1> QED BY <1>1 DEF TypeOK

\* The places of a watcher that neither scans nor reports, and of all others.
Calm == Places \ {"watch", "report"}

\* Moving processes to such places.
LEMMA MoveTwoOK ==
    ASSUME TInv, NEW p, NEW q, NEW a \in Calm, NEW b \in Calm,
           pc' = [pc EXCEPT ![p] = a, ![q] = b]
    PROVE  /\ pc' \in [Procs -> Places]
           /\ \A v \in Watchers : pc'[v] \in {"watch", "report"} => wstate[v] \in {0, 1}
<1>1. Watchers \subseteq Procs
  BY DEF Procs
<1>2. pc \in [Procs -> Places] /\ a \in Places /\ b \in Places
  BY DEF TInv, TypeOK, Calm
<1>3. \A v \in Procs : pc'[v] \in {a, b, pc[v]}
  BY <1>2
<1>4. pc' \in [Procs -> Places]
  BY <1>2
<1> QED BY <1>1, <1>3, <1>4 DEF TInv, Calm

\* A process that moves to a calm place keeps the typing of the program counters.
LEMMA MoveOK ==
    ASSUME TInv, NEW p, NEW a \in Calm, pc' = [pc EXCEPT ![p] = a]
    PROVE  /\ pc' \in [Procs -> Places]
           /\ \A v \in Watchers : pc'[v] \in {"watch", "report"} => wstate[v] \in {0, 1}
<1>1. Watchers \subseteq Procs
  BY DEF Procs
<1>2. pc \in [Procs -> Places] /\ a \in Places
  BY DEF TInv, TypeOK, Calm
<1>3. \A v \in Procs : pc'[v] \in {a, pc[v]}
  BY <1>2
<1>4. pc' \in [Procs -> Places]
  BY <1>2
<1> QED BY <1>1, <1>3, <1>4 DEF TInv, Calm

\* The other processes keep the types.
LEMMA ProcsTInv ==
    ASSUME TInv,
           \/ \E w \in Watchers : watcherproc(w) \/ WatcherScan(w)
           \/ \E r \in Ringers : ringproc(r)
           \/ heartbeatproc \/ registryproc \/ run \/ ctlfileproc
           \/ \E p \in Callers, c \in Cmds, wait \in BOOLEAN : ctl(p, c, wait)
    PROVE  TInv'
<1>0. {"unborn", "claimed", "dead", "spawned", "announce", "recv", "die", "serve", "call",
       "wait", "answer", "ring", "beat", "error", "return"} \subseteq Calm
  BY DEF Places, Calm
<1>1. ASSUME NEW w \in Watchers, watcherproc(w) PROVE TInv'
  <2>1. "watcher" \in Cells /\ w \in ProcsOf("watcher")
    BY DEF Cells, ProcsOf
  <2>2. /\ pid' \in [Cells -> Procs \cup {None}]
        /\ \A d \in Cells : pid'[d] \in ProcsOf(d) \cup {None}
    BY <1>1, <2>1, PidOK DEF watcherproc, TInv
  <2>3. PICK next \in {"return", "error", "report"} :
           /\ pc' = [pc EXCEPT ![w] = next]
           /\ \/ next # "report" /\ wstate' = wstate
              \/ wstate' = [wstate EXCEPT ![w] = 0]
    BY <1>1 DEF watcherproc
  <2>4. pc' \in [Procs -> Places]
    BY <2>3 DEF TInv, TypeOK, Places
  <2>5. wstate' \in [Watchers -> {-1, 0, 1}]
    BY <2>3 DEF TInv, TypeOK
  <2>6. \A v \in Watchers : pc'[v] \in {"watch", "report"} => wstate'[v] \in {0, 1}
    BY <2>3 DEF TInv, TypeOK, Procs
  <2> QED BY <1>1, <2>2, <2>4, <2>5, <2>6 DEF watcherproc, TInv, TypeOK
<1>2. ASSUME NEW w \in Watchers, WatcherScan(w) PROVE TInv'
  <2>1. wstate[w] \in {0, 1}
    BY <1>2 DEF WatcherScan, TInv
  <2>2. PICK next \in {"error", "report"} :
           /\ pc' = [pc EXCEPT ![w] = next]
           /\ \/ next # "report" /\ wstate' = wstate
              \/ wstate' = [wstate EXCEPT ![w] = 1 - wstate[w]]
    BY <1>2 DEF WatcherScan
  <2>3. pc' \in [Procs -> Places]
    BY <2>2 DEF TInv, TypeOK, Places
  <2>4. wstate' \in [Watchers -> {-1, 0, 1}]
    BY <2>1, <2>2 DEF TInv, TypeOK
  <2>5. \A v \in Watchers : pc'[v] \in {"watch", "report"} => wstate'[v] \in {0, 1}
    BY <2>1, <2>2 DEF TInv, TypeOK, Procs
  <2> QED BY <1>2, <2>3, <2>4, <2>5 DEF WatcherScan, TInv, TypeOK
<1>3. ASSUME NEW r \in Ringers, ringproc(r) PROVE TInv'
  <2>1. CASE pc[r] = "spawned"
    <3>1. "ring" \in Cells /\ r \in ProcsOf("ring")
      BY DEF Cells, ProcsOf
    <3>2. pid' = [pid EXCEPT !["ring"] = r] /\ pc' = [pc EXCEPT ![r] = "ring"]
      BY <1>3, <2>1 DEF ringproc
    <3>3. /\ pc' \in [Procs -> Places]
          /\ \A v \in Watchers : pc'[v] \in {"watch", "report"} => wstate[v] \in {0, 1}
      BY <1>0, <3>2, MoveOK
    <3> QED BY <1>3, <2>1, <3>1, <3>2, <3>3, PidOK DEF ringproc, TInv, TypeOK
  <2>2. CASE pc[r] # "spawned"
    <3>1. PICK next \in {"recv", "die"} : pc' = [pc EXCEPT !["reader"] = next]
      BY <1>3, <2>2 DEF ringproc, ReaderNext
    <3>2. /\ pc' \in [Procs -> Places]
          /\ \A v \in Watchers : pc'[v] \in {"watch", "report"} => wstate[v] \in {0, 1}
      BY <1>0, <3>1, MoveOK
    <3> QED BY <1>3, <2>2, <3>2 DEF ringproc, TInv, TypeOK
  <2> QED BY <2>1, <2>2
<1>4. CASE heartbeatproc
  <2>1. CASE pc["heartbeat"] = "spawned"
    <3>1. "heartbeat" \in Cells /\ "heartbeat" \in ProcsOf("heartbeat")
      BY DEF Cells, ProcsOf
    <3>2. pid' = [pid EXCEPT !["heartbeat"] = "heartbeat"] /\ pc' = [pc EXCEPT !["heartbeat"] = "beat"]
      BY <1>4, <2>1 DEF heartbeatproc
    <3>3. /\ pc' \in [Procs -> Places]
          /\ \A v \in Watchers : pc'[v] \in {"watch", "report"} => wstate[v] \in {0, 1}
      BY <1>0, <3>2, MoveOK
    <3> QED BY <1>4, <2>1, <3>1, <3>2, <3>3, PidOK DEF heartbeatproc, TInv, TypeOK
  <2>2. CASE pc["heartbeat"] # "spawned"
    <3>1. PICK next \in {"recv", "die"} : pc' = [pc EXCEPT !["registry"] = next]
      BY <1>4, <2>2 DEF heartbeatproc, RegistryNext
    <3>2. /\ pc' \in [Procs -> Places]
          /\ \A v \in Watchers : pc'[v] \in {"watch", "report"} => wstate[v] \in {0, 1}
      BY <1>0, <3>1, MoveOK
    <3> QED BY <1>4, <2>2, <3>2 DEF heartbeatproc, TInv, TypeOK
  <2> QED BY <2>1, <2>2
<1>5. CASE registryproc
  <2>1. "registry" \in Cells /\ "registry" \in ProcsOf("registry")
    BY DEF Cells, ProcsOf
  <2>2. pid' = [pid EXCEPT !["registry"] = "registry"]
    BY <1>5 DEF registryproc
  <2>3. PICK next \in {"recv", "die"} : pc' = [pc EXCEPT !["registry"] = next]
    BY <1>5 DEF registryproc, RegistryNext
  <2>4. /\ pc' \in [Procs -> Places]
        /\ \A v \in Watchers : pc'[v] \in {"watch", "report"} => wstate[v] \in {0, 1}
    BY <1>0, <2>3, MoveOK
  <2> QED BY <1>5, <2>1, <2>2, <2>4, PidOK DEF registryproc, TInv, TypeOK
<1>6. CASE run
  <2>1. PICK next \in {"recv", "die"}, there \in {"announce", "dead"}, p \in {"registry", "reader"} :
           pc' = [pc EXCEPT !["run"] = there, ![p] = next]
    BY <1>6 DEF run, RegistryNext, ReaderNext
  <2>2. /\ pc' \in [Procs -> Places]
        /\ \A v \in Watchers : pc'[v] \in {"watch", "report"} => wstate[v] \in {0, 1}
    BY <1>0, <2>1, MoveTwoOK
  <2> QED BY <1>6, <2>2 DEF run, TInv, TypeOK
<1>7. CASE ctlfileproc
  <2>1. CASE pc["ctlfile"] = "spawned"
    <3>1. "ctlfile" \in Cells /\ "ctlfile" \in ProcsOf("ctlfile")
      BY DEF Cells, ProcsOf
    <3>2. pid' = [pid EXCEPT !["ctlfile"] = "ctlfile"] /\ pc' = [pc EXCEPT !["ctlfile"] = "serve"]
      BY <1>7, <2>1 DEF ctlfileproc
    <3>3. /\ pc' \in [Procs -> Places]
          /\ \A v \in Watchers : pc'[v] \in {"watch", "report"} => wstate[v] \in {0, 1}
      BY <1>0, <3>2, MoveOK
    <3> QED BY <1>7, <2>1, <3>1, <3>2, <3>3, PidOK DEF ctlfileproc, TInv, TypeOK
  <2>2. CASE pc["ctlfile"] # "spawned"
    <3>1. pc' = [pc EXCEPT !["ctlfile"] = "serve"]
      BY <1>7, <2>2 DEF ctlfileproc
    <3>2. /\ pc' \in [Procs -> Places]
          /\ \A v \in Watchers : pc'[v] \in {"watch", "report"} => wstate[v] \in {0, 1}
      BY <1>0, <3>1, MoveOK
    <3> QED BY <1>7, <2>2, <3>2 DEF ctlfileproc, TInv, TypeOK
  <2> QED BY <2>1, <2>2
<1>8. ASSUME NEW p \in Callers, NEW c \in Cmds, NEW wait \in BOOLEAN, ctl(p, c, wait)
      PROVE  TInv'
  <2>1. PICK who \in Watchers \cup {None} :
           /\ cmd' = [cmd EXCEPT ![p] = [name |-> c, wait |-> wait, who |-> who]]
           /\ c = "on" => who \in Watchers
           /\ \/ pc' = [pc EXCEPT ![p] = "call", ![who] = "claimed"]
              \/ pc' = [pc EXCEPT ![p] = "call"]
    BY <1>8 DEF ctl
  <2>2. c \in AllCmds
    BY ConstantsAssumption
  <2>3. /\ cmd' \in [Callers -> [name : AllCmds \cup {"none"}, wait : BOOLEAN,
                                 who : Watchers \cup {None}]]
        /\ \A q \in Callers : cmd'[q].name = "on" => cmd'[q].who \in Watchers
    BY <2>1, <2>2 DEF TInv, TypeOK
  <2>4. /\ pc' \in [Procs -> Places]
        /\ \A v \in Watchers : pc'[v] \in {"watch", "report"} => wstate[v] \in {0, 1}
    <3>1. "call" \in Calm /\ "claimed" \in Calm
      BY <1>0
    <3>2. CASE pc' = [pc EXCEPT ![p] = "call", ![who] = "claimed"]
      BY <3>1, <3>2, MoveTwoOK
    <3>3. CASE pc' = [pc EXCEPT ![p] = "call"]
      BY <3>1, <3>3, MoveOK
    <3> QED BY <2>1, <3>2, <3>3
  <2>5. issued' \in 0..MaxCmds
    BY <1>8, ConstantsAssumption DEF ctl, TInv, TypeOK
  <2> QED BY <1>8, <2>3, <2>4, <2>5 DEF ctl, TInv, TypeOK
<1> QED BY <1>1, <1>2, <1>3, <1>4, <1>5, <1>6, <1>7, <1>8

\* Every step of the control loop, the watchers and the callers keeps the typing invariant.
LEMMA NextTInv == TInv /\ [Next]_vars => TInv'
<1> SUFFICES ASSUME TInv, [Next]_vars PROVE TInv'
  OBVIOUS
<1>1. CASE Stopped \/ UNCHANGED vars
  BY <1>1 DEF TInv, TypeOK, Stopped, vars
<1> QED BY <1>1, StatementTInv, AltTInv, ProcsTInv DEF Next

\* The globals of alert.b always hold a process of their own kind or nil, and
\* ctlproc only ever has well formed statements left: no message is sent to a
\* process that is none, and no watcher is started without a type.
THEOREM TypeCorrect == Spec => []TypeOK
<1>1. Init => TInv
  BY InitTInv
<1>2. TInv /\ [Next]_vars => TInv'
  BY NextTInv
<1>3. TInv => TypeOK
  BY DEF TInv
<1> QED BY <1>1, <1>2, <1>3, PTL DEF Spec

(***************************************************************************)
(* The order of registry and reader                                         *)
(***************************************************************************)

\* A list with a status for the reader, or the exit of ctlproc, in it.
Speaks(s) ==
    \E i \in 1..Len(s) : s[i].op = "exit" \/ (s[i].op = "out" /\ IsStatus(s[i].msg))

\* RegistryFirst made inductive: it depends on all the statements to come.
IInv ==
    /\ TInv
    /\ WellOrdered(todo)
    /\ todo # <<>> /\ todo[1].op = "out" /\ IsStatus(todo[1].msg) =>
          view.registry = todo[1].msg
    /\ ctlproc = "run" /\ view.reader # view.registry => Speaks(todo)

\* What is left of a well ordered list is well ordered; a status comes to
\* its front only from behind its own registration.
LEMMA TailOrdered ==
    ASSUME NEW s \in Seq(Ops), s # <<>>, WellOrdered(s)
    PROVE  /\ WellOrdered(Tail(s))
           /\ Tail(s) # <<>> /\ Tail(s)[1].op = "out" /\ IsStatus(Tail(s)[1].msg) =>
                 s[1] = RegOp(Tail(s)[1].msg)
           /\ s[1].op = "reg" => /\ IsStatus(s[1].msg)
                                 /\ Tail(s) # <<>> /\ Tail(s)[1] = OutOp(s[1].msg)
           /\ s[1].op = "out" /\ ~IsStatus(s[1].msg) => Speaks(Tail(s))
           /\ Speaks(s) /\ s[1].op # "exit" /\ ~(s[1].op = "out" /\ IsStatus(s[1].msg)) =>
                 Speaks(Tail(s))
<1> DEFINE t == Tail(s)
           n == Len(t)
<1>1. /\ t \in Seq(Ops) /\ n \in Nat /\ Len(s) = n + 1
      /\ \A i \in 1..n : t[i] = s[i+1]
  BY HeadTailProperties
<1>2. t # <<>> <=> 1 \in 1..n
  <2> HIDE DEF t
  <2> QED BY <1>1
<1>s. /\ \A i \in 2..(n+1) :
           s[i].op = "out" /\ IsStatus(s[i].msg) => s[i-1] = RegOp(s[i].msg)
      /\ \A i \in 1..(n+1) : s[i].op = "reg" =>
           IsStatus(s[i].msg) /\ i + 1 \in 1..(n+1) /\ s[i+1] = OutOp(s[i].msg)
      /\ \A i \in 1..(n+1) : s[i].op = "out" /\ ~IsStatus(s[i].msg) =>
           \E j \in (i+1)..(n+1) : s[j].op = "exit"
  BY <1>1 DEF WellOrdered
<1> HIDE DEF t, n
<1>3. ASSUME NEW i \in 1..n
      PROVE  i + 1 \in 2..(n+1) /\ i + 1 \in 1..(n+1) /\ (i + 1) - 1 = i
  BY <1>1
<1>4. ASSUME NEW i \in 2..n, t[i].op = "out", IsStatus(t[i].msg)
      PROVE  t[i-1] = RegOp(t[i].msg)
  <2>1. i \in 1..n /\ i - 1 \in 1..n /\ (i - 1) + 1 = i /\ (i + 1) - 1 = i
        /\ i + 1 \in 2..(n+1)
    BY <1>1
  <2>2. t[i] = s[i+1] /\ t[i-1] = s[i]
    BY <1>1, <2>1
  <2> QED BY <1>s, <1>4, <2>1, <2>2
<1>5. ASSUME NEW i \in 1..n, t[i].op = "reg"
      PROVE  IsStatus(t[i].msg) /\ i + 1 \in 1..n /\ t[i+1] = OutOp(t[i].msg)
  <2>1. t[i] = s[i+1]
    BY <1>1
  <2>2. IsStatus(s[i+1].msg) /\ (i + 1) + 1 \in 1..(n+1) /\ s[(i+1)+1] = OutOp(s[i+1].msg)
    BY <1>s, <1>3, <1>5, <2>1
  <2>3. i + 1 \in 1..n
    BY <1>1, <2>2
  <2> QED BY <1>1, <2>1, <2>2, <2>3
<1>6. ASSUME NEW i \in 1..n, t[i].op = "out", ~IsStatus(t[i].msg)
      PROVE  \E j \in (i+1)..n : t[j].op = "exit"
  <2>1. t[i] = s[i+1]
    BY <1>1
  <2>2. PICK j \in ((i+1)+1)..(n+1) : s[j].op = "exit"
    BY <1>s, <1>3, <1>6, <2>1
  <2>3. j - 1 \in (i+1)..n /\ j - 1 \in 1..n /\ (j - 1) + 1 = j
    BY <1>1
  <2> QED BY <1>1, <2>2, <2>3
<1>7. \A i \in 1..(n+1) : i # 1 => (i - 1 \in 1..n /\ t[i-1] = s[i])
  <2> TAKE i \in 1..(n+1)
  <2>1. i # 1 => i - 1 \in 1..n /\ (i - 1) + 1 = i
    BY <1>1
  <2> QED BY <1>1, <2>1
<1>8. WellOrdered(t)
  BY <1>4, <1>5, <1>6 DEF WellOrdered, n
<1>9. t # <<>> /\ t[1].op = "out" /\ IsStatus(t[1].msg) => s[1] = RegOp(t[1].msg)
  <2>1. t # <<>> => t[1] = s[2] /\ 2 \in 2..(n+1) /\ 2 - 1 = 1
    BY <1>1, <1>2
  <2> QED BY <1>s, <2>1
<1>10. s[1].op = "reg" => IsStatus(s[1].msg) /\ t # <<>> /\ t[1] = OutOp(s[1].msg)
  <2>1. 1 \in 1..(n+1)
    BY <1>1
  <2>2. s[1].op = "reg" => IsStatus(s[1].msg) /\ 1 + 1 \in 1..(n+1) /\ s[1+1] = OutOp(s[1].msg)
    BY <1>s, <2>1
  <2>3. 1 + 1 \in 1..(n+1) => 1 \in 1..n
    BY <1>1
  <2> QED BY <1>1, <1>2, <2>2, <2>3
<1>11. s[1].op = "out" /\ ~IsStatus(s[1].msg) => Speaks(t)
  <2>1. SUFFICES ASSUME s[1].op = "out", ~IsStatus(s[1].msg) PROVE Speaks(t)
    OBVIOUS
  <2>2. 1 \in 1..(n+1)
    BY <1>1
  <2>3. PICK j \in (1+1)..(n+1) : s[j].op = "exit"
    BY <1>s, <2>1, <2>2
  <2>4. j \in 1..(n+1) /\ j # 1
    BY <1>1
  <2> QED BY <1>7, <2>3, <2>4 DEF Speaks, n
<1>12. Speaks(s) /\ s[1].op # "exit" /\ ~(s[1].op = "out" /\ IsStatus(s[1].msg)) => Speaks(t)
  <2>1. SUFFICES ASSUME Speaks(s), s[1].op # "exit",
                        ~(s[1].op = "out" /\ IsStatus(s[1].msg))
                 PROVE  Speaks(t)
    OBVIOUS
  <2>2. PICK i \in 1..(n+1) : s[i].op = "exit" \/ (s[i].op = "out" /\ IsStatus(s[i].msg))
    BY <1>1, <2>1 DEF Speaks
  <2>3. i # 1
    BY <2>1, <2>2
  <2> QED BY <1>7, <2>2, <2>3 DEF Speaks, n
<1> QED BY <1>8, <1>9, <1>10, <1>11, <1>12 DEF t

\* The started program satisfies the invariant behind RegistryFirst.
LEMMA InitIInv == Init => IInv
<1> SUFFICES ASSUME Init PROVE IInv
  OBVIOUS
<1>1. TInv
  BY InitTInv
<1>2. todo = <<>> /\ view.reader = view.registry
  BY DEF Init
<1>3. WellOrdered(todo)
  BY <1>2, ClosedEmpty DEF Closed
<1> QED BY <1>1, <1>2, <1>3 DEF IInv

\* ctlproc takes a new list only in its alt, when both views agree; a list it
\* takes never begins with a status for the reader.
LEMMA TakeIInv ==
    ASSUME IInv, TInv', AtAlt, Closed(todo'), view' = view
    PROVE  IInv'
<1>1. view.reader = view.registry
  <2>1. ~Speaks(<<>>)
    BY DEF Speaks
  <2> QED BY <2>1 DEF IInv, AtAlt
<1>2. WellOrdered(todo')
      /\ (todo' # <<>> => ~(todo'[1].op = "out" /\ IsStatus(todo'[1].msg)))
  BY Zenon DEF Closed
<1> QED BY <1>1, <1>2 DEF IInv

\* A step that leaves ctlproc and both views alone.
LEMMA IdleIInv ==
    ASSUME IInv, TInv', UNCHANGED <<ctlproc, todo, view>>
    PROVE  IInv'
<1>1. todo' = todo /\ view' = view /\ ctlproc' = ctlproc
  OBVIOUS
<1> QED BY <1>1 DEF IInv

\* A statement that sends nothing.
LEMMA SilentIInv ==
    ASSUME IInv, TInv', NEW k \in {"kill", "clear", "watch", "ring", "reply"}, Executing(k),
           todo' = Tail(todo), view' = view, ctlproc' = ctlproc
    PROVE  IInv'
<1>1. todo \in Seq(Ops) /\ todo # <<>> /\ todo[1].op = k
  BY DEF IInv, TInv, TypeOK, Executing
<1>2. WellOrdered(todo)
  BY DEF IInv
<1>3. WellOrdered(todo')
  BY <1>1, <1>2, TailOrdered
<1>4. ~(todo' # <<>> /\ todo'[1].op = "out" /\ IsStatus(todo'[1].msg))
  <2>1. todo[1] # RegOp(todo'[1].msg)
    BY <1>1 DEF RegOp
  <2> QED BY <1>1, <1>2, <2>1, TailOrdered
<1>5. Speaks(todo) => Speaks(todo')
  BY <1>1, <1>2, TailOrdered
<1> QED BY <1>3, <1>4, <1>5 DEF IInv

\* Every step of the engine preserves the order.
LEMMA NextIInv == IInv /\ [Next]_vars => IInv'
<1> SUFFICES ASSUME IInv, [Next]_vars PROVE IInv'
  OBVIOUS
<1>0. TInv /\ TInv'
  BY NextTInv DEF IInv
<1>1. CASE CtlStatement
  <2>1. todo \in Seq(Ops) /\ WellOrdered(todo)
    BY DEF IInv, TInv, TypeOK
  <2>2. CASE Kill
    BY <1>0, <2>2, SilentIInv DEF Kill
  <2>3. CASE Clear
    BY <1>0, <2>3, SilentIInv DEF Clear
  <2>4. CASE SpawnWatcher
    BY <1>0, <2>4, SilentIInv DEF SpawnWatcher
  <2>5. CASE ringproc_spawn
    BY <1>0, <2>5, SilentIInv DEF ringproc_spawn
  <2>6. CASE SendReply
    BY <1>0, <2>6, SilentIInv DEF SendReply
  <2>7. CASE SendRegistry
    <3>1. todo # <<>> /\ Head(todo) = todo[1] /\ todo[1].op = "reg"
      BY <2>1, <2>7 DEF SendRegistry, Executing
    <3>2. todo' = Tail(todo) /\ ctlproc' = ctlproc
      BY <2>7 DEF SendRegistry
    <3>3. view'.registry = todo[1].msg
      BY <1>0, <2>7, <3>1 DEF SendRegistry, TInv, TypeOK
    <3>4. /\ WellOrdered(todo') /\ IsStatus(todo[1].msg)
          /\ todo' # <<>> /\ todo'[1] = OutOp(todo[1].msg)
      BY <2>1, <3>1, <3>2, TailOrdered
    <3>5. todo'[1].op = "out" /\ todo'[1].msg = todo[1].msg
      BY <3>4 DEF OutOp
    <3>6. Speaks(todo')
      <4>1. todo' \in Seq(Ops)
        BY <1>0 DEF TInv, TypeOK
      <4>2. 1 \in 1..Len(todo')
        BY <3>4, <4>1
      <4> QED BY <3>4, <3>5, <4>2 DEF Speaks
    <3> QED BY <1>0, <3>3, <3>4, <3>5, <3>6 DEF IInv
  <2>8. CASE SendOut
    <3>1. todo # <<>> /\ Head(todo) = todo[1] /\ todo[1].op = "out"
      BY <2>1, <2>8 DEF SendOut, Executing
    <3>2. todo' = Tail(todo) /\ ctlproc' = ctlproc
      BY <2>8 DEF SendOut
    <3>3. view'.reader = todo[1].msg /\ view'.registry = view.registry
      BY <1>0, <2>8, <3>1 DEF SendOut, TInv, TypeOK
    <3>4. WellOrdered(todo')
      BY <2>1, <3>1, <3>2, TailOrdered
    <3>5. ~(todo' # <<>> /\ todo'[1].op = "out" /\ IsStatus(todo'[1].msg))
      <4>1. todo[1] # RegOp(todo'[1].msg)
        BY <3>1 DEF RegOp
      <4> QED BY <2>1, <3>1, <3>2, <4>1, TailOrdered
    <3>6. CASE IsStatus(todo[1].msg)
      <4>1. view'.reader = view'.registry
        BY <3>1, <3>3, <3>6 DEF IInv
      <4> QED BY <1>0, <3>4, <3>5, <4>1 DEF IInv
    <3>7. CASE ~IsStatus(todo[1].msg)
      <4>1. Speaks(todo')
        BY <2>1, <3>1, <3>2, <3>7, TailOrdered
      <4> QED BY <1>0, <3>4, <3>5, <4>1 DEF IInv
    <3> QED BY <3>6, <3>7
  <2>9. CASE Exit
    <3>1. todo # <<>> /\ Head(todo) = todo[1] /\ todo[1].op = "exit"
      BY <2>1, <2>9 DEF Exit, Executing
    <3>2. todo' = Tail(todo) /\ ctlproc' = "exited"
      BY <2>9 DEF Exit
    <3>3. WellOrdered(todo')
      BY <2>1, <3>1, <3>2, TailOrdered
    <3>4. ~(todo' # <<>> /\ todo'[1].op = "out" /\ IsStatus(todo'[1].msg))
      <4>1. todo[1] # RegOp(todo'[1].msg)
        BY <3>1 DEF RegOp
      <4> QED BY <2>1, <3>1, <3>2, <4>1, TailOrdered
    <3> QED BY <1>0, <3>2, <3>3, <3>4 DEF IInv
  <2> QED BY <1>1, <2>2, <2>3, <2>4, <2>5, <2>6, <2>7, <2>8, <2>9 DEF CtlStatement
<1>2. ASSUME NEW p \in Callers, RecvCommand(p) PROVE IInv'
  <2>1. AtAlt /\ view' = view
    BY <1>2 DEF RecvCommand
  <2>2. Closed(todo')
    <3>1. CASE cmd[p].name = "short"
      <4>1. todo' = <<>>
        BY <1>2, <3>1 DEF RecvCommand, AtAlt
      <4> QED BY <4>1, ClosedEmpty
    <3>2. CASE cmd[p].name # "short"
      <4> DEFINE to == IF cmd[p].wait THEN p ELSE None
      <4>1. to \in Callers \cup {None}
        OBVIOUS
      <4>2. cmd[p].name = "on" => cmd[p].who \in Watchers
        BY <1>0 DEF TInv
      <4>3. todo' = CommandOps(cmd[p].name, to, cmd[p].who)
        BY <1>2, <3>2 DEF RecvCommand
      <4> HIDE DEF to
      <4> QED BY <4>1, <4>2, <4>3, ClosedCommandOps
    <3> QED BY <3>1, <3>2
  <2> QED BY <1>0, <2>1, <2>2, TakeIInv
<1>3. ASSUME NEW w \in Watchers, RecvReport(w) PROVE IInv'
  <2>1. AtAlt /\ view' = view
    BY <1>3 DEF RecvReport
  <2>2. PICK state \in {-1, 0, 1} : todo' = ReportOps(state)
    BY <1>0, <1>3 DEF RecvReport, TInv, TypeOK
  <2>3. watchertype \in Watchers \cup {None}
    BY <1>0 DEF TInv, TypeOK
  <2>4. Closed(todo')
    BY <2>2, <2>3, ClosedReportOps
  <2> QED BY <1>0, <2>1, <2>4, TakeIInv
<1>4. ASSUME NEW p \in {"registry", "reader"}, RecvDie(p) PROVE IInv'
  <2>1. AtAlt /\ view' = view /\ todo' = ExitOps(None)
    BY <1>4 DEF RecvDie
  <2>2. Closed(todo')
    BY <2>1, ClosedExitOps
  <2> QED BY <1>0, <2>1, <2>2, TakeIInv
<1>5. CASE \/ \E w \in Watchers : watcherproc(w) \/ WatcherScan(w)
           \/ \E r \in Ringers : ringproc(r)
           \/ heartbeatproc \/ registryproc \/ run \/ ctlfileproc
           \/ \E p \in Callers, c \in Cmds, wait \in BOOLEAN : ctl(p, c, wait)
           \/ Stopped \/ UNCHANGED vars
  <2>1. UNCHANGED <<ctlproc, todo, view>>
    BY <1>5, Zenon DEF watcherproc, WatcherScan, ringproc, heartbeatproc, registryproc, run,
                ctlfileproc, ctl, Stopped, vars
  <2> QED BY <1>0, <2>1, IdleIInv
<1> QED BY <1>1, <1>2, <1>3, <1>4, <1>5 DEF Next

\* status in alert.b: what the reader is about to be shown has been entered
\* in the registry, and between two commands or reports the registry and the
\* reader have the same last message, whatever the other processes do in
\* between and whoever dies.
THEOREM RegistryAlwaysFirst == Spec => []RegistryFirst
<1>1. Init => IInv
  BY InitIInv
<1>2. IInv /\ [Next]_vars => IInv'
  BY NextIInv
<1>3. IInv => RegistryFirst
  <2> SUFFICES ASSUME IInv PROVE RegistryFirst
    OBVIOUS
  <2>1. Executing("out") /\ Head(todo).msg.kind \notin {"exit", "nil"} =>
          view.registry = Head(todo).msg
    BY DEF IInv, TInv, TypeOK, Executing, IsStatus
  <2>2. AtAlt => view.reader = view.registry
    <3>1. ~Speaks(<<>>)
      BY DEF Speaks
    <3> QED BY <3>1 DEF IInv, AtAlt
  <2> QED BY <2>1, <2>2 DEF RegistryFirst
<1> QED BY <1>1, <1>2, <1>3, PTL DEF Spec

(***************************************************************************)
(* The lists of statements ctlproc takes, and what is left of them          *)
(***************************************************************************)

\* The statements of a list.
Elems(s) == {s[i] : i \in 1..Len(s)}

\* The globals whose processes must have been killed when o is executed.
Needs(o) == {c \in Cells :
                \/ o.op = "clear" /\ c = o.cell
                \/ o.op = "watch" /\ c \in {"watcher", "ring"}
                \/ o.op = "out" /\ o.msg.kind \in {"none", "off", "running"} /\ c = "ring"
                \/ o.op = "exit"}

\* A message that says that the bell rings.
Sounds(o) == o.op \in {"reg", "out"} /\ o.msg.kind = "ringing"

\* After o nobody is told any more that the present watcher rings.
Ending(o) == \/ o.op = "clear" /\ o.cell = "watcher"
             \/ o.op = "out" /\ o.msg.kind \in {"off", "running"}
             \/ o.op = "exit"

\* b may come after a: a kill comes before what needs it and what ends the
\* ringing, a bell is rung first and not silenced before it is announced,
\* and nothing but a reply follows the start of a watcher.
Follows(a, b) ==
    /\ a.op # "exit" /\ b.op # "ring"
    /\ b.op = "kill" => b.cell \notin Needs(a)
    /\ a.op = "watch" => b.op = "reply"
    /\ a.op = "kill" => ~Sounds(b)
    /\ a.op = "ring" => "ring" \notin Needs(b)
    /\ Ending(a) => ~(b.op = "kill" /\ b.cell = "ring")

Ordered(s) == \A i, j \in 1..Len(s) : i < j => Follows(s[i], s[j])

\* What a list still does: kill the processes of c, ring the bell, tell the
\* reader so, end the ringing, say nil.
Kills(s, c)  == \E o \in Elems(s) : o.op = "kill" /\ o.cell = c
Rings(s)     == \E o \in Elems(s) : o.op = "ring"
Announces(s) == \E o \in Elems(s) : o.op = "out" /\ Sounds(o)
Ends(s)      == \E o \in Elems(s) : Ending(o)
SaysNil(s)   == \E o \in Elems(s) : o.op = "out" /\ o.msg.kind = "nil"

\* A list ctlproc may take: it kills by itself what it needs killed, ends
\* what it silences, and says nil before the exit.
Plan(s) ==
    /\ s \in Seq(Ops) /\ Ordered(s)
    /\ Kills(s, "ring") => Ends(s)
    /\ \A o \in Elems(s) : \A c \in Needs(o) : Kills(s, c)
    /\ \A o \in Elems(s) : o.op = "exit" => SaysNil(s)

\* A list without the bell.
Mute(s) == \A o \in Elems(s) : o.op # "ring" /\ ~Sounds(o)

\* The first statement and the rest of a list.
LEMMA ElemsPop ==
    ASSUME NEW s \in Seq(Ops), s # <<>>
    PROVE  /\ Head(s) = s[1] /\ Head(s) \in Ops
           /\ Elems(s) = {Head(s)} \cup Elems(Tail(s))
           /\ Ordered(s) => /\ Ordered(Tail(s))
                            /\ \A b \in Elems(Tail(s)) : Follows(Head(s), b)
<1> DEFINE t == Tail(s)
           n == Len(t)
<1>1. /\ t \in Seq(Ops) /\ n \in Nat /\ Len(s) = n + 1
      /\ \A i \in 1..n : t[i] = s[i+1]
      /\ Head(s) = s[1] /\ Head(s) \in Ops
  BY HeadTailProperties
<1> HIDE DEF t, n
<1>2. \A i \in 1..n : i + 1 \in 1..(n+1) /\ 1 < i + 1 /\ 1 \in 1..(n+1)
  BY <1>1
<1>3. \A i \in 1..(n+1) : i = 1 \/ (i - 1 \in 1..n /\ (i - 1) + 1 = i)
  BY <1>1
<1>4. Elems(t) = {s[i+1] : i \in 1..n}
  BY <1>1 DEF Elems, n
<1>5. Elems(s) = {s[1]} \cup Elems(t)
  <2>1. Elems(s) \subseteq {s[1]} \cup Elems(t)
    <3>1. ASSUME NEW i \in 1..(n+1) PROVE s[i] \in {s[1]} \cup {s[k+1] : k \in 1..n}
      BY <1>3
    <3> QED BY <1>1, <1>4, <3>1 DEF Elems
  <2>2. {s[1]} \cup Elems(t) \subseteq Elems(s)
    <3>1. 1 \in 1..(n+1)
      BY <1>1
    <3>2. \A i \in 1..n : i + 1 \in 1..(n+1)
      BY <1>2
    <3> QED BY <1>1, <1>4, <3>1, <3>2 DEF Elems
  <2> QED BY <2>1, <2>2
<1>6. ASSUME Ordered(s) PROVE Ordered(t) /\ \A b \in Elems(t) : Follows(s[1], b)
  <2>1. \A i, j \in 1..(n+1) : i < j => Follows(s[i], s[j])
    BY <1>1, <1>6 DEF Ordered
  <2>2. ASSUME NEW i \in 1..n, NEW j \in 1..n, i < j PROVE Follows(t[i], t[j])
    <3>1. i + 1 \in 1..(n+1) /\ j + 1 \in 1..(n+1) /\ i + 1 < j + 1
      BY <1>1, <2>2
    <3>2. Follows(s[i+1], s[j+1])
      BY <2>1, <3>1
    <3> QED BY <1>1, <3>2
  <2>3. \A i \in 1..n : Follows(s[1], s[i+1])
    BY <1>2, <2>1
  <2> QED BY <1>4, <2>2, <2>3 DEF Ordered, n
<1> QED BY <1>1, <1>5, <1>6 DEF t

\* Two lists, one after the other.
LEMMA ElemsConcat ==
    ASSUME NEW s \in Seq(Ops), NEW t \in Seq(Ops)
    PROVE  /\ s \o t \in Seq(Ops)
           /\ Elems(s \o t) = Elems(s) \cup Elems(t)
           /\ Ordered(s) /\ Ordered(t)
              /\ (\A a \in Elems(s), b \in Elems(t) : Follows(a, b)) => Ordered(s \o t)
<1> DEFINE u == s \o t
           m == Len(s)
           n == Len(t)
<1>1. /\ u \in Seq(Ops)
      /\ Len(u) = m + n
      /\ \A i \in 1 .. m + n : u[i] = IF i <= m THEN s[i] ELSE t[i - m]
  BY ConcatProperties
<1>2. m \in Nat /\ n \in Nat
  OBVIOUS
<1> HIDE DEF u, m, n
<1>a. \A i \in 1..m : u[i] = s[i] /\ i \in 1..(m + n)
  BY <1>1, <1>2
<1>b. \A i \in 1..n : u[m + i] = t[i] /\ m + i \in 1..(m + n)
  <2> TAKE i \in 1..n
  <2>1. m + i \in 1..m + n /\ ~(m + i <= m) /\ (m + i) - m = i
    BY <1>2
  <2> QED BY <1>1, <2>1
<1>c. \A i \in 1..(m+n) : i \in 1..m \/ \E k \in 1..n : i = m + k
  <2> TAKE i \in 1..(m+n)
  <2>1. i \in 1..m \/ (i - m \in 1..n /\ i = m + (i - m))
    BY <1>2
  <2> QED BY <2>1
<1>3. Elems(s) = {s[i] : i \in 1..m} /\ Elems(t) = {t[i] : i \in 1..n}
      /\ Elems(u) = {u[i] : i \in 1..(m+n)}
  BY <1>1 DEF Elems, m, n
<1>4. Elems(u) = Elems(s) \cup Elems(t)
  <2>1. ASSUME NEW i \in 1..(m+n) PROVE u[i] \in Elems(s) \cup Elems(t)
    BY <1>a, <1>b, <1>c, <1>3
  <2>2. \A i \in 1..m : s[i] \in Elems(u)
    BY <1>a, <1>3
  <2>3. \A i \in 1..n : t[i] \in Elems(u)
    BY <1>b, <1>3
  <2> QED BY <1>3, <2>1, <2>2, <2>3
<1>5. ASSUME Ordered(s), Ordered(t), \A a \in Elems(s), b \in Elems(t) : Follows(a, b)
      PROVE  Ordered(u)
  <2>1. /\ \A i, j \in 1..m : i < j => Follows(s[i], s[j])
        /\ \A i, j \in 1..n : i < j => Follows(t[i], t[j])
        /\ \A i \in 1..m, j \in 1..n : Follows(s[i], t[j])
    BY <1>3, <1>5 DEF Ordered, m, n
  <2>2. ASSUME NEW i \in 1..(m+n), NEW j \in 1..(m+n), i < j PROVE Follows(u[i], u[j])
    <3>1. CASE i \in 1..m /\ j \in 1..m
      BY <1>a, <2>1, <2>2, <3>1
    <3>2. ASSUME i \in 1..m, NEW k \in 1..n, j = m + k PROVE Follows(u[i], u[j])
      BY <1>a, <1>b, <2>1, <3>2
    <3>3. ASSUME NEW h \in 1..n, i = m + h, NEW k \in 1..n, j = m + k
          PROVE  Follows(u[i], u[j])
      <4>1. h < k
        BY <1>2, <2>2, <3>3
      <4> QED BY <1>b, <2>1, <3>3, <4>1
    <3>4. ASSUME NEW h \in 1..n, i = m + h PROVE ~(j \in 1..m)
      BY <1>2, <2>2, <3>4
    <3> QED BY <1>c, <3>1, <3>2, <3>3, <3>4
  <2> QED BY <1>1, <2>2 DEF Ordered
<1> QED BY <1>1, <1>4, <1>5 DEF u

\* Lists of no, one and two statements.
LEMMA ElemsShort ==
    /\ <<>> \in Seq(Ops) /\ Elems(<<>>) = {} /\ Ordered(<<>>)
    /\ \A a \in Ops : <<a>> \in Seq(Ops) /\ Elems(<<a>>) = {a} /\ Ordered(<<a>>)
    /\ \A a, b \in Ops : /\ <<a, b>> \in Seq(Ops) /\ Elems(<<a, b>>) = {a, b}
                         /\ Follows(a, b) => Ordered(<<a, b>>)
<1>1. <<>> \in Seq(Ops) /\ Elems(<<>>) = {} /\ Ordered(<<>>)
  BY DEF Elems, Ordered
<1>2. ASSUME NEW a \in Ops
      PROVE  <<a>> \in Seq(Ops) /\ Elems(<<a>>) = {a} /\ Ordered(<<a>>)
  <2> DEFINE s == <<a>>
  <2>1. s \in Seq(Ops) /\ Len(s) = 1 /\ s[1] = a
    OBVIOUS
  <2> HIDE DEF s
  <2>2. \A i \in 1..Len(s) : i = 1
    BY <2>1
  <2>3. Elems(s) = {a} /\ Ordered(s)
    BY <2>1, <2>2 DEF Elems, Ordered
  <2> QED BY <2>1, <2>3 DEF s
<1>3. ASSUME NEW a \in Ops, NEW b \in Ops
      PROVE  /\ <<a, b>> \in Seq(Ops) /\ Elems(<<a, b>>) = {a, b}
             /\ Follows(a, b) => Ordered(<<a, b>>)
  <2> DEFINE s == <<a, b>>
  <2>1. s \in Seq(Ops) /\ Len(s) = 2 /\ s[1] = a /\ s[2] = b
    OBVIOUS
  <2> HIDE DEF s
  <2>2. (\A i \in 1..Len(s) : i = 1 \/ i = 2) /\ 1 \in 1..Len(s) /\ 2 \in 1..Len(s)
    BY <2>1
  <2>3. Elems(s) = {a, b}
    BY <2>1, <2>2 DEF Elems
  <2>4. \A i, j \in 1..Len(s) : i < j => i = 1 /\ j = 2
    BY <2>1, <2>2
  <2>5. Follows(a, b) => Ordered(s)
    BY <2>1, <2>4 DEF Ordered
  <2> QED BY <2>1, <2>3, <2>5 DEF s
<1> QED BY <1>1, <1>2, <1>3

\* The blocks alert.b puts its lists together from.
LEMMA Blocks ==
    /\ \A to \in Callers \cup {None} :
          Reply(to) \in Seq(Ops) /\ Ordered(Reply(to)) /\ \A o \in Elems(Reply(to)) : o.op = "reply"
    /\ ringproc_kill \in Seq(Ops) /\ Ordered(ringproc_kill)
       /\ Elems(ringproc_kill) = {KillOp("ring"), ClearOp("ring")}
    /\ watcher_kill \in Seq(Ops) /\ Ordered(watcher_kill)
       /\ Elems(watcher_kill) =
             {KillOp("ring"), ClearOp("ring"), KillOp("watcher"), ClearOp("watcher")}
    /\ \A m \in Message : /\ status(m) \in Seq(Ops) /\ Ordered(status(m))
                          /\ Elems(status(m)) = {RegOp(m), OutOp(m)}
<1>1. ASSUME NEW to \in Callers \cup {None}
      PROVE  /\ Reply(to) \in Seq(Ops) /\ Ordered(Reply(to))
             /\ \A o \in Elems(Reply(to)) : o.op = "reply"
  <2>1. CASE to = None
    BY <2>1, ElemsShort DEF Reply
  <2>2. CASE to # None
    <3>1. ReplyOp(to) \in Ops /\ ReplyOp(to).op = "reply"
      BY <2>2, OpsOK DEF ReplyOp
    <3> QED BY <2>2, <3>1, ElemsShort DEF Reply
  <2> QED BY <2>1, <2>2
<1>2. ASSUME NEW c \in {"ring", "watcher"}
      PROVE  /\ <<KillOp(c), ClearOp(c)>> \in Seq(Ops) /\ Ordered(<<KillOp(c), ClearOp(c)>>)
             /\ Elems(<<KillOp(c), ClearOp(c)>>) = {KillOp(c), ClearOp(c)}
  <2>1. c \in Cells
    BY DEF Cells
  <2>2. KillOp(c) \in Ops /\ ClearOp(c) \in Ops
    BY <2>1, OpsOK
  <2>3. Follows(KillOp(c), ClearOp(c))
    BY DEF Follows, KillOp, ClearOp, Ending, Sounds
  <2> QED BY <2>2, <2>3, ElemsShort
<1>3. /\ ringproc_kill \in Seq(Ops) /\ Ordered(ringproc_kill)
      /\ Elems(ringproc_kill) = {KillOp("ring"), ClearOp("ring")}
  BY <1>2 DEF ringproc_kill
<1>4. /\ watcher_kill \in Seq(Ops) /\ Ordered(watcher_kill)
      /\ Elems(watcher_kill) =
            {KillOp("ring"), ClearOp("ring"), KillOp("watcher"), ClearOp("watcher")}
  <2>1. \A a \in {KillOp("ring"), ClearOp("ring")}, b \in {KillOp("watcher"), ClearOp("watcher")} :
           Follows(a, b)
    BY DEF Follows, KillOp, ClearOp, Ending, Sounds, Needs
  <2> DEFINE t == <<KillOp("watcher"), ClearOp("watcher")>>
  <2>2. t \in Seq(Ops) /\ Ordered(t) /\ Elems(t) = {KillOp("watcher"), ClearOp("watcher")}
    BY <1>2
  <2>3. watcher_kill = ringproc_kill \o t
    BY DEF watcher_kill
  <2> HIDE DEF t
  <2> QED BY <1>3, <2>1, <2>2, <2>3, ElemsConcat
<1>5. ASSUME NEW m \in Message
      PROVE  /\ status(m) \in Seq(Ops) /\ Ordered(status(m))
             /\ Elems(status(m)) = {RegOp(m), OutOp(m)}
  <2>1. RegOp(m) \in Ops /\ OutOp(m) \in Ops
    BY OpsOK
  <2>2. Follows(RegOp(m), OutOp(m))
    BY DEF Follows, RegOp, OutOp, Ending, Sounds
  <2> QED BY <2>1, <2>2, ElemsShort DEF status
<1> QED BY <1>1, <1>3, <1>4, <1>5

\* A reply may come after anything but the exit, and before anything but the
\* bell.
LEMMA ReplyFollows ==
    ASSUME NEW a \in Ops, NEW r \in Ops, r.op = "reply"
    PROVE  /\ a.op # "exit" => Follows(a, r)
           /\ a.op # "ring" => Follows(r, a)
BY DEF Follows, Needs, Sounds, Ending

\* A reply behind a plan makes a plan.
LEMMA PlanReply ==
    ASSUME NEW s, Plan(s), NEW to \in Callers \cup {None}, \A o \in Elems(s) : o.op # "exit"
    PROVE  /\ Plan(s \o Reply(to))
           /\ \A o \in Elems(s \o Reply(to)) : o \in Elems(s) \/ o.op = "reply"
<1> DEFINE r == Reply(to)
           u == s \o r
<1>1. r \in Seq(Ops) /\ Ordered(r) /\ \A o \in Elems(r) : o.op = "reply" /\ o \in Ops
  <2>1. r \in Seq(Ops)
    BY Blocks
  <2>2. \A o \in Elems(r) : o \in Ops
    BY <2>1 DEF Elems
  <2> QED BY <2>1, <2>2, Blocks
<1>2. s \in Seq(Ops) /\ \A o \in Elems(s) : o \in Ops
  BY DEF Plan, Elems
<1>3. \A a \in Elems(s), b \in Elems(r) : Follows(a, b)
  BY <1>1, <1>2, ReplyFollows
<1> HIDE DEF r
<1>4. u \in Seq(Ops) /\ Elems(u) = Elems(s) \cup Elems(r) /\ Ordered(u)
  BY <1>1, <1>2, <1>3, ElemsConcat DEF Plan
<1> HIDE DEF u
<1>5. \A o \in Elems(r) : Needs(o) = {} /\ o.op # "kill" /\ o.op # "exit"
  BY <1>1 DEF Needs
<1>6. \A c : Kills(s, c) <=> Kills(u, c)
  BY <1>4, <1>5 DEF Kills
<1>7. (Ends(s) => Ends(u)) /\ (SaysNil(s) => SaysNil(u))
  BY <1>4 DEF Ends, SaysNil
<1>8. \A o \in Elems(u) : \A c \in Needs(o) : Kills(u, c)
  BY <1>4, <1>5, <1>6 DEF Plan
<1>9. \A o \in Elems(u) : o.op = "exit" => SaysNil(u)
  BY <1>4, <1>5, <1>7 DEF Plan
<1>10. Kills(u, "ring") => Ends(u)
  BY <1>6, <1>7 DEF Plan
<1>11. Plan(u)
  BY <1>4, <1>8, <1>9, <1>10 DEF Plan
<1>12. \A o \in Elems(u) : o \in Elems(s) \/ o.op = "reply"
  BY <1>1, <1>4
<1> QED BY <1>11, <1>12 DEF u, r

\* What "on" starts with: the bell, the watcher, and a new one.
LEMMA PlanOn ==
    ASSUME NEW w \in Watchers
    PROVE  /\ Plan(watcher_spawn(w)) /\ Mute(watcher_spawn(w))
           /\ \A o \in Elems(watcher_spawn(w)) : /\ o.op # "exit"
                                                 /\ o.op = "watch" => o.who = w
<1> DEFINE u == watcher_spawn(w)
<1>1. <<SpawnOp(w)>> \in Seq(Ops) /\ Ordered(<<SpawnOp(w)>>) /\ Elems(<<SpawnOp(w)>>) = {SpawnOp(w)}
  BY OpsOK, ElemsShort
<1>2. \A a \in {KillOp("ring"), ClearOp("ring"), KillOp("watcher"), ClearOp("watcher")} :
         Follows(a, SpawnOp(w))
  BY DEF Follows, KillOp, ClearOp, SpawnOp, Ending, Sounds
<1>3. /\ u \in Seq(Ops) /\ Ordered(u)
      /\ Elems(u) = {KillOp("ring"), ClearOp("ring"), KillOp("watcher"), ClearOp("watcher"),
                     SpawnOp(w)}
  <2> DEFINE t == <<SpawnOp(w)>>
  <2>1. t \in Seq(Ops) /\ Ordered(t) /\ Elems(t) = {SpawnOp(w)} /\ u = watcher_kill \o t
    BY <1>1 DEF watcher_spawn
  <2> HIDE DEF t, u
  <2>2. Ordered(u) /\ u \in Seq(Ops) /\ Elems(u) = Elems(watcher_kill) \cup Elems(t)
    BY <1>2, <2>1, Blocks, ElemsConcat
  <2> QED BY <2>1, <2>2, Blocks
<1> HIDE DEF u
<1>4. Kills(u, "ring") /\ Kills(u, "watcher") /\ Ends(u)
  BY <1>3 DEF Kills, Ends, Ending, KillOp, ClearOp
<1>5. \A o \in Elems(u) : Needs(o) \subseteq {"ring", "watcher"}
  BY <1>3 DEF Needs, KillOp, ClearOp, SpawnOp
<1>6. \A o \in Elems(u) : /\ o.op \notin {"exit", "ring", "reg", "out"}
                          /\ o.op = "watch" => o.who = w
  BY <1>3 DEF KillOp, ClearOp, SpawnOp
<1>7. Plan(u)
  BY <1>3, <1>4, <1>5, <1>6 DEF Plan
<1>8. Mute(u)
  BY <1>6 DEF Mute, Sounds
<1> QED BY <1>6, <1>7, <1>8 DEF u

\* What "off" and the end of a watcher start with.
LEMMA PlanOff ==
    /\ Plan(watcher_kill \o status(Msg("off"))) /\ Mute(watcher_kill \o status(Msg("off")))
    /\ \A o \in Elems(watcher_kill \o status(Msg("off"))) : o.op \notin {"exit", "watch"}
    /\ Kills(watcher_kill \o status(Msg("off")), "ring")
<1> DEFINE m == Msg("off")
           u == watcher_kill \o status(m)
<1>1. m \in Message /\ m.kind = "off"
  BY MsgOK DEF Kinds
<1> HIDE DEF m
<1>2. \A a \in {KillOp("ring"), ClearOp("ring"), KillOp("watcher"), ClearOp("watcher")},
         b \in {RegOp(m), OutOp(m)} : Follows(a, b)
  BY <1>1 DEF Follows, KillOp, ClearOp, RegOp, OutOp, Ending, Sounds
<1>3. /\ u \in Seq(Ops) /\ Ordered(u)
      /\ Elems(u) = {KillOp("ring"), ClearOp("ring"), KillOp("watcher"), ClearOp("watcher"),
                     RegOp(m), OutOp(m)}
  BY <1>1, <1>2, Blocks, ElemsConcat
<1> HIDE DEF u
<1>4. Kills(u, "ring") /\ Kills(u, "watcher") /\ Ends(u)
  BY <1>3 DEF Kills, Ends, Ending, KillOp, ClearOp
<1>5. \A o \in Elems(u) : Needs(o) \subseteq {"ring", "watcher"}
  BY <1>3 DEF Needs, KillOp, ClearOp, RegOp, OutOp
<1>6. \A o \in Elems(u) : /\ o.op \notin {"exit", "ring", "watch"}
                          /\ ~Sounds(o)
  BY <1>1, <1>3 DEF KillOp, ClearOp, RegOp, OutOp, Sounds
<1>7. Plan(u)
  BY <1>3, <1>4, <1>5, <1>6 DEF Plan
<1>8. Mute(u)
  BY <1>6 DEF Mute
<1> QED BY <1>4, <1>6, <1>7, <1>8 DEF u, m

\* What a report 0 makes ctlproc do.
LEMMA PlanRunning ==
    ASSUME watchertype \in Watchers \cup {None}
    PROVE  /\ Plan(ReportOps(0)) /\ Mute(ReportOps(0)) /\ Kills(ReportOps(0), "ring")
           /\ \A o \in Elems(ReportOps(0)) : o.op # "watch"
<1> DEFINE m == Status("running")
           u == ringproc_kill \o status(m)
<1>1. m \in Message /\ m.kind = "running"
  BY MsgOK DEF Kinds
<1> HIDE DEF m
<1>2. \A a \in {KillOp("ring"), ClearOp("ring")}, b \in {RegOp(m), OutOp(m)} : Follows(a, b)
  BY <1>1 DEF Follows, KillOp, ClearOp, RegOp, OutOp, Ending, Sounds
<1>3. /\ u \in Seq(Ops) /\ Ordered(u)
      /\ Elems(u) = {KillOp("ring"), ClearOp("ring"), RegOp(m), OutOp(m)}
  BY <1>1, <1>2, Blocks, ElemsConcat
<1>u. u = ReportOps(0)
  BY DEF ReportOps, m
<1> HIDE DEF u
<1>4. Kills(u, "ring") /\ Ends(u)
  BY <1>1, <1>3 DEF Kills, Ends, Ending, KillOp, OutOp
<1>5. \A o \in Elems(u) : Needs(o) \subseteq {"ring"}
  BY <1>3 DEF Needs, KillOp, ClearOp, RegOp, OutOp
<1>6. \A o \in Elems(u) : o.op \notin {"exit", "ring", "watch"} /\ ~Sounds(o)
  BY <1>1, <1>3 DEF KillOp, ClearOp, RegOp, OutOp, Sounds
<1>7. Plan(u)
  BY <1>3, <1>4, <1>5, <1>6 DEF Plan
<1>8. Mute(u)
  BY <1>6 DEF Mute
<1> QED BY <1>4, <1>6, <1>7, <1>8, <1>u

\* What a report 1 makes ctlproc do: it alone rings the bell.
LEMMA PlanRinging ==
    ASSUME watchertype \in Watchers \cup {None}
    PROVE  /\ Plan(ReportOps(1)) /\ Rings(ReportOps(1)) /\ Announces(ReportOps(1))
           /\ \A o \in Elems(ReportOps(1)) : /\ o.op # "watch"
                                             /\ Sounds(o) => o.msg.of = watchertype
<1> DEFINE m == Status("ringing")
           u == <<RingOp>> \o status(m)
<1>1. m \in Message /\ m.kind = "ringing" /\ m.of = watchertype
  BY MsgOK DEF Kinds, Status
<1> HIDE DEF m
<1>2. <<RingOp>> \in Seq(Ops) /\ Ordered(<<RingOp>>) /\ Elems(<<RingOp>>) = {RingOp}
  BY OpsOK, ElemsShort
<1>3. \A b \in {RegOp(m), OutOp(m)} : Follows(RingOp, b)
  BY <1>1 DEF Follows, RingOp, RegOp, OutOp, Ending, Sounds, Needs
<1>4. u \in Seq(Ops) /\ Ordered(u) /\ Elems(u) = {RingOp, RegOp(m), OutOp(m)}
  <2> DEFINE r == <<RingOp>>
             t == status(m)
  <2>1. t \in Seq(Ops) /\ Ordered(t) /\ Elems(t) = {RegOp(m), OutOp(m)}
    BY <1>1, Blocks
  <2>2. r \in Seq(Ops) /\ Ordered(r) /\ Elems(r) = {RingOp} /\ u = r \o t
    BY <1>2
  <2> HIDE DEF r, t, u
  <2>3. Ordered(u) /\ u \in Seq(Ops) /\ Elems(u) = Elems(r) \cup Elems(t)
    BY <1>3, <2>1, <2>2, ElemsConcat
  <2> QED BY <2>1, <2>2, <2>3
<1>u. u = ReportOps(1)
  BY DEF ReportOps, m
<1> HIDE DEF u
<1>5. \A o \in Elems(u) : Needs(o) = {} /\ o.op \notin {"kill", "exit", "watch"}
  BY <1>1, <1>4 DEF Needs, RingOp, RegOp, OutOp
<1>6. Plan(u)
  BY <1>4, <1>5 DEF Plan, Kills
<1>7. Rings(u)
  BY <1>4 DEF Rings, RingOp
<1>8. Announces(u)
  BY <1>1, <1>4 DEF Announces, OutOp, Sounds
<1>9. \A o \in Elems(u) : Sounds(o) => o.msg.of = watchertype
  BY <1>1, <1>4 DEF Sounds, RingOp, RegOp, OutOp
<1> QED BY <1>5, <1>6, <1>7, <1>8, <1>9, <1>u

\* The exit branch kills everything before it says goodbye.
LEMMA PlanExit ==
    ASSUME NEW to \in Callers \cup {None}
    PROVE  /\ Plan(ExitOps(to)) /\ Mute(ExitOps(to))
           /\ \A o \in Elems(ExitOps(to)) : o.op # "watch"
<1> DEFINE r == Reply(to)
           k == ExitKills
           a == OutOp(Msg("exit"))
           b == OutOp(Msg("nil"))
           g == <<a, b, ExitOp>>
           u == (r \o k) \o g
<1>r. r \in Seq(Ops) /\ Ordered(r) /\ (\A o \in Elems(r) : o.op = "reply" /\ o \in Ops)
  <2>1. r \in Seq(Ops)
    BY Blocks
  <2>2. \A o \in Elems(r) : o \in Ops
    BY <2>1 DEF Elems
  <2> QED BY <2>1, <2>2, Blocks
<1>k. k \in Seq(Ops) /\ Ordered(k) /\ Elems(k) = {KillOp(c) : c \in Cells}
  <2>1. {"heartbeat", "registry", "ctlfile", "watcher", "ring"} = Cells
    BY DEF Cells
  <2>2. \A c \in Cells : KillOp(c) \in Ops
    BY OpsOK
  <2>3. k \in Seq(Ops) /\ Len(k) = 5
    BY <2>1, <2>2 DEF ExitKills
  <2>4. /\ k[1] = KillOp("heartbeat") /\ k[2] = KillOp("registry") /\ k[3] = KillOp("ctlfile")
        /\ k[4] = KillOp("watcher") /\ k[5] = KillOp("ring")
    BY DEF ExitKills
  <2> HIDE DEF k
  <2>5. \A i \in 1..Len(k) : i = 1 \/ i = 2 \/ i = 3 \/ i = 4 \/ i = 5
    BY <2>3
  <2>6. 1 \in 1..Len(k) /\ 2 \in 1..Len(k) /\ 3 \in 1..Len(k) /\ 4 \in 1..Len(k) /\ 5 \in 1..Len(k)
    BY <2>3
  <2>7. Elems(k) = {k[1], k[2], k[3], k[4], k[5]}
    BY <2>5, <2>6 DEF Elems
  <2>8. Elems(k) = {KillOp(c) : c \in Cells}
    BY <2>1, <2>4, <2>7
  <2>9. \A c, d \in Cells : Follows(KillOp(c), KillOp(d))
    BY DEF Follows, KillOp, Ending, Sounds, Needs
  <2>10. \A i \in 1..Len(k) : k[i] \in Elems(k)
    BY DEF Elems
  <2>11. \A i, j \in 1..Len(k) : Follows(k[i], k[j])
    BY <2>8, <2>9, <2>10
  <2>12. Ordered(k)
    BY <2>11 DEF Ordered
  <2> QED BY <2>3, <2>8, <2>12
<1>m. /\ a \in Ops /\ b \in Ops /\ ExitOp \in Ops /\ ExitOp.op = "exit"
      /\ a.op = "out" /\ a.msg.kind = "exit" /\ b.op = "out" /\ b.msg.kind = "nil"
  BY OpsOK, MsgOK DEF Kinds, OutOp, Msg, ExitOp
<1> HIDE DEF r, k, a, b
<1>g. g \in Seq(Ops) /\ Ordered(g) /\ Elems(g) = {a, b, ExitOp}
  <2>1. g \in Seq(Ops) /\ Len(g) = 3 /\ g[1] = a /\ g[2] = b /\ g[3] = ExitOp
    BY <1>m
  <2> HIDE DEF g
  <2>2. \A i \in 1..Len(g) : i = 1 \/ i = 2 \/ i = 3
    BY <2>1
  <2>3. 1 \in 1..Len(g) /\ 2 \in 1..Len(g) /\ 3 \in 1..Len(g)
    BY <2>1
  <2>4. Elems(g) = {a, b, ExitOp}
    BY <2>1, <2>2, <2>3 DEF Elems
  <2>5. Follows(a, b) /\ Follows(a, ExitOp) /\ Follows(b, ExitOp)
    BY <1>m DEF Follows, Ending, Sounds
  <2>6. \A i, j \in 1..Len(g) : i < j => (i = 1 /\ j = 2) \/ (i = 1 /\ j = 3) \/ (i = 2 /\ j = 3)
    BY <2>1
  <2>7. Ordered(g)
    BY <2>1, <2>5, <2>6 DEF Ordered
  <2> QED BY <2>1, <2>4, <2>7
<1> HIDE DEF g
<1>1. \A o \in Elems(k) : o \in Ops /\ o.op = "kill"
  <2>1. \A c \in Cells : KillOp(c) \in Ops /\ KillOp(c).op = "kill"
    BY OpsOK, Zenon DEF KillOp
  <2> QED BY <1>k, <2>1
<1>2. r \o k \in Seq(Ops) /\ Elems(r \o k) = Elems(r) \cup Elems(k) /\ Ordered(r \o k)
  <2>1. \A o \in Elems(r), q \in Elems(k) : Follows(o, q)
    BY <1>r, <1>1, ReplyFollows
  <2> QED BY <1>r, <1>k, <2>1, ElemsConcat
<1>3. u \in Seq(Ops) /\ Elems(u) = Elems(r) \cup Elems(k) \cup {a, b, ExitOp} /\ Ordered(u)
  <2>1. \A o \in Elems(r), q \in Elems(g) : Follows(o, q)
    BY <1>r, <1>m, <1>g, ReplyFollows
  <2>2. \A o \in Elems(k), q \in Elems(g) : Follows(o, q)
    BY <1>1, <1>m, <1>g DEF Follows, Ending, Sounds
  <2> QED BY <1>2, <1>g, <2>1, <2>2, ElemsConcat
<1>u. u = ExitOps(to)
  BY DEF ExitOps, r, k, g, a, b
<1> HIDE DEF u
<1>4. \A c \in Cells : Kills(u, c)
  <2>1. \A c \in Cells : KillOp(c) \in Elems(u) /\ KillOp(c).op = "kill" /\ KillOp(c).cell = c
    BY <1>k, <1>3, Zenon DEF KillOp
  <2> QED BY <2>1 DEF Kills
<1>5. \A o \in Elems(u) : Needs(o) \subseteq Cells
  BY DEF Needs
<1>6. Ends(u)
  BY <1>m, <1>3 DEF Ends, Ending
<1>7. SaysNil(u)
  BY <1>m, <1>3 DEF SaysNil
<1>8. Plan(u)
  BY <1>3, <1>4, <1>5, <1>6, <1>7 DEF Plan
<1>9. \A o \in Elems(u) : o.op \notin {"ring", "watch", "reg"} /\ ~Sounds(o)
  BY <1>r, <1>m, <1>1, <1>3 DEF Sounds
<1>10. Mute(u)
  BY <1>9 DEF Mute
<1> QED BY <1>8, <1>9, <1>10, <1>u

\* Whatever ctlproc is told, it takes a plan that does not ring the bell, and
\* only "on" starts a watcher, the one it has claimed.
LEMMA PlanCommand ==
    ASSUME NEW c, NEW to \in Callers \cup {None}, NEW w, c = "on" => w \in Watchers
    PROVE  /\ Plan(CommandOps(c, to, w)) /\ Mute(CommandOps(c, to, w))
           /\ \A o \in Elems(CommandOps(c, to, w)) : o.op = "watch" => c = "on" /\ o.who = w
<1>1. ASSUME NEW s, Plan(s), Mute(s), \A o \in Elems(s) : o.op # "exit"
      PROVE  Plan(s \o Reply(to)) /\ Mute(s \o Reply(to))
  <2>1. \A o \in Elems(s \o Reply(to)) : o.op # "ring" /\ ~Sounds(o)
    BY <1>1, PlanReply DEF Mute, Sounds
  <2> QED BY <1>1, <2>1, PlanReply DEF Mute
<1>2. CASE c = "exit"
  BY <1>2, PlanExit DEF CommandOps
<1>3. CASE c = "on"
  <2>1. CommandOps(c, to, w) = watcher_spawn(w) \o Reply(to)
    BY <1>3 DEF CommandOps
  <2>2. /\ Plan(watcher_spawn(w)) /\ Mute(watcher_spawn(w))
        /\ \A o \in Elems(watcher_spawn(w)) : o.op # "exit" /\ (o.op = "watch" => o.who = w)
    BY <1>3, PlanOn
  <2>3. \A o \in Elems(watcher_spawn(w) \o Reply(to)) : o.op = "watch" => o.who = w
    BY <2>2, PlanReply
  <2> QED BY <1>1, <1>3, <2>1, <2>2, <2>3
<1>4. CASE c = "off"
  <2> DEFINE s == watcher_kill \o status(Msg("off"))
  <2>1. CommandOps(c, to, w) = s \o Reply(to)
    BY <1>4 DEF CommandOps
  <2>2. Plan(s) /\ Mute(s) /\ \A o \in Elems(s) : o.op \notin {"exit", "watch"}
    BY PlanOff
  <2> HIDE DEF s
  <2>3. \A o \in Elems(s \o Reply(to)) : o.op # "watch"
    BY <2>2, PlanReply
  <2> QED BY <1>1, <2>1, <2>2, <2>3
<1>5. CASE c = "pname"
  <2> DEFINE m == Msg("pname")
             s == status(m)
  <2>1. CommandOps(c, to, w) = s \o Reply(to)
    BY <1>5 DEF CommandOps
  <2>2. m \in Message /\ m.kind = "pname"
    BY MsgOK DEF Kinds
  <2> HIDE DEF m
  <2>3. s \in Seq(Ops) /\ Ordered(s) /\ Elems(s) = {RegOp(m), OutOp(m)}
    BY <2>2, Blocks
  <2> HIDE DEF s
  <2>4. \A o \in Elems(s) : /\ Needs(o) = {} /\ o.op \notin {"kill", "exit", "watch", "ring"}
                            /\ ~Sounds(o)
    BY <2>2, <2>3 DEF Needs, Sounds, RegOp, OutOp
  <2>5. Plan(s) /\ Mute(s)
    BY <2>3, <2>4 DEF Plan, Mute, Kills
  <2>6. \A o \in Elems(s \o Reply(to)) : o.op # "watch"
    BY <2>4, <2>5, PlanReply
  <2> QED BY <1>1, <2>1, <2>4, <2>5, <2>6
<1>6. CASE c \notin {"exit", "on", "off", "pname"}
  <2>1. CommandOps(c, to, w) = Reply(to)
    BY <1>6 DEF CommandOps
  <2>2. \A o \in Elems(Reply(to)) : /\ Needs(o) = {}
                                    /\ o.op \notin {"kill", "exit", "watch", "ring"} /\ ~Sounds(o)
    BY Blocks DEF Needs, Sounds
  <2>3. Plan(Reply(to)) /\ Mute(Reply(to))
    BY <2>2, Blocks DEF Plan, Mute, Kills
  <2> QED BY <2>1, <2>2, <2>3
<1> QED BY <1>2, <1>3, <1>4, <1>5, <1>6

\* What executing the first statement h of an ordered list leaves.
LEMMA PopKeeps ==
    ASSUME NEW s \in Seq(Ops), s # <<>>, Ordered(s),
           NEW h, h = Head(s), NEW t, t = Tail(s)
    PROVE  /\ Ordered(t)
           /\ h \in Elems(s) /\ \A b \in Elems(t) : b \in Elems(s) /\ Follows(h, b)
           /\ \A c : /\ Kills(t, c) => Kills(s, c)
                     /\ Kills(s, c) => Kills(t, c) \/ (h.op = "kill" /\ h.cell = c)
           /\ \A c \in Needs(h) : ~Kills(s, c)
           /\ ~Rings(t) /\ (Rings(s) => h.op = "ring")
           /\ Ends(s) => Ends(t) \/ Ending(h)
           /\ Kills(t, "ring") => ~Ending(h)
           /\ Announces(s) => Announces(t) \/ (h.op = "out" /\ Sounds(h))
           /\ SaysNil(s) => SaysNil(t) \/ (h.op = "out" /\ h.msg.kind = "nil")
<1>1. Elems(s) = {h} \cup Elems(t) /\ Ordered(t) /\ \A b \in Elems(t) : Follows(h, b)
  BY ElemsPop
<1>2. \A c : /\ Kills(t, c) => Kills(s, c)
             /\ Kills(s, c) => Kills(t, c) \/ (h.op = "kill" /\ h.cell = c)
  BY <1>1 DEF Kills
<1>3. \A c \in Needs(h) : ~Kills(s, c)
  <2>1. \A c \in Needs(h) : h.op # "kill"
    BY DEF Needs
  <2>2. \A b \in Elems(t) : b.op = "kill" => b.cell \notin Needs(h)
    BY <1>1 DEF Follows
  <2> QED BY <1>1, <2>1, <2>2 DEF Kills
<1>4. ~Rings(t) /\ (Rings(s) => h.op = "ring")
  BY <1>1 DEF Rings, Follows
<1>5. Ends(s) => Ends(t) \/ Ending(h)
  BY <1>1 DEF Ends
<1>6. Kills(t, "ring") => ~Ending(h)
  BY <1>1 DEF Kills, Follows
<1>7. Announces(s) => Announces(t) \/ (h.op = "out" /\ Sounds(h))
  BY <1>1 DEF Announces
<1>8. SaysNil(s) => SaysNil(t) \/ (h.op = "out" /\ h.msg.kind = "nil")
  BY <1>1 DEF SaysNil
<1> QED BY <1>1, <1>2, <1>3, <1>4, <1>5, <1>6, <1>7, <1>8

(***************************************************************************)
(* What the processes are doing while ctlproc executes its statements       *)
(***************************************************************************)

\* Nobody is left of the processes whose pid the global c holds.
Quiet(c) == \A p \in ProcsOf(c) : ~Alive(p)

\* The identity an "on" claims is used once, and not before it is started.
Started(w) == pc[w] \notin {"unborn", "claimed"}

Ringing == \E r \in Ringers : Alive(r)

\* w reports no change before the bell is off.
Silent(w) == \/ pc[w] = "spawned"
             \/ pc[w] = "watch" /\ wstate[w] = 0
             \/ pc[w] = "report" /\ wstate[w] = 1

\* The list is ordered, and the bell is not silenced without a consequence.
ListInv == Ordered(todo) /\ (Kills(todo, "ring") => Ends(todo))

\* A watcher named in an "on" is one that has not started, and named once; the
\* global holds only one that has started.
ClaimInv ==
    /\ \A p \in Callers : cmd[p].name = "on" => pc[cmd[p].who] = "claimed"
    /\ \A p, q \in Callers :
          cmd[p].name = "on" /\ cmd[q].name = "on" /\ cmd[p].who = cmd[q].who => p = q
    /\ \A o \in Elems(todo) : o.op = "watch" =>
          /\ pc[o.who] = "claimed"
          /\ \A p \in Callers : cmd[p].name = "on" => cmd[p].who # o.who
    /\ \A w \in Watchers : pid["watcher"] = w => Started(w)

\* A shutdown says goodbye before ctlproc exits.
ByeInv ==
    /\ view.reader.kind = "nil" => pc["reader"] = "dead"
    /\ ctlproc = "exited" => view.reader.kind = "nil"
    /\ (\E o \in Elems(todo) : o.op = "exit") => view.reader.kind = "nil" \/ SaysNil(todo)

\* A global holds whoever of its processes has started.
Recorded == \A c \in Cells : \A p \in ProcsOf(c) : Alive(p) /\ pc[p] # "spawned" => pid[c] = p

\* At most one watcher, which watchertype names, and one ringer are alive.
PidInv ==
    /\ Recorded
    /\ \A w \in Watchers : Alive(w) => w = watchertype
    /\ \A q, r \in Ringers : Alive(q) /\ Alive(r) => q = r

\* What a statement still to come needs is so already, or a kill is to come.
PendingInv ==
    /\ \A o \in Elems(todo) : \A c \in Needs(o) : Quiet(c) \/ Kills(todo, c)
    /\ ctlproc = "exited" => \A c \in Cells : Quiet(c)

\* A watcher that has yet to report finds the bell off, or about to be.
SilentInv == \A w \in Watchers : Silent(w) => ~Ringing \/ Kills(todo, "ring")

\* A bell is rung when none rings, no watcher is silent, and it is announced.
RingInv == Rings(todo) => ~Ringing /\ Announces(todo) /\ \A w \in Watchers : ~Silent(w)

\* What is said to ring rings, or will before it is said.
SoundInv == \A o \in Elems(todo) : Sounds(o) =>
                (Ringing \/ Rings(todo)) /\ o.msg.of \in Watchers /\ Started(o.msg.of)

\* Where the bell is said to be off, it is, or the reader is about to be told.
OffInv == view.reader.kind \in {"none", "off", "running"} => ~Ringing \/ Announces(todo)

\* Where a watcher is said to ring, it has been started, and it rings unless
\* another watcher or no one has its place, or is about to.
NamedInv == view.reader.kind = "ringing" => view.reader.of \in Watchers /\ Started(view.reader.of)
OnInv == view.reader.kind = "ringing" /\ ctlproc = "run" /\ view.reader.of = watchertype =>
             Ringing \/ Ends(todo)

\* The bell, the watcher that has yet to report, and what is still to be said.
BellInv == SilentInv /\ RingInv /\ SoundInv /\ OffInv /\ NamedInv /\ OnInv

\* The inductive invariant behind OneWatcher, BellMatchesStatus and
\* ExitIsComplete: the last three parts only without a kill that came too
\* early.
EngineInv ==
    /\ TInv /\ ListInv /\ ClaimInv /\ ByeInv
    /\ raced = {} => PidInv /\ PendingInv /\ BellInv

\* Distinct globals hold distinct processes.
LEMMA ProcsApart ==
    /\ \A c \in Cells : ProcsOf(c) \subseteq Procs /\ None \notin ProcsOf(c)
    /\ \A c, d \in Cells : c # d => ProcsOf(c) \cap ProcsOf(d) = {}
    /\ ProcsOf("watcher") = Watchers /\ ProcsOf("ring") = Ringers
    /\ \A c \in {"heartbeat", "registry", "ctlfile"} : ProcsOf(c) = {c}
    /\ "watcher" \in Cells /\ "ring" \in Cells
    /\ Watchers \cap Ringers = {} /\ Callers \cap Watchers = {} /\ Callers \cap Ringers = {}
    /\ Watchers \subseteq Procs /\ Ringers \subseteq Procs /\ Callers \subseteq Procs
    /\ Static \subseteq Procs /\ Static \cap Watchers = {} /\ Static \cap Ringers = {}
    /\ None \notin Watchers /\ None \notin Ringers
BY ConstantsAssumption DEF ProcsOf, Cells, Procs, Static, Callers

\* How a process moves in a step that neither kills nor starts one.
GoesOn(q) ==
    \/ pc'[q] = pc[q]
    \/ pc[q] = "unborn" /\ pc'[q] = "claimed"
    \/ /\ Alive(q) /\ pc'[q] \notin {"unborn", "claimed"}
       /\ q \in Ringers => pc'[q] # "dead"

\* The actions that neither kill nor start a process: statements of ctlproc,
Utter == Clear \/ SendRegistry \/ SendOut \/ SendReply \/ Exit

\* its alt,
Take == \/ \E p \in Callers : RecvCommand(p)
        \/ \E w \in Watchers : RecvReport(w)
        \/ \E p \in {"registry", "reader"} : RecvDie(p)

\* and whatever happens while ctlproc waits.
Others == \/ \E w \in Watchers : watcherproc(w) \/ WatcherScan(w)
          \/ \E r \in Ringers : ringproc(r)
          \/ heartbeatproc \/ registryproc \/ run \/ ctlfileproc
          \/ \E p \in Callers, c \in Cmds, wait \in BOOLEAN : ctl(p, c, wait)
          \/ UNCHANGED vars

\* These are all the steps.
LEMMA AllSteps == [Next]_vars => Kill \/ SpawnWatcher \/ ringproc_spawn \/ Utter \/ Take \/ Others
BY DEF Next, CtlStatement, Stopped, Utter, Take, Others

\* A process that moves from one place of the living to another goes on.
LEMMA MoveGoesOn ==
    ASSUME TInv, NEW p \in Procs, Alive(p), NEW x, pc' = [pc EXCEPT ![p] = x],
           x \notin {"unborn", "claimed"}, p \in Ringers => x # "dead"
    PROVE  \A q \in Procs : GoesOn(q)
<1>1. pc \in [Procs -> Places]
  BY DEF TInv, TypeOK
<1>2. \A q \in Procs : pc'[q] = IF q = p THEN x ELSE pc[q]
  BY <1>1
<1> QED BY <1>2 DEF GoesOn

\* Nothing but a start brings a process to life, and nothing but a kill or
\* the end of a watcher takes one.
LEMMA Motion ==
    ASSUME TInv, Utter \/ Take \/ Others
    PROVE  \A q \in Procs : GoesOn(q)
<1>0. /\ pc \in [Procs -> Places]
      /\ \A p \in {"run", "reader", "heartbeat", "registry", "ctlfile", "caller"} :
            p \in Procs /\ p \notin Ringers /\ p \notin Watchers
      /\ \A w \in Watchers : w \in Procs /\ w \notin Ringers /\ w \notin Callers
      /\ \A r \in Ringers : r \in Procs /\ r \notin Callers
      /\ \A p \in Callers : p \in Procs /\ p \notin Ringers /\ p \notin Watchers
  <2>1. {"run", "reader", "heartbeat", "registry", "ctlfile", "caller"} \subseteq Static
    BY DEF Static, Callers
  <2>2. pc \in [Procs -> Places]
    BY DEF TInv, TypeOK
  <2>3. Static \cap Watchers = {} /\ Static \cap Ringers = {} /\ Watchers \cap Ringers = {}
        /\ Callers \subseteq Static
    BY ProcsApart DEF Static
  <2> QED BY <2>1, <2>2, <2>3 DEF Procs
<1>n. \A next \in {"recv", "die", "dead"} : next \notin {"unborn", "claimed"}
  OBVIOUS
<1>r. RegistryNext \subseteq {"recv", "die"} /\ ReaderNext \subseteq {"recv", "die"}
  BY DEF RegistryNext, ReaderNext
<1>1. CASE pc' = pc
  BY <1>1 DEF GoesOn
<1>2. CASE SendRegistry
  <2>1. PICK next \in {"recv", "die"} : pc' = [pc EXCEPT !["registry"] = next]
    BY <1>2, <1>r DEF SendRegistry
  <2>2. Alive("registry")
    BY <1>2 DEF SendRegistry, Alive
  <2> QED BY <1>0, <2>1, <2>2, MoveGoesOn
<1>3. CASE SendOut
  <2>1. PICK next \in {"recv", "die", "dead"} : pc' = [pc EXCEPT !["reader"] = next]
    BY <1>3, <1>r DEF SendOut
  <2>2. Alive("reader")
    BY <1>3 DEF SendOut, Alive
  <2> QED BY <1>0, <1>n, <2>1, <2>2, MoveGoesOn
<1>4. CASE SendReply
  <2> DEFINE p == Head(todo).to
  <2>1. p \in Callers
    BY <1>4, Pop, OpFields DEF SendReply, TInv
  <2>2. PICK next \in {"answer", "serve"} : pc' = [pc EXCEPT ![p] = next]
    BY <1>4 DEF SendReply
  <2>3. Alive(p)
    BY <1>4 DEF SendReply, Alive
  <2> HIDE DEF p
  <2> QED BY <1>0, <2>1, <2>2, <2>3, MoveGoesOn
<1>5. ASSUME NEW p \in Callers, RecvCommand(p) PROVE \A q \in Procs : GoesOn(q)
  <2>1. PICK next \in {"wait", "serve"} : pc' = [pc EXCEPT ![p] = next]
    BY <1>5 DEF RecvCommand
  <2>2. Alive(p)
    BY <1>5 DEF RecvCommand, Alive
  <2> QED BY <1>0, <2>1, <2>2, MoveGoesOn
<1>6. ASSUME NEW w \in Watchers, RecvReport(w) PROVE \A q \in Procs : GoesOn(q)
  <2>1. PICK next \in {"watch", "return", "dead"} : pc' = [pc EXCEPT ![w] = next]
    BY <1>6 DEF RecvReport
  <2>2. Alive(w)
    BY <1>6 DEF RecvReport, Alive
  <2> QED BY <1>0, <2>1, <2>2, MoveGoesOn
<1>7. ASSUME NEW p \in {"registry", "reader"}, RecvDie(p) PROVE \A q \in Procs : GoesOn(q)
  <2>1. PICK next \in {"recv", "die"} : pc' = [pc EXCEPT ![p] = next]
    BY <1>7, <1>r DEF RecvDie
  <2>2. Alive(p)
    BY <1>7 DEF RecvDie, Alive
  <2> QED BY <1>0, <2>1, <2>2, MoveGoesOn
<1>8. ASSUME NEW w \in Watchers, watcherproc(w) \/ WatcherScan(w)
      PROVE  \A q \in Procs : GoesOn(q)
  <2>1. PICK next \in {"return", "error", "report"} : pc' = [pc EXCEPT ![w] = next]
    BY <1>8 DEF watcherproc, WatcherScan
  <2>2. Alive(w)
    BY <1>8 DEF watcherproc, WatcherScan, Alive
  <2> QED BY <1>0, <2>1, <2>2, MoveGoesOn
<1>9. ASSUME NEW r \in Ringers, ringproc(r) PROVE \A q \in Procs : GoesOn(q)
  <2>1. CASE pc[r] = "spawned"
    <3>1. PICK x \in {"ring"} : pc' = [pc EXCEPT ![r] = x] /\ Alive(r)
      BY <1>9, <2>1 DEF ringproc, Alive
    <3> QED BY <1>0, <3>1, MoveGoesOn
  <2>2. CASE pc[r] # "spawned"
    <3>1. PICK next \in {"recv", "die"} : pc' = [pc EXCEPT !["reader"] = next]
      BY <1>9, <1>r, <2>2 DEF ringproc
    <3>2. Alive("reader")
      BY <1>9, <2>2 DEF ringproc, Alive
    <3> QED BY <1>0, <3>1, <3>2, MoveGoesOn
  <2> QED BY <2>1, <2>2
<1>10. CASE heartbeatproc \/ registryproc \/ ctlfileproc
  <2>1. PICK p \in {"heartbeat", "registry", "ctlfile"}, next \in {"beat", "recv", "die", "serve"} :
           pc' = [pc EXCEPT ![p] = next] /\ Alive(p)
    BY <1>10, <1>r DEF heartbeatproc, registryproc, ctlfileproc, Alive
  <2> QED BY <1>0, <2>1, MoveGoesOn
<1>11. CASE run
  <2>1. PICK p \in {"registry", "reader"}, next \in {"recv", "die"}, x \in {"announce", "dead"} :
           /\ pc' = [pc EXCEPT !["run"] = x, ![p] = next]
           /\ Alive(p) /\ Alive("run")
    BY <1>11, <1>r DEF run, Alive
  <2>2. \A q \in Procs : pc'[q] = IF q = p THEN next ELSE IF q = "run" THEN x ELSE pc[q]
    BY <1>0, <2>1
  <2>3. "run" \notin Ringers /\ p \notin Ringers
    BY <1>0
  <2> QED BY <2>1, <2>2, <2>3 DEF GoesOn
<1>12. ASSUME NEW p \in Callers, NEW c \in Cmds, NEW wait \in BOOLEAN, ctl(p, c, wait)
       PROVE  \A q \in Procs : GoesOn(q)
  <2>1. Alive(p)
    BY <1>12 DEF ctl, Alive
  <2>2. CASE c = "on"
    <3>1. PICK w \in Watchers :
             pc[w] = "unborn" /\ pc' = [pc EXCEPT ![p] = "call", ![w] = "claimed"]
      BY <1>12, <2>2 DEF ctl
    <3>2. \A q \in Procs : pc'[q] = IF q = w THEN "claimed" ELSE IF q = p THEN "call" ELSE pc[q]
      BY <1>0, <3>1
    <3> QED BY <1>0, <2>1, <3>1, <3>2 DEF GoesOn
  <2>3. CASE c # "on"
    <3>1. PICK x \in {"call"} : pc' = [pc EXCEPT ![p] = x]
      BY <1>12, <2>3 DEF ctl
    <3> QED BY <1>0, <2>1, <3>1, MoveGoesOn
  <2> QED BY <2>2, <2>3
<1>13. CASE Clear \/ Exit \/ UNCHANGED vars
  BY <1>1, <1>13 DEF Clear, Exit, vars
<1> QED BY <1>2, <1>3, <1>4, <1>5, <1>6, <1>7, <1>8, <1>9, <1>10, <1>11, <1>12, <1>13
       DEF Utter, Take, Others

\* What follows for the living, the dead and the claimed.
LEMMA Carry ==
    ASSUME \A q \in Procs : GoesOn(q)
    PROVE  /\ \A q \in Procs : /\ Alive(q)' => Alive(q)
                               /\ Started(q) => Started(q)'
                               /\ pc[q] = "claimed" => pc'[q] = "claimed"
                               /\ pc[q] = "dead" => pc'[q] = "dead"
           /\ \A r \in Ringers : Alive(r)' <=> Alive(r)
           /\ Ringing' <=> Ringing
           /\ \A c \in Cells : Quiet(c) => Quiet(c)'
<1>1. \A q \in Procs : /\ Alive(q)' => Alive(q)
                       /\ Started(q) => Started(q)'
                       /\ pc[q] = "claimed" => pc'[q] = "claimed"
                       /\ pc[q] = "dead" => pc'[q] = "dead"
  BY DEF GoesOn, Alive, Started
<1>2. \A r \in Ringers : Alive(r)' <=> Alive(r)
  BY ProcsApart DEF GoesOn, Alive
<1>3. Ringing' <=> Ringing
  BY <1>2 DEF Ringing
<1>4. \A c \in Cells : Quiet(c) => Quiet(c)'
  <2> SUFFICES ASSUME NEW c \in Cells, Quiet(c), NEW p \in ProcsOf(c)' PROVE ~Alive(p)'
    BY DEF Quiet
  <2>1. p \in ProcsOf(c) /\ p \in Procs
    BY ProcsApart DEF ProcsOf
  <2> QED BY <1>1, <2>1 DEF Quiet
<1> QED BY <1>1, <1>2, <1>3, <1>4

\* What ctlproc takes in its alt.
LEMMA TakesPlan ==
    ASSUME TInv, Take
    PROVE  /\ AtAlt /\ Plan(todo') /\ UNCHANGED <<view, watchertype, pid, raced, wstate>>
           /\ ctlproc' # "exited"
           /\ \/ Mute(todo')
              \/ \E w \in Watchers : /\ pc[w] = "report" /\ wstate[w] = 1
                                     /\ pc' = [pc EXCEPT ![w] = "watch"]
                                     /\ todo' = ReportOps(1)
           /\ \A o \in Elems(todo') : o.op = "watch" =>
                 \E p \in Callers : /\ cmd[p].name = "on" /\ o.who = cmd[p].who
                                    /\ cmd' = [cmd EXCEPT ![p] = NoCmd]
           /\ cmd' = cmd \/ \E p \in Callers : cmd' = [cmd EXCEPT ![p] = NoCmd]
<1>0. watchertype \in Watchers \cup {None} /\ \A w \in Watchers : wstate[w] \in {-1, 0, 1}
  BY DEF TInv, TypeOK
<1>1. ASSUME NEW p \in Callers, RecvCommand(p)
      PROVE  /\ AtAlt /\ Plan(todo') /\ UNCHANGED <<view, watchertype, pid, raced, wstate>>
             /\ ctlproc' # "exited" /\ Mute(todo')
             /\ \A o \in Elems(todo') : o.op = "watch" =>
                   cmd[p].name = "on" /\ o.who = cmd[p].who
             /\ cmd' = [cmd EXCEPT ![p] = NoCmd]
  <2>1. /\ AtAlt /\ UNCHANGED <<view, watchertype, pid, raced, wstate>>
        /\ ctlproc' # "exited" /\ cmd' = [cmd EXCEPT ![p] = NoCmd]
    BY <1>1 DEF RecvCommand, AtAlt
  <2>2. CASE cmd[p].name = "short"
    <3>1. todo' = <<>>
      BY <1>1, <2>2 DEF RecvCommand, AtAlt
    <3>2. Plan(<<>>) /\ Mute(<<>>) /\ Elems(<<>>) = {}
      BY ElemsShort DEF Plan, Mute, Kills
    <3> QED BY <2>1, <3>1, <3>2
  <2>3. CASE cmd[p].name # "short"
    <3> DEFINE to == IF cmd[p].wait THEN p ELSE None
    <3>1. to \in Callers \cup {None}
      OBVIOUS
    <3>2. cmd[p].name = "on" => cmd[p].who \in Watchers
      BY DEF TInv
    <3>3. todo' = CommandOps(cmd[p].name, to, cmd[p].who)
      BY <1>1, <2>3 DEF RecvCommand
    <3> HIDE DEF to
    <3>4. /\ Plan(todo') /\ Mute(todo')
          /\ \A o \in Elems(todo') : o.op = "watch" => cmd[p].name = "on" /\ o.who = cmd[p].who
      BY <3>1, <3>2, <3>3, PlanCommand
    <3> QED BY <2>1, <3>4
  <2> QED BY <2>2, <2>3
<1>2. ASSUME NEW w \in Watchers, RecvReport(w)
      PROVE  /\ AtAlt /\ Plan(todo') /\ UNCHANGED <<view, watchertype, pid, raced, wstate>>
             /\ ctlproc' # "exited"
             /\ \/ Mute(todo')
                \/ /\ pc[w] = "report" /\ wstate[w] = 1
                   /\ pc' = [pc EXCEPT ![w] = "watch"]
                   /\ todo' = ReportOps(1)
             /\ \A o \in Elems(todo') : o.op # "watch"
             /\ cmd' = cmd
  <2>1. /\ AtAlt /\ UNCHANGED <<view, watchertype, pid, raced, wstate>>
        /\ ctlproc' # "exited" /\ cmd' = cmd
    BY <1>2 DEF RecvReport, AtAlt
  <2>2. \/ todo' = ReportOps(-1) \/ todo' = ReportOps(0)
        \/ /\ todo' = ReportOps(1)
           /\ pc[w] = "report" /\ wstate[w] = 1
           /\ pc' = [pc EXCEPT ![w] = "watch"]
    BY <1>0, <1>2 DEF RecvReport
  <2>3. CASE todo' = ReportOps(-1)
    <3>1. ReportOps(-1) = watcher_kill \o status(Msg("off"))
      BY DEF ReportOps
    <3> QED BY <2>1, <2>3, <3>1, PlanOff
  <2>4. CASE todo' = ReportOps(0)
    BY <1>0, <2>1, <2>4, PlanRunning
  <2>5. CASE todo' = ReportOps(1) /\ pc[w] = "report" /\ wstate[w] = 1
             /\ pc' = [pc EXCEPT ![w] = "watch"]
    BY <1>0, <2>1, <2>5, PlanRinging
  <2> QED BY <2>2, <2>3, <2>4, <2>5
<1>3. ASSUME NEW p \in {"registry", "reader"}, RecvDie(p)
      PROVE  /\ AtAlt /\ Plan(todo') /\ UNCHANGED <<view, watchertype, pid, raced, wstate>>
             /\ ctlproc' # "exited" /\ Mute(todo')
             /\ \A o \in Elems(todo') : o.op # "watch"
             /\ cmd' = cmd
  <2>1. /\ AtAlt /\ UNCHANGED <<view, watchertype, pid, raced, wstate>>
        /\ ctlproc' # "exited" /\ cmd' = cmd /\ todo' = ExitOps(None)
    BY <1>3 DEF RecvDie, AtAlt
  <2> QED BY <2>1, PlanExit
<1> QED BY <1>1, <1>2, <1>3 DEF Take

\* The executed statement h, and what is left.
LEMMA Executed ==
    ASSUME TInv, ListInv, NEW k, Executing(k), todo' = Tail(todo)
    PROVE  \E h \in Ops :
             /\ h = Head(todo) /\ h.op = k /\ ListInv'
             /\ h \in Elems(todo) /\ \A b \in Elems(todo') : b \in Elems(todo) /\ Follows(h, b)
             /\ \A c : /\ Kills(todo', c) => Kills(todo, c)
                       /\ Kills(todo, c) => Kills(todo', c) \/ (h.op = "kill" /\ h.cell = c)
             /\ \A c \in Needs(h) : ~Kills(todo, c)
             /\ ~Rings(todo') /\ (Rings(todo) => k = "ring")
             /\ Ends(todo) => Ends(todo') \/ Ending(h)
             /\ Announces(todo) => Announces(todo') \/ (k = "out" /\ Sounds(h))
             /\ SaysNil(todo) => SaysNil(todo') \/ (k = "out" /\ h.msg.kind = "nil")
<1>1. todo \in Seq(Ops) /\ todo # <<>> /\ Ordered(todo)
  BY DEF TInv, TypeOK, Executing, ListInv
<1> DEFINE h == Head(todo)
<1>2. h \in Ops /\ h.op = k
  BY <1>1 DEF Executing
<1>3. /\ Ordered(todo')
      /\ h \in Elems(todo) /\ \A b \in Elems(todo') : b \in Elems(todo) /\ Follows(h, b)
      /\ \A c : /\ Kills(todo', c) => Kills(todo, c)
                /\ Kills(todo, c) => Kills(todo', c) \/ (h.op = "kill" /\ h.cell = c)
      /\ \A c \in Needs(h) : ~Kills(todo, c)
      /\ ~Rings(todo') /\ (Rings(todo) => h.op = "ring")
      /\ Ends(todo) => Ends(todo') \/ Ending(h)
      /\ Kills(todo', "ring") => ~Ending(h)
      /\ Announces(todo) => Announces(todo') \/ (h.op = "out" /\ Sounds(h))
      /\ SaysNil(todo) => SaysNil(todo') \/ (h.op = "out" /\ h.msg.kind = "nil")
  BY <1>1, PopKeeps
<1> HIDE DEF h
<1>4. ListInv'
  BY <1>3 DEF ListInv
<1> QED BY <1>2, <1>3, <1>4 DEF h

\* While ctlproc waits, its statements and globals stay, and what it said.
LEMMA OthersFrame == Others => UNCHANGED <<ctlproc, todo, watchertype, view, raced>>
BY Zenon DEF Others, watcherproc, WatcherScan, ringproc, heartbeatproc, registryproc, run,
             ctlfileproc, ctl, vars

\* The statements of ctlproc are members of Ops.
LEMMA ElemsOps == TInv => \A o \in Elems(todo) : o \in Ops
BY DEF TInv, TypeOK, Elems

\* Every step keeps the list of statements ordered.
LEMMA NextListInv ==
    ASSUME TInv, ListInv, [Next]_vars
    PROVE  ListInv'
<1>1. CASE Kill
  BY <1>1, Executed DEF Kill
<1>2. CASE SpawnWatcher
  BY <1>2, Executed DEF SpawnWatcher
<1>3. CASE ringproc_spawn
  BY <1>3, Executed DEF ringproc_spawn
<1>4. CASE Clear
  BY <1>4, Executed DEF Clear
<1>5. CASE SendRegistry
  BY <1>5, Executed DEF SendRegistry
<1>6. CASE SendOut
  BY <1>6, Executed DEF SendOut
<1>7. CASE SendReply
  BY <1>7, Executed DEF SendReply
<1>8. CASE Exit
  BY <1>8, Executed DEF Exit
<1>9. CASE Take
  BY <1>9, TakesPlan DEF Plan, ListInv
<1>10. CASE Others
  <2>1. todo' = todo
    BY <1>10, OthersFrame
  <2> QED BY <2>1 DEF ListInv
<1> QED BY <1>1, <1>2, <1>3, <1>4, <1>5, <1>6, <1>7, <1>8, <1>9, <1>10, AllSteps DEF Utter

\* A step that takes no claim and makes none keeps the claims.
LEMMA ClaimKept ==
    ASSUME TInv, ClaimInv, cmd' = cmd, Elems(todo') \subseteq Elems(todo),
           \A w \in Watchers : /\ pc[w] = "claimed" => pc'[w] = "claimed"
                               /\ Started(w) => Started(w)'
                               /\ pid'["watcher"] = w => pid["watcher"] = w \/ Started(w)'
    PROVE  ClaimInv'
<1>1. \A p \in Callers : cmd[p].name = "on" => cmd[p].who \in Watchers
  BY DEF TInv
<1>2. \A o \in Elems(todo) : o.op = "watch" => o.who \in Watchers
  BY ElemsOps, OpFields
<1>3. \A p \in Callers : cmd'[p].name = "on" => pc'[cmd'[p].who] = "claimed"
  BY <1>1 DEF ClaimInv
<1>4. \A o \in Elems(todo') : o.op = "watch" =>
          /\ pc'[o.who] = "claimed"
          /\ \A p \in Callers : cmd'[p].name = "on" => cmd'[p].who # o.who
  BY <1>2 DEF ClaimInv
<1>5. \A w \in Watchers : pid'["watcher"] = w => Started(w)'
  BY DEF ClaimInv
<1>6. \A p, q \in Callers :
        cmd'[p].name = "on" /\ cmd'[q].name = "on" /\ cmd'[p].who = cmd'[q].who => p = q
  BY DEF ClaimInv
<1> QED BY <1>3, <1>4, <1>5, <1>6 DEF ClaimInv

\* Every step keeps the claims of the "on" commands.
LEMMA NextClaimInv ==
    ASSUME TInv, ListInv, ClaimInv, [Next]_vars
    PROVE  ClaimInv'
<1>0. /\ pc \in [Procs -> Places] /\ pid \in [Cells -> Procs \cup {None}]
      /\ \A c \in Cells : pid[c] \in ProcsOf(c) \cup {None}
      /\ \A p \in Callers : cmd[p].name = "on" => cmd[p].who \in Watchers
      /\ cmd \in [Callers -> [name : AllCmds \cup {"none"}, wait : BOOLEAN,
                              who : Watchers \cup {None}]]
  BY DEF TInv, TypeOK
<1>w. \A w \in Watchers : w \in Procs
  BY ProcsApart
<1>1. CASE Kill
  <2>1. PICK h \in Ops : h = Head(todo) /\ h.op = "kill" /\ \A b \in Elems(todo') : b \in Elems(todo)
    BY <1>1, Executed DEF Kill
  <2>2. h.cell \in Cells
    BY <2>1, OpFields
  <2>3. \A p \in Procs : pc'[p] = IF p = pid[h.cell] THEN "dead" ELSE pc[p]
    BY <1>1, <2>1 DEF Kill
  <2>4. ASSUME NEW w \in Watchers, pc[w] = "claimed" PROVE w # pid[h.cell]
    <3>1. h.cell # "watcher" => w \notin ProcsOf(h.cell) \cup {None}
      BY <2>2, ProcsApart
    <3>2. pid["watcher"] # w
      BY <2>4 DEF ClaimInv, Started
    <3> QED BY <1>0, <2>2, <3>1, <3>2
  <2>5. \A w \in Watchers : /\ pc[w] = "claimed" => pc'[w] = "claimed"
                            /\ Started(w) => Started(w)'
    BY <1>w, <2>3, <2>4 DEF Started
  <2>6. cmd' = cmd /\ pid' = pid
    BY <1>1 DEF Kill
  <2> QED BY <2>1, <2>5, <2>6, ClaimKept
<1>2. CASE SpawnWatcher
  <2>1. PICK h \in Ops : /\ h = Head(todo) /\ h.op = "watch" /\ h \in Elems(todo)
                         /\ \A b \in Elems(todo') : b \in Elems(todo) /\ Follows(h, b)
    BY <1>2, Executed DEF SpawnWatcher
  <2>2. h.who \in Watchers
    BY <2>1, OpFields
  <2>3. /\ \A p \in Procs : pc'[p] = IF p = h.who THEN "spawned" ELSE pc[p]
        /\ cmd' = cmd /\ pid' = pid
    BY <1>0, <1>2, <2>1 DEF SpawnWatcher
  <2>4. \A o \in Elems(todo') : o.op # "watch"
    BY <2>1 DEF Follows
  <2>5. \A p \in Callers : cmd[p].name = "on" => cmd[p].who # h.who
    BY <2>1 DEF ClaimInv
  <2>6. \A p \in Callers : cmd'[p].name = "on" => pc'[cmd'[p].who] = "claimed"
    BY <1>0, <1>w, <2>3, <2>5 DEF ClaimInv
  <2>7. \A w \in Watchers : Started(w) => Started(w)'
    BY <1>w, <2>3 DEF Started
  <2>8. \A w \in Watchers : pid'["watcher"] = w => Started(w)'
    BY <2>3, <2>7 DEF ClaimInv
  <2>9. \A p, q \in Callers :
          cmd'[p].name = "on" /\ cmd'[q].name = "on" /\ cmd'[p].who = cmd'[q].who => p = q
    BY <2>3 DEF ClaimInv
  <2> QED BY <2>4, <2>6, <2>8, <2>9 DEF ClaimInv
<1>3. CASE ringproc_spawn
  <2>1. \A b \in Elems(todo') : b \in Elems(todo)
    BY <1>3, Executed DEF ringproc_spawn
  <2>2. PICK r \in Ringers : pc' = [pc EXCEPT ![r] = "spawned"]
    BY <1>3 DEF ringproc_spawn
  <2>3. \A w \in Watchers : pc'[w] = pc[w]
    BY <1>0, <1>w, <2>2, ProcsApart
  <2>4. cmd' = cmd /\ pid' = pid
    BY <1>3 DEF ringproc_spawn
  <2> QED BY <2>1, <2>3, <2>4, ClaimKept DEF Started
<1>4. CASE Utter
  <2>1. \A b \in Elems(todo') : b \in Elems(todo)
    <3>1. PICK k : Executing(k) /\ todo' = Tail(todo)
      BY <1>4 DEF Utter, Clear, SendRegistry, SendOut, SendReply, Exit
    <3> QED BY <3>1, Executed
  <2>2. \A w \in Watchers : /\ pc[w] = "claimed" => pc'[w] = "claimed"
                            /\ Started(w) => Started(w)'
    BY <1>4, <1>w, Motion, Carry
  <2>3. cmd' = cmd
    BY <1>4 DEF Utter, Clear, SendRegistry, SendOut, SendReply, Exit
  <2>4. \A w \in Watchers : pid'["watcher"] = w => pid["watcher"] = w
    <3>1. CASE Clear
      <4>1. PICK c \in Cells : pid' = [pid EXCEPT ![c] = None]
        BY <3>1, Pop, OpFields DEF Clear, TInv
      <4> QED BY <1>0, <4>1, ProcsApart
    <3>2. CASE ~Clear
      <4>1. pid' = pid
        BY <1>4, <3>2 DEF Utter, SendRegistry, SendOut, SendReply, Exit
      <4> QED BY <4>1
    <3> QED BY <3>1, <3>2
  <2> QED BY <2>1, <2>2, <2>3, <2>4, ClaimKept
<1>5. CASE Take
  <2>1. AtAlt /\ pid' = pid
    BY <1>5, TakesPlan
  <2>2. \A w \in Watchers : /\ pc[w] = "claimed" => pc'[w] = "claimed"
                            /\ Started(w) => Started(w)'
    BY <1>5, <1>w, Motion, Carry
  <2>3. \A p \in Callers : cmd'[p].name = "on" => cmd[p].name = "on" /\ cmd'[p].who = cmd[p].who
    <3>1. cmd' = cmd \/ \E p \in Callers : cmd' = [cmd EXCEPT ![p] = NoCmd]
      BY <1>5, TakesPlan
    <3>2. NoCmd.name # "on"
      BY DEF NoCmd
    <3> HIDE DEF NoCmd
    <3> QED BY <1>0, <3>1, <3>2
  <2>4. ASSUME NEW o \in Elems(todo'), o.op = "watch"
        PROVE  pc'[o.who] = "claimed" /\ \A q \in Callers : cmd'[q].name = "on" => cmd'[q].who # o.who
    <3>1. PICK p \in Callers : /\ cmd[p].name = "on" /\ o.who = cmd[p].who
                               /\ cmd' = [cmd EXCEPT ![p] = NoCmd]
      BY <1>5, <2>4, TakesPlan
    <3>2. pc'[o.who] = "claimed"
      BY <1>0, <2>2, <3>1 DEF ClaimInv
    <3>3. cmd'[p].name # "on"
      BY <1>0, <3>1 DEF NoCmd
    <3> QED BY <2>3, <3>1, <3>2, <3>3 DEF ClaimInv
  <2>5. \A p \in Callers : cmd'[p].name = "on" => pc'[cmd'[p].who] = "claimed"
    BY <1>0, <2>2, <2>3 DEF ClaimInv
  <2>6. \A w \in Watchers : pid'["watcher"] = w => Started(w)'
    BY <2>1, <2>2 DEF ClaimInv
  <2>7. \A p, q \in Callers :
          cmd'[p].name = "on" /\ cmd'[q].name = "on" /\ cmd'[p].who = cmd'[q].who => p = q
    BY <2>3 DEF ClaimInv
  <2> QED BY <2>4, <2>5, <2>6, <2>7 DEF ClaimInv
<1>6. CASE Others
  <2>1. todo' = todo
    BY <1>6, OthersFrame
  <2>2. \A w \in Watchers : /\ pc[w] = "claimed" => pc'[w] = "claimed"
                            /\ Started(w) => Started(w)'
    BY <1>6, <1>w, Motion, Carry
  <2>3. \A w \in Watchers : pid'["watcher"] = w => pid["watcher"] = w \/ Started(w)'
    <3>1. ASSUME NEW v \in Watchers, watcherproc(v)
          PROVE  \A w \in Watchers : pid'["watcher"] = w => Started(w)'
      <4>1. pid'["watcher"] = v
        BY <1>0, <3>1, ProcsApart DEF watcherproc
      <4>2. pc[v] = "spawned"
        BY <3>1 DEF watcherproc
      <4>3. Started(v)
        BY <4>2 DEF Started
      <4> QED BY <2>2, <4>1, <4>3
    <3>2. CASE ~\E v \in Watchers : watcherproc(v)
      <4>1. pid'["watcher"] = pid["watcher"]
        <5>1. pid' = pid \/ (\E r \in Ringers : ringproc(r)) \/ heartbeatproc \/ registryproc
                        \/ ctlfileproc
          BY <1>6, <3>2, Zenon DEF Others, WatcherScan, run, ctl, vars
        <5>2. ASSUME NEW r \in Ringers, ringproc(r) PROVE pid'["watcher"] = pid["watcher"]
          <6>1. pid' = pid \/ pid' = [pid EXCEPT !["ring"] = r]
            BY <5>2, Zenon DEF ringproc
          <6> QED BY <1>0, <6>1 DEF Cells
        <5>3. CASE heartbeatproc
          <6>1. pid' = pid \/ pid' = [pid EXCEPT !["heartbeat"] = "heartbeat"]
            BY <5>3, Zenon DEF heartbeatproc
          <6> QED BY <1>0, <6>1 DEF Cells
        <5>4. CASE registryproc
          BY <1>0, <5>4 DEF registryproc, Cells
        <5>5. CASE ctlfileproc
          <6>1. pid' = pid \/ pid' = [pid EXCEPT !["ctlfile"] = "ctlfile"]
            BY <5>5, Zenon DEF ctlfileproc
          <6> QED BY <1>0, <6>1 DEF Cells
        <5> QED BY <5>1, <5>2, <5>3, <5>4, <5>5
      <4> QED BY <4>1
    <3> QED BY <3>1, <3>2
  <2>4. ASSUME NEW p \in Callers, NEW c \in Cmds, NEW wait \in BOOLEAN, ctl(p, c, wait)
        PROVE  ClaimInv'
    <3>1. pid' = pid
      BY <2>4 DEF ctl
    <3>2. CASE c = "on"
      <4>1. PICK w \in Watchers :
              /\ pc[w] = "unborn"
              /\ cmd' = [cmd EXCEPT ![p] = [name |-> c, wait |-> wait, who |-> w]]
              /\ pc' = [pc EXCEPT ![p] = "call", ![w] = "claimed"]
        BY <2>4, <3>2 DEF ctl
      <4>2. /\ pc'[w] = "claimed" /\ cmd'[p].who = w
            /\ \A q \in Callers : q # p => cmd'[q] = cmd[q]
        BY <1>0, <1>w, <4>1
      <4>3. \A q \in Callers : cmd[q].name = "on" => pc[cmd[q].who] = "claimed"
        BY DEF ClaimInv
      <4>4. \A q \in Callers : cmd'[q].name = "on" => pc'[cmd'[q].who] = "claimed"
        BY <1>0, <2>2, <4>2, <4>3
      <4>5. \A q \in Callers : cmd[q].name = "on" => cmd[q].who # w
        BY <4>1, <4>3
      <4>6. \A q, r \in Callers :
              cmd'[q].name = "on" /\ cmd'[r].name = "on" /\ cmd'[q].who = cmd'[r].who => q = r
        BY <4>2, <4>5 DEF ClaimInv
      <4>7. \A o \in Elems(todo) : o.op = "watch" => o.who \in Watchers /\ o.who # w
        BY <4>1, ElemsOps, OpFields DEF ClaimInv
      <4>8. \A o \in Elems(todo') : o.op = "watch" =>
               /\ pc'[o.who] = "claimed"
               /\ \A q \in Callers : cmd'[q].name = "on" => cmd'[q].who # o.who
        BY <2>1, <2>2, <4>2, <4>7 DEF ClaimInv
      <4>9. \A v \in Watchers : pid'["watcher"] = v => Started(v)'
        BY <2>2, <3>1 DEF ClaimInv
      <4> QED BY <4>4, <4>6, <4>8, <4>9 DEF ClaimInv
    <3>3. CASE c # "on"
      <4>1. cmd' = [cmd EXCEPT ![p] = [name |-> c, wait |-> wait, who |-> None]]
        BY <2>4, <3>3 DEF ctl
      <4>2. \A q \in Callers : cmd'[q].name = "on" => q # p /\ cmd'[q] = cmd[q]
        BY <1>0, <3>3, <4>1
      <4>3. \A q \in Callers : cmd'[q].name = "on" => pc'[cmd'[q].who] = "claimed"
        BY <1>0, <2>2, <4>2 DEF ClaimInv
      <4>4. \A q, r \in Callers :
              cmd'[q].name = "on" /\ cmd'[r].name = "on" /\ cmd'[q].who = cmd'[r].who => q = r
        BY <4>2 DEF ClaimInv
      <4>5. \A o \in Elems(todo) : o.op = "watch" => o.who \in Watchers
        BY ElemsOps, OpFields
      <4>6. \A o \in Elems(todo') : o.op = "watch" =>
               /\ pc'[o.who] = "claimed"
               /\ \A q \in Callers : cmd'[q].name = "on" => cmd'[q].who # o.who
        BY <2>1, <2>2, <4>2, <4>5 DEF ClaimInv
      <4>7. \A v \in Watchers : pid'["watcher"] = v => Started(v)'
        BY <2>2, <3>1 DEF ClaimInv
      <4> QED BY <4>3, <4>4, <4>6, <4>7 DEF ClaimInv
    <3> QED BY <3>2, <3>3
  <2>5. CASE ~\E p \in Callers, c \in Cmds, wait \in BOOLEAN : ctl(p, c, wait)
    <3>1. cmd' = cmd
      BY <1>6, <2>5, Zenon DEF Others, watcherproc, WatcherScan, ringproc, heartbeatproc, registryproc,
                        run, ctlfileproc, vars
    <3> QED BY <2>1, <2>2, <2>3, <3>1, ClaimKept
  <2> QED BY <2>4, <2>5
<1> QED BY <1>1, <1>2, <1>3, <1>4, <1>5, <1>6, AllSteps

\* Every step keeps the order of the goodbye.
LEMMA NextByeInv ==
    ASSUME TInv, ListInv, ByeInv, [Next]_vars
    PROVE  ByeInv'
<1>0. /\ pc \in [Procs -> Places]
      /\ view \in [registry : Message, reader : Message]
      /\ "reader" \in Procs /\ "reader" \notin Watchers /\ "reader" \notin Ringers
  BY ProcsApart DEF TInv, TypeOK, Static
<1>1. ASSUME NEW k, Executing(k), todo' = Tail(todo), k \notin {"out", "exit"},
             view'.reader = view.reader, ctlproc' = ctlproc,
             pc["reader"] = "dead" => pc'["reader"] = "dead"
      PROVE  ByeInv'
  <2>1. /\ \A b \in Elems(todo') : b \in Elems(todo)
        /\ SaysNil(todo) => SaysNil(todo')
    BY <1>1, Executed
  <2> QED BY <1>1, <2>1 DEF ByeInv
<1>2. CASE Kill
  <2>1. pc["reader"] = "dead" => pc'["reader"] = "dead"
    BY <1>0, <1>2 DEF Kill
  <2> QED BY <1>1, <1>2, <2>1 DEF Kill
<1>3. CASE SpawnWatcher
  <2>1. Head(todo).who \in Watchers
    BY <1>3, Pop, OpFields DEF SpawnWatcher, TInv
  <2>2. pc'["reader"] = pc["reader"]
    BY <1>0, <1>3, <2>1 DEF SpawnWatcher
  <2> QED BY <1>1, <1>3, <2>2 DEF SpawnWatcher
<1>4. CASE ringproc_spawn
  <2>1. pc'["reader"] = pc["reader"]
    BY <1>0, <1>4 DEF ringproc_spawn
  <2> QED BY <1>1, <1>4, <2>1 DEF ringproc_spawn
<1>5. ASSUME Utter \/ Take \/ Others PROVE pc["reader"] = "dead" => pc'["reader"] = "dead"
  BY <1>0, <1>5, Motion, Carry
<1>6. CASE Clear
  BY <1>1, <1>5, <1>6 DEF Clear, Utter
<1>7. CASE SendRegistry
  <2>1. view'.reader = view.reader
    BY <1>0, <1>7 DEF SendRegistry
  <2> QED BY <1>1, <1>5, <1>7, <2>1 DEF SendRegistry, Utter
<1>8. CASE SendReply
  BY <1>1, <1>5, <1>8 DEF SendReply, Utter
<1>9. CASE SendOut
  <2>1. PICK h \in Ops : /\ h = Head(todo) /\ \A b \in Elems(todo') : b \in Elems(todo)
                         /\ SaysNil(todo) => SaysNil(todo') \/ h.msg.kind = "nil"
    BY <1>9, Executed DEF SendOut
  <2>2. view'.reader = h.msg /\ ctlproc' = ctlproc /\ ctlproc = "run" /\ pc["reader"] = "recv"
    BY <1>0, <1>9, <2>1 DEF SendOut, Executing
  <2>3. h.msg.kind = "nil" => pc'["reader"] = "dead"
    BY <1>0, <1>9, <2>1 DEF SendOut
  <2>4. view.reader.kind # "nil"
    BY <2>2 DEF ByeInv
  <2> QED BY <2>1, <2>2, <2>3, <2>4 DEF ByeInv
<1>10. CASE Exit
  <2>1. PICK h \in Ops : /\ h.op = "exit" /\ h \in Elems(todo)
                         /\ \A b \in Elems(todo') : Follows(h, b)
                         /\ SaysNil(todo) => SaysNil(todo')
    BY <1>10, Executed DEF Exit
  <2>2. Elems(todo') = {}
    BY <2>1 DEF Follows
  <2>3. view.reader.kind = "nil"
    BY <2>1, <2>2 DEF ByeInv, SaysNil
  <2>4. view' = view /\ pc' = pc
    BY <1>10 DEF Exit
  <2> QED BY <2>2, <2>3, <2>4 DEF ByeInv
<1>11. CASE Take
  <2>1. AtAlt /\ Plan(todo') /\ view' = view /\ ctlproc' # "exited"
    BY <1>11, TakesPlan
  <2>2. (\E o \in Elems(todo') : o.op = "exit") => SaysNil(todo')
    BY <2>1 DEF Plan
  <2> QED BY <1>5, <1>11, <2>1, <2>2 DEF ByeInv
<1>12. CASE Others
  <2>1. ctlproc' = ctlproc /\ todo' = todo /\ view' = view
    BY <1>12, OthersFrame
  <2> QED BY <1>5, <1>12, <2>1 DEF ByeInv
<1> QED BY <1>2, <1>3, <1>4, <1>6, <1>7, <1>8, <1>9, <1>10, <1>11, <1>12, AllSteps DEF Utter

\* A process stays where it was spawned while ctlproc executes or takes a list.
LEMMA StaysSpawned ==
    ASSUME TInv, Utter \/ Take
    PROVE  \A q \in Procs : pc[q] = "spawned" => pc'[q] = "spawned"
<1>0. pc \in [Procs -> Places]
  BY DEF TInv, TypeOK
<1>1. ASSUME NEW p, pc[p] # "spawned", NEW x, pc' = [pc EXCEPT ![p] = x]
      PROVE  \A q \in Procs : pc[q] = "spawned" => pc'[q] = "spawned"
  BY <1>0, <1>1
<1>2. CASE Clear \/ Exit
  <2>1. pc' = pc
    BY <1>2 DEF Clear, Exit
  <2> QED BY <2>1
<1>3. CASE SendRegistry
  <2>1. PICK x : pc' = [pc EXCEPT !["registry"] = x]
    BY <1>3 DEF SendRegistry
  <2> QED BY <1>1, <1>3, <2>1 DEF SendRegistry
<1>4. CASE SendOut
  <2>1. PICK x : pc' = [pc EXCEPT !["reader"] = x]
    BY <1>4 DEF SendOut
  <2> QED BY <1>1, <1>4, <2>1 DEF SendOut
<1>5. CASE SendReply
  <2> DEFINE p == Head(todo).to
  <2>1. PICK x : pc' = [pc EXCEPT ![p] = x]
    BY <1>5 DEF SendReply
  <2>2. pc[p] = "wait"
    BY <1>5 DEF SendReply
  <2> HIDE DEF p
  <2> QED BY <1>1, <2>1, <2>2
<1>6. ASSUME NEW p \in Callers, RecvCommand(p)
      PROVE  \A q \in Procs : pc[q] = "spawned" => pc'[q] = "spawned"
  <2>1. PICK x : pc' = [pc EXCEPT ![p] = x]
    BY <1>6 DEF RecvCommand
  <2>2. pc[p] = "call"
    BY <1>6 DEF RecvCommand
  <2> QED BY <1>1, <2>1, <2>2
<1>7. ASSUME NEW w \in Watchers, RecvReport(w)
      PROVE  \A q \in Procs : pc[q] = "spawned" => pc'[q] = "spawned"
  <2>1. PICK x : pc' = [pc EXCEPT ![w] = x]
    BY <1>7 DEF RecvReport
  <2>2. pc[w] # "spawned"
    BY <1>7 DEF RecvReport
  <2> QED BY <1>1, <2>1, <2>2
<1>8. ASSUME NEW p \in {"registry", "reader"}, RecvDie(p)
      PROVE  \A q \in Procs : pc[q] = "spawned" => pc'[q] = "spawned"
  <2>1. PICK x : pc' = [pc EXCEPT ![p] = x]
    BY <1>8 DEF RecvDie
  <2>2. pc[p] = "die"
    BY <1>8 DEF RecvDie
  <2> QED BY <1>1, <2>1, <2>2
<1> QED BY <1>2, <1>3, <1>4, <1>5, <1>6, <1>7, <1>8 DEF Utter, Take

\* While ctlproc waits, a process that leaves the place where it was spawned
\* stores its pid.
LEMMA StoresPid ==
    ASSUME TInv, Others
    PROVE  \/ pid' = pid /\ \A q \in Procs : pc[q] = "spawned" => pc'[q] = "spawned"
           \/ \E c \in Cells : \E p \in ProcsOf(c) :
                 /\ pid' = [pid EXCEPT ![c] = p] /\ pc[p] = "spawned"
                 /\ \A q \in Procs : q # p => pc'[q] = pc[q]
<1> DEFINE Same == pid' = pid /\ \A q \in Procs : pc[q] = "spawned" => pc'[q] = "spawned"
           Stores(c, p) == /\ pid' = [pid EXCEPT ![c] = p] /\ pc[p] = "spawned"
                           /\ \A q \in Procs : q # p => pc'[q] = pc[q]
<1>0. pc \in [Procs -> Places]
  BY DEF TInv, TypeOK
<1>1. ASSUME NEW p, pc[p] # "spawned", NEW x, pc' = [pc EXCEPT ![p] = x], pid' = pid
      PROVE  Same
  BY <1>0, <1>1
<1>2. ASSUME NEW p, pc[p] = "spawned", NEW x, pc' = [pc EXCEPT ![p] = x],
             NEW c, pid' = [pid EXCEPT ![c] = p]
      PROVE  Stores(c, p)
  BY <1>0, <1>2
<1> HIDE DEF Same, Stores
<1>3. ASSUME NEW w \in Watchers, watcherproc(w) PROVE Stores("watcher", w)
  <2>1. PICK x : pc' = [pc EXCEPT ![w] = x]
    BY <1>3 DEF watcherproc
  <2>2. pc[w] = "spawned" /\ pid' = [pid EXCEPT !["watcher"] = w]
    BY <1>3 DEF watcherproc
  <2> QED BY <1>2, <2>1, <2>2
<1>4. ASSUME NEW w \in Watchers, WatcherScan(w) PROVE Same
  <2>1. PICK x : pc' = [pc EXCEPT ![w] = x]
    BY <1>4 DEF WatcherScan
  <2>2. pc[w] # "spawned" /\ pid' = pid
    BY <1>4 DEF WatcherScan
  <2> QED BY <1>1, <2>1, <2>2
<1>5. ASSUME NEW r \in Ringers, ringproc(r) PROVE Stores("ring", r) \/ Same
  <2>1. CASE pc[r] = "spawned"
    <3>1. pc' = [pc EXCEPT ![r] = "ring"] /\ pid' = [pid EXCEPT !["ring"] = r]
      BY <1>5, <2>1 DEF ringproc
    <3> QED BY <1>2, <2>1, <3>1
  <2>2. CASE pc[r] # "spawned"
    <3>1. PICK x : pc' = [pc EXCEPT !["reader"] = x]
      BY <1>5, <2>2 DEF ringproc
    <3>2. pc["reader"] = "recv" /\ pid' = pid
      BY <1>5, <2>2 DEF ringproc
    <3> QED BY <1>1, <3>1, <3>2
  <2> QED BY <2>1, <2>2
<1>6. CASE heartbeatproc
  <2>1. CASE pc["heartbeat"] = "spawned"
    <3>1. /\ pc' = [pc EXCEPT !["heartbeat"] = "beat"]
          /\ pid' = [pid EXCEPT !["heartbeat"] = "heartbeat"]
      BY <1>6, <2>1 DEF heartbeatproc
    <3>2. Stores("heartbeat", "heartbeat")
      BY <1>2, <2>1, <3>1
    <3> QED BY <3>2, ProcsApart DEF Stores, Cells
  <2>2. CASE pc["heartbeat"] # "spawned"
    <3>1. PICK x : pc' = [pc EXCEPT !["registry"] = x]
      BY <1>6, <2>2 DEF heartbeatproc
    <3>2. pc["registry"] = "recv" /\ pid' = pid
      BY <1>6, <2>2 DEF heartbeatproc
    <3>3. Same
      BY <1>1, <3>1, <3>2
    <3> QED BY <3>3 DEF Same
  <2> QED BY <2>1, <2>2
<1>7. CASE registryproc
  <2>1. PICK x : pc' = [pc EXCEPT !["registry"] = x]
    BY <1>7 DEF registryproc
  <2>2. pc["registry"] = "spawned" /\ pid' = [pid EXCEPT !["registry"] = "registry"]
    BY <1>7 DEF registryproc
  <2>3. Stores("registry", "registry")
    BY <1>2, <2>1, <2>2
  <2> QED BY <2>3, ProcsApart DEF Stores, Cells
<1>8. CASE ctlfileproc
  <2>1. CASE pc["ctlfile"] = "spawned"
    <3>1. /\ pc' = [pc EXCEPT !["ctlfile"] = "serve"]
          /\ pid' = [pid EXCEPT !["ctlfile"] = "ctlfile"]
      BY <1>8, <2>1 DEF ctlfileproc
    <3>2. Stores("ctlfile", "ctlfile")
      BY <1>2, <2>1, <3>1
    <3> QED BY <3>2, ProcsApart DEF Stores, Cells
  <2>2. CASE pc["ctlfile"] # "spawned"
    <3>1. PICK x : pc' = [pc EXCEPT !["ctlfile"] = x]
      BY <1>8, <2>2 DEF ctlfileproc
    <3>2. pid' = pid
      BY <1>8, <2>2 DEF ctlfileproc
    <3>3. Same
      BY <1>1, <2>2, <3>1, <3>2
    <3> QED BY <3>3 DEF Same
  <2> QED BY <2>1, <2>2
<1>9. CASE run
  <2>1. pc["run"] # "spawned" /\ pid' = pid
    BY <1>9 DEF run
  <2>2. \A q \in Procs : pc[q] = "spawned" => pc'[q] = "spawned"
    <3>1. CASE pc["run"] = "user"
      <4>1. PICK z : pc' = [pc EXCEPT !["run"] = "announce", !["registry"] = z]
        BY <1>9, <3>1 DEF run
      <4>2. pc["registry"] = "recv"
        BY <1>9, <3>1 DEF run
      <4> QED BY <1>0, <2>1, <4>1, <4>2
    <3>2. CASE pc["run"] # "user"
      <4>1. PICK z : pc' = [pc EXCEPT !["run"] = "dead", !["reader"] = z]
        BY <1>9, <3>2 DEF run
      <4>2. pc["reader"] = "recv"
        BY <1>9, <3>2 DEF run
      <4> QED BY <1>0, <2>1, <4>1, <4>2
    <3> QED BY <3>1, <3>2
  <2> QED BY <2>1, <2>2
<1>10. ASSUME NEW p \in Callers, NEW c \in Cmds, NEW wait \in BOOLEAN, ctl(p, c, wait) PROVE Same
  <2>1. pc[p] = "serve" /\ pid' = pid
    BY <1>10 DEF ctl
  <2>2. CASE c = "on"
    <3>1. PICK w \in Watchers :
             pc[w] = "unborn" /\ pc' = [pc EXCEPT ![p] = "call", ![w] = "claimed"]
      BY <1>10, <2>2 DEF ctl
    <3> QED BY <1>0, <2>1, <3>1 DEF Same
  <2>3. CASE c # "on"
    <3>1. pc' = [pc EXCEPT ![p] = "call"]
      BY <1>10, <2>3 DEF ctl
    <3> QED BY <1>1, <2>1, <3>1
  <2> QED BY <2>2, <2>3
<1>11. CASE UNCHANGED vars
  BY <1>11 DEF vars
<1>12. /\ \A w \in Watchers : w \in ProcsOf("watcher")
       /\ \A r \in Ringers : r \in ProcsOf("ring")
       /\ "watcher" \in Cells /\ "ring" \in Cells
  BY ProcsApart
<1> QED BY <1>3, <1>4, <1>5, <1>6, <1>7, <1>8, <1>9, <1>10, <1>11, <1>12 DEF Others, Same, Stores

\* A kill that misses nobody leaves nobody of its global.
LEMMA KillQuiets ==
    ASSUME TInv, Recorded, Kill, raced' = {}, NEW c \in Cells, c = Head(todo).cell
    PROVE  /\ Quiet(c)'
           /\ \A p \in Procs : /\ pc'[p] \in {pc[p], "dead"}
                               /\ pc'[p] # pc[p] => p \in ProcsOf(c)
<1>0. pc \in [Procs -> Places] /\ pid \in [Cells -> Procs \cup {None}]
      /\ \A d \in Cells : pid[d] \in ProcsOf(d) \cup {None}
  BY DEF TInv, TypeOK
<1>2. /\ \A p \in Procs : pc'[p] = IF p = pid[c] THEN "dead" ELSE pc[p]
      /\ {p \in ProcsOf(c) : pc[p] = "spawned"} = {}
  BY DEF Kill
<1>3. \A p \in ProcsOf(c) : p \in Procs
  BY ProcsApart
<1>4. ASSUME NEW p \in ProcsOf(c) PROVE pc'[p] \in {"unborn", "claimed", "dead"}
  <2>1. CASE Alive(p)
    <3>1. pid[c] = p
      BY <1>2, <2>1 DEF Recorded
    <3> QED BY <1>2, <1>3, <3>1
  <2>2. CASE ~Alive(p)
    <3>1. pc[p] \in {"unborn", "claimed", "dead"}
      BY <2>2 DEF Alive
    <3> QED BY <1>2, <1>3, <3>1
  <2> QED BY <2>1, <2>2
<1>5. Quiet(c)'
  <2>1. ASSUME NEW p \in ProcsOf(c) PROVE ~Alive(p)'
    BY <1>4 DEF Alive
  <2> QED BY <2>1 DEF Quiet, ProcsOf
<1>6. ASSUME NEW p \in Procs, pc'[p] # pc[p] PROVE p \in ProcsOf(c)
  <2>1. p = pid[c] /\ p # None
    BY <1>2, <1>6, ConstantsAssumption DEF Procs
  <2> QED BY <1>0, <2>1
<1>7. \A p \in Procs : pc'[p] \in {pc[p], "dead"}
  BY <1>2
<1> QED BY <1>5, <1>6, <1>7

\* A miss is never forgotten.
LEMMA RacedGrows == [Next]_vars => raced \subseteq raced'
<1> SUFFICES ASSUME [Next]_vars PROVE raced \subseteq raced'
  OBVIOUS
<1>1. CASE Kill
  BY <1>1 DEF Kill
<1>2. CASE SpawnWatcher \/ ringproc_spawn \/ Utter
  BY <1>2 DEF SpawnWatcher, ringproc_spawn, Utter, Clear, SendRegistry, SendOut, SendReply, Exit
<1>3. CASE Take
  BY <1>3, Zenon DEF Take, RecvCommand, RecvReport, RecvDie
<1>4. CASE Others
  BY <1>4, OthersFrame
<1> QED BY <1>1, <1>2, <1>3, <1>4, AllSteps

\* What the first statement needs is so.
LEMMA Needed ==
    ASSUME TInv, ListInv, PendingInv, NEW k, Executing(k), todo' = Tail(todo)
    PROVE  \A c \in Needs(Head(todo)) : Quiet(c)
BY Executed DEF PendingInv

\* Every step keeps the globals with the processes that have started.
LEMMA NextPidInv ==
    ASSUME TInv, ListInv, PidInv, PendingInv, BellInv, [Next]_vars, raced' = {}
    PROVE  PidInv'
<1>0. /\ pc \in [Procs -> Places] /\ pid \in [Cells -> Procs \cup {None}]
  BY DEF TInv, TypeOK
<1>p. /\ \A c \in Cells : \A p \in ProcsOf(c) : p \in Procs
      /\ \A w \in Watchers : w \in Procs
      /\ \A r \in Ringers : r \in Procs
  BY ProcsApart
<1>r. /\ \A c \in Cells : \A p \in ProcsOf(c) : Alive(p) /\ pc[p] # "spawned" => pid[c] = p
      /\ \A w \in Watchers : Alive(w) => w = watchertype
      /\ \A q, r \in Ringers : Alive(q) /\ Alive(r) => q = r
  BY DEF PidInv, Recorded
<1>1. ASSUME \A q \in Procs : Alive(q)' => Alive(q),
             \A c \in Cells : \A q \in ProcsOf(c) : Alive(q)' /\ pc'[q] # "spawned" => pid'[c] = q,
             \A w \in Watchers : Alive(w)' => watchertype' = watchertype
      PROVE  PidInv'
  <2>1. Recorded'
    BY <1>1 DEF Recorded, ProcsOf
  <2>2. \A w \in Watchers : Alive(w)' => w = watchertype'
    BY <1>1, <1>p, <1>r
  <2>3. \A q, r \in Ringers : Alive(q)' /\ Alive(r)' => q = r
    BY <1>1, <1>p, <1>r
  <2> QED BY <2>1, <2>2, <2>3 DEF PidInv
<1>2. CASE Kill
  <2>1. PICK c \in Cells : c = Head(todo).cell
    BY <1>2, Pop, OpFields DEF Kill, TInv
  <2>2. \A p \in Procs : pc'[p] \in {pc[p], "dead"}
    BY <1>2, <2>1, KillQuiets DEF PidInv
  <2>3. \A q \in Procs : Alive(q)' => Alive(q) /\ pc'[q] = pc[q]
    BY <2>2 DEF Alive
  <2>4. pid' = pid /\ watchertype' = watchertype
    BY <1>2 DEF Kill
  <2>5. \A d \in Cells : \A q \in ProcsOf(d) : Alive(q)' /\ pc'[q] # "spawned" => pid'[d] = q
    BY <1>p, <1>r, <2>3, <2>4
  <2> QED BY <1>1, <2>3, <2>4, <2>5
<1>3. CASE SpawnWatcher
  <2> DEFINE w == Head(todo).who
  <2>1. w \in Watchers /\ Head(todo).op = "watch"
    BY <1>3, Pop, OpFields DEF SpawnWatcher, TInv
  <2>2. "watcher" \in Needs(Head(todo))
    BY <2>1 DEF Needs, Cells
  <2>3. Quiet("watcher")
    BY <1>3, <2>2, Needed DEF SpawnWatcher
  <2>4. /\ \A p \in Procs : pc'[p] = IF p = w THEN "spawned" ELSE pc[p]
        /\ watchertype' = w /\ pid' = pid
    BY <1>0, <1>3, <2>1 DEF SpawnWatcher
  <2> HIDE DEF w
  <2>5. \A v \in Watchers : ~Alive(v)
    BY <2>3, ProcsApart DEF Quiet
  <2>6. \A q \in Procs : q # w => (Alive(q)' <=> Alive(q)) /\ pc'[q] = pc[q]
    BY <2>4 DEF Alive
  <2>7. pc'[w] = "spawned"
    BY <1>p, <2>1, <2>4
  <2>8. Recorded'
    <3>1. \A d \in Cells : \A q \in ProcsOf(d) : Alive(q)' /\ pc'[q] # "spawned" => pid'[d] = q
      BY <1>p, <1>r, <2>4, <2>6, <2>7
    <3> QED BY <3>1 DEF Recorded, ProcsOf
  <2>9. \A v \in Watchers : Alive(v)' => v = watchertype'
    BY <1>p, <2>4, <2>5, <2>6
  <2>10. \A q, r \in Ringers : Alive(q)' /\ Alive(r)' => q = r
    <3>1. \A q \in Ringers : q # w
      BY <2>1, ProcsApart
    <3> QED BY <1>p, <1>r, <2>6, <3>1
  <2> QED BY <2>8, <2>9, <2>10 DEF PidInv
<1>4. CASE ringproc_spawn
  <2>1. Rings(todo)
    <3>1. PICK h \in Ops : h.op = "ring" /\ h \in Elems(todo)
      BY <1>4, Executed DEF ringproc_spawn
    <3> QED BY <3>1 DEF Rings
  <2>2. \A r \in Ringers : ~Alive(r)
    BY <2>1 DEF BellInv, RingInv, Ringing
  <2>3. PICK r \in Ringers : pc' = [pc EXCEPT ![r] = "spawned"]
    BY <1>4 DEF ringproc_spawn
  <2>4. /\ \A q \in Procs : q # r => pc'[q] = pc[q]
        /\ pc'[r] = "spawned"
    BY <1>0, <1>p, <2>3
  <2>5. \A q \in Procs : q # r => (Alive(q)' <=> Alive(q))
    BY <2>4 DEF Alive
  <2>6. pid' = pid /\ watchertype' = watchertype
    BY <1>4 DEF ringproc_spawn
  <2>7. Recorded'
    <3>1. \A d \in Cells : \A q \in ProcsOf(d) : Alive(q)' /\ pc'[q] # "spawned" => pid'[d] = q
      BY <1>p, <1>r, <2>4, <2>5, <2>6
    <3> QED BY <3>1 DEF Recorded, ProcsOf
  <2>8. \A w \in Watchers : Alive(w)' => w = watchertype'
    <3>1. \A w \in Watchers : w # r
      BY ProcsApart
    <3> QED BY <1>p, <1>r, <2>5, <2>6, <3>1
  <2>9. \A q, s \in Ringers : Alive(q)' /\ Alive(s)' => q = s
    BY <1>p, <2>2, <2>5
  <2> QED BY <2>7, <2>8, <2>9 DEF PidInv
<1>5. CASE Clear
  <2>1. PICK c \in Cells : c = Head(todo).cell /\ Head(todo).op = "clear"
    BY <1>5, Pop, OpFields DEF Clear, TInv
  <2>2. c \in Needs(Head(todo))
    BY <2>1 DEF Needs
  <2>3. Quiet(c)
    BY <1>5, <2>2, Needed DEF Clear
  <2>4. /\ \A d \in Cells : d # c => pid'[d] = pid[d]
        /\ c # "watcher" => watchertype' = watchertype
        /\ pc' = pc
    BY <1>0, <1>5, <2>1 DEF Clear
  <2>5. \A q \in Procs : Alive(q)' <=> Alive(q)
    BY <2>4 DEF Alive
  <2>6. \A p \in ProcsOf(c) : ~Alive(p)
    BY <2>3 DEF Quiet
  <2>7. \A d \in Cells : \A q \in ProcsOf(d) : Alive(q)' /\ pc'[q] # "spawned" => pid'[d] = q
    BY <1>p, <1>r, <2>4, <2>5, <2>6
  <2>8. \A w \in Watchers : Alive(w)' => watchertype' = watchertype
    <3>1. c = "watcher" => \A w \in Watchers : ~Alive(w)
      BY <2>6, ProcsApart
    <3> QED BY <1>p, <2>4, <2>5, <3>1
  <2> QED BY <1>1, <2>5, <2>7, <2>8
<1>6. CASE (Utter /\ ~Clear) \/ Take
  <2>1. pid' = pid /\ watchertype' = watchertype
    <3>1. CASE Take
      BY <3>1, TakesPlan
    <3>2. CASE Utter /\ ~Clear
      BY <3>2 DEF Utter, SendRegistry, SendOut, SendReply, Exit
    <3> QED BY <1>6, <3>1, <3>2
  <2>2. \A q \in Procs : Alive(q)' => Alive(q)
    BY <1>6, Motion, Carry
  <2>3. \A q \in Procs : pc[q] = "spawned" => pc'[q] = "spawned"
    BY <1>6, StaysSpawned
  <2>4. \A d \in Cells : \A q \in ProcsOf(d) : Alive(q)' /\ pc'[q] # "spawned" => pid'[d] = q
    BY <1>p, <1>r, <2>1, <2>2, <2>3
  <2> QED BY <1>1, <2>1, <2>2, <2>4
<1>7. CASE Others
  <2>1. watchertype' = watchertype
    BY <1>7, OthersFrame
  <2>2. \A q \in Procs : Alive(q)' => Alive(q)
    BY <1>7, Motion, Carry
  <2>3. CASE pid' = pid /\ \A q \in Procs : pc[q] = "spawned" => pc'[q] = "spawned"
    <3>1. \A d \in Cells : \A q \in ProcsOf(d) : Alive(q)' /\ pc'[q] # "spawned" => pid'[d] = q
      BY <1>p, <1>r, <2>2, <2>3
    <3> QED BY <1>1, <2>1, <2>2, <3>1
  <2>4. ASSUME NEW c \in Cells, NEW p \in ProcsOf(c),
               pid' = [pid EXCEPT ![c] = p], pc[p] = "spawned",
               \A q \in Procs : q # p => pc'[q] = pc[q]
        PROVE  PidInv'
    <3>1. /\ \A d \in Cells : d # c => pid'[d] = pid[d]
          /\ pid'[c] = p
      BY <1>0, <2>4
    <3>2. \A d \in Cells : d # c => p \notin ProcsOf(d)
      BY <2>4, ProcsApart
    <3>3. Alive(p)
      BY <2>4 DEF Alive
    <3>4. \A q \in ProcsOf(c) : Alive(q) => q = p
      <4>1. CASE c = "watcher"
        BY <1>r, <3>3, <4>1, ProcsApart
      <4>2. CASE c = "ring"
        BY <1>r, <3>3, <4>2, ProcsApart
      <4>3. CASE c \notin {"watcher", "ring"}
        BY <4>3, ProcsApart DEF Cells
      <4> QED BY <4>1, <4>2, <4>3
    <3>5. ASSUME NEW d \in Cells, NEW q \in ProcsOf(d), Alive(q)', pc'[q] # "spawned"
          PROVE  pid'[d] = q
      <4>1. q \in Procs /\ Alive(q)
        BY <1>p, <2>2, <3>5
      <4>2. CASE d = c
        BY <3>1, <3>4, <4>1, <4>2
      <4>3. CASE d # c
        <5>1. q # p
          BY <3>2, <4>3
        <5>2. pc'[q] = pc[q]
          BY <2>4, <4>1, <5>1
        <5> QED BY <1>r, <3>1, <3>5, <4>1, <4>3, <5>2
      <4> QED BY <4>2, <4>3
    <3> QED BY <1>1, <2>1, <2>2, <3>5
  <2> QED BY <1>7, <2>3, <2>4, StoresPid
<1> QED BY <1>2, <1>3, <1>4, <1>5, <1>6, <1>7, AllSteps DEF Utter

\* Every step keeps what the statements still to come need.
LEMMA NextPendingInv ==
    ASSUME TInv, ListInv, PidInv, PendingInv, [Next]_vars, raced' = {}
    PROVE  PendingInv'
<1>0. pc \in [Procs -> Places]
  BY DEF TInv, TypeOK
<1>p. \A c \in Cells : \A p \in ProcsOf(c) : p \in Procs
  BY ProcsApart
<1>n. \A o : Needs(o) \subseteq Cells
  BY DEF Needs
<1>q. \A o \in Elems(todo) : \A c \in Needs(o) : Quiet(c) \/ Kills(todo, c)
  BY DEF PendingInv
<1>1. CASE Kill
  <2>1. PICK h \in Ops : /\ h = Head(todo) /\ h.op = "kill"
                         /\ \A b \in Elems(todo') : b \in Elems(todo)
                         /\ \A c : Kills(todo, c) => Kills(todo', c) \/ h.cell = c
    BY <1>1, Executed DEF Kill
  <2>2. h.cell \in Cells
    BY <2>1, OpFields
  <2>3. /\ Quiet(h.cell)'
        /\ \A p \in Procs : pc'[p] \in {pc[p], "dead"}
    BY <1>1, <2>1, <2>2, KillQuiets DEF PidInv
  <2>4. ASSUME NEW c \in Cells, Quiet(c) PROVE Quiet(c)'
    <3>1. \A p \in ProcsOf(c) : ~Alive(p)'
      BY <1>p, <2>3, <2>4 DEF Quiet, Alive
    <3> QED BY <3>1 DEF Quiet, ProcsOf
  <2>5. \A o \in Elems(todo') : \A c \in Needs(o) : Quiet(c)' \/ Kills(todo', c)
    BY <1>n, <1>q, <2>1, <2>3, <2>4
  <2>6. ctlproc' # "exited"
    BY <1>1 DEF Kill, Executing
  <2> QED BY <2>5, <2>6 DEF PendingInv, Needs
<1>2. CASE SpawnWatcher
  <2>1. \E h \in Ops : h.op = "watch" /\ \A b \in Elems(todo') : Follows(h, b)
    BY <1>2, Executed DEF SpawnWatcher
  <2>2. \A b \in Elems(todo') : Needs(b) = {}
    BY <2>1 DEF Follows, Needs
  <2>3. ctlproc' # "exited"
    BY <1>2 DEF SpawnWatcher, Executing
  <2> QED BY <2>2, <2>3 DEF PendingInv, Needs
<1>3. CASE ringproc_spawn
  <2>1. PICK h \in Ops : /\ h.op = "ring"
                         /\ \A b \in Elems(todo') : b \in Elems(todo) /\ Follows(h, b)
                         /\ \A c : Kills(todo, c) => Kills(todo', c)
    BY <1>3, Executed DEF ringproc_spawn
  <2>2. \A b \in Elems(todo') : "ring" \notin Needs(b)
    BY <2>1 DEF Follows
  <2>3. PICK r \in Ringers : pc' = [pc EXCEPT ![r] = "spawned"]
    BY <1>3 DEF ringproc_spawn
  <2>4. ASSUME NEW c \in Cells, c # "ring", Quiet(c) PROVE Quiet(c)'
    <3>1. r \notin ProcsOf(c)
      BY <2>4, ProcsApart
    <3>2. \A p \in ProcsOf(c) : ~Alive(p)'
      BY <1>0, <1>p, <2>3, <2>4, <3>1 DEF Quiet, Alive
    <3> QED BY <3>2 DEF Quiet, ProcsOf
  <2>5. \A o \in Elems(todo') : \A c \in Needs(o) : Quiet(c)' \/ Kills(todo', c)
    BY <1>n, <1>q, <2>1, <2>2, <2>4
  <2>6. ctlproc' # "exited"
    BY <1>3 DEF ringproc_spawn, Executing
  <2> QED BY <2>5, <2>6 DEF PendingInv, Needs
<1>4. CASE Utter
  <2>1. PICK k : Executing(k) /\ todo' = Tail(todo) /\ k # "kill"
    BY <1>4 DEF Utter, Clear, SendRegistry, SendOut, SendReply, Exit
  <2>2. /\ \A b \in Elems(todo') : b \in Elems(todo)
        /\ \A c : Kills(todo, c) => Kills(todo', c)
    BY <2>1, Executed
  <2>3. \A c \in Cells : Quiet(c) => Quiet(c)'
    BY <1>4, Motion, Carry
  <2>4. \A o \in Elems(todo') : \A c \in Needs(o) : Quiet(c)' \/ Kills(todo', c)
    BY <1>n, <1>q, <2>2, <2>3
  <2>5. CASE Exit
    <3>1. Needs(Head(todo)) = Cells
      BY <2>5 DEF Exit, Executing, Needs
    <3>2. \A c \in Cells : Quiet(c)'
      BY <2>1, <2>3, <3>1, Needed
    <3> QED BY <2>4, <3>2 DEF PendingInv, Needs
  <2>6. CASE ~Exit
    <3>1. ctlproc' # "exited"
      BY <1>4, <2>6 DEF Utter, Clear, SendRegistry, SendOut, SendReply, Executing
    <3> QED BY <2>4, <3>1 DEF PendingInv, Needs
  <2> QED BY <2>5, <2>6
<1>5. CASE Take
  <2>1. Plan(todo') /\ ctlproc' # "exited"
    BY <1>5, TakesPlan
  <2> QED BY <2>1 DEF PendingInv, Plan, Needs
<1>6. CASE Others
  <2>1. todo' = todo /\ ctlproc' = ctlproc
    BY <1>6, OthersFrame
  <2>2. \A c \in Cells : Quiet(c) => Quiet(c)'
    BY <1>6, Motion, Carry
  <2>3. \A o \in Elems(todo') : \A c \in Needs(o) : Quiet(c)' \/ Kills(todo', c)
    BY <1>n, <1>q, <2>1, <2>2
  <2>4. ctlproc' = "exited" => \A c \in Cells : Quiet(c)'
    BY <2>1, <2>2 DEF PendingInv
  <2> QED BY <2>3, <2>4 DEF PendingInv, Needs
<1> QED BY <1>1, <1>2, <1>3, <1>4, <1>5, <1>6, AllSteps

\* A watcher falls silent only when it is started, or by reporting state 0,
\* which makes ctlproc stop the bell.
LEMMA SilentKept ==
    ASSUME TInv, Utter \/ Take \/ Others, NEW w \in Watchers, Silent(w)'
    PROVE  /\ Silent(w) \/ Kills(todo', "ring")
           /\ Utter \/ Others => Silent(w)
<1>0. /\ pc \in [Procs -> Places] /\ wstate \in [Watchers -> {-1, 0, 1}]
      /\ w \in Procs /\ w \notin Callers /\ w \notin Ringers
      /\ w \notin {"registry", "reader", "heartbeat", "ctlfile", "run"}
      /\ watchertype \in Watchers \cup {None}
  <2>1. {"run", "reader", "heartbeat", "registry", "ctlfile"} \subseteq Static
    BY DEF Static, Callers
  <2>2. /\ pc \in [Procs -> Places] /\ wstate \in [Watchers -> {-1, 0, 1}]
        /\ watchertype \in Watchers \cup {None}
    BY DEF TInv, TypeOK
  <2>3. w \in Procs /\ w \notin Callers /\ w \notin Ringers /\ w \notin Static
    BY ProcsApart
  <2> QED BY <2>1, <2>2, <2>3
<1>1. ASSUME pc'[w] = pc[w], wstate' = wstate PROVE Silent(w)
  BY <1>1 DEF Silent
<1>2. ASSUME NEW p, p # w, NEW x, pc' = [pc EXCEPT ![p] = x], wstate' = wstate
      PROVE  Silent(w)
  <2>1. pc'[w] = pc[w]
    BY <1>0, <1>2
  <2> QED BY <1>1, <1>2, <2>1
<1>3. CASE Utter
  <2>1. CASE Clear \/ Exit
    BY <1>1, <2>1 DEF Clear, Exit
  <2>2. CASE SendRegistry
    BY <1>0, <1>2, <2>2 DEF SendRegistry
  <2>3. CASE SendOut
    BY <1>0, <1>2, <2>3 DEF SendOut
  <2>4. CASE SendReply
    <3>1. Head(todo).to \in Callers
      BY <2>4, Pop, OpFields DEF SendReply, TInv
    <3> QED BY <1>0, <1>2, <2>4, <3>1 DEF SendReply
  <2> QED BY <1>3, <2>1, <2>2, <2>3, <2>4 DEF Utter
<1>4. ASSUME NEW p \in Callers, RecvCommand(p) PROVE Silent(w)
  BY <1>0, <1>2, <1>4 DEF RecvCommand
<1>5. ASSUME NEW p \in {"registry", "reader"}, RecvDie(p) PROVE Silent(w)
  BY <1>0, <1>2, <1>5 DEF RecvDie
<1>6. ASSUME NEW v \in Watchers, RecvReport(v) PROVE Silent(w) \/ Kills(todo', "ring")
  <2>1. CASE v # w
    BY <1>2, <1>6, <2>1 DEF RecvReport
  <2>2. CASE v = w
    <3>1. pc[w] = "report" /\ pc'[w] = "watch" /\ todo' = ReportOps(wstate[w]) /\ wstate'[w] = wstate[w]
      BY <1>0, <1>6, <2>2 DEF RecvReport, Silent
    <3>2. wstate[w] = 0
      BY <3>1 DEF Silent
    <3> QED BY <1>0, <3>1, <3>2, PlanRunning
  <2> QED BY <2>1, <2>2
<1>7. ASSUME NEW v \in Watchers, watcherproc(v) \/ WatcherScan(v) PROVE Silent(w)
  <2>1. CASE v # w
    <3>1. pc'[w] = pc[w] /\ wstate'[w] = wstate[w]
      BY <1>0, <1>7, <2>1 DEF watcherproc, WatcherScan
    <3> QED BY <3>1 DEF Silent
  <2>2. CASE v = w
    <3>1. CASE watcherproc(v)
      BY <2>2, <3>1 DEF watcherproc, Silent
    <3>2. CASE WatcherScan(v)
      <4>1. pc[w] = "watch" /\ pc'[w] = "report" /\ wstate'[w] = 1 - wstate[w]
        BY <1>0, <2>2, <3>2 DEF WatcherScan, Silent
      <4>2. 1 - wstate[w] = 1
        BY <4>1 DEF Silent
      <4>3. wstate[w] = 0
        BY <1>0, <4>2
      <4> QED BY <4>1, <4>3 DEF Silent
    <3> QED BY <1>7, <3>1, <3>2
  <2> QED BY <2>1, <2>2
<1>8. ASSUME NEW r \in Ringers, ringproc(r) PROVE Silent(w)
  <2>1. wstate' = wstate
    BY <1>8 DEF ringproc
  <2>2. PICK p \in {r, "reader"} : \E x : pc' = [pc EXCEPT ![p] = x]
    BY <1>8 DEF ringproc
  <2> QED BY <1>0, <1>2, <2>1, <2>2
<1>9. CASE heartbeatproc \/ registryproc \/ ctlfileproc
  <2>1. wstate' = wstate
    BY <1>9 DEF heartbeatproc, registryproc, ctlfileproc
  <2>2. PICK p \in {"heartbeat", "registry", "ctlfile"} : \E x : pc' = [pc EXCEPT ![p] = x]
    BY <1>9 DEF heartbeatproc, registryproc, ctlfileproc
  <2> QED BY <1>0, <1>2, <2>1, <2>2
<1>10. CASE run
  <2>1. wstate' = wstate
    BY <1>10 DEF run
  <2>2. PICK p \in {"registry", "reader"} : \E x, y : pc' = [pc EXCEPT !["run"] = x, ![p] = y]
    BY <1>10 DEF run
  <2>3. pc'[w] = pc[w]
    BY <1>0, <2>2
  <2> QED BY <1>1, <2>1, <2>3
<1>11. ASSUME NEW p \in Callers, NEW c \in Cmds, NEW wait \in BOOLEAN, ctl(p, c, wait)
       PROVE  Silent(w)
  <2>1. wstate' = wstate
    BY <1>11 DEF ctl
  <2>2. CASE c = "on"
    <3>1. PICK v \in Watchers : pc' = [pc EXCEPT ![p] = "call", ![v] = "claimed"]
      BY <1>11, <2>2 DEF ctl
    <3>2. CASE v = w
      <4>1. pc'[w] = "claimed"
        BY <1>0, <3>1, <3>2
      <4> QED BY <4>1 DEF Silent
    <3>3. CASE v # w
      <4>1. pc'[w] = pc[w]
        BY <1>0, <3>1, <3>3
      <4> QED BY <1>1, <2>1, <4>1
    <3> QED BY <3>2, <3>3
  <2>3. CASE c # "on"
    <3>1. PICK x : pc' = [pc EXCEPT ![p] = x]
      BY <1>11, <2>3 DEF ctl
    <3> QED BY <1>0, <1>2, <2>1, <3>1
  <2> QED BY <2>2, <2>3
<1>12. CASE UNCHANGED vars
  BY <1>1, <1>12 DEF vars
<1>13. Take => Silent(w) \/ Kills(todo', "ring")
  BY <1>4, <1>5, <1>6 DEF Take
<1>14. Others => Silent(w)
  BY <1>7, <1>8, <1>9, <1>10, <1>11, <1>12 DEF Others
<1> QED BY <1>3, <1>13, <1>14

\* An empty list does nothing.
LEMMA EmptyList ==
    ASSUME AtAlt
    PROVE  /\ \A c : ~Kills(todo, c)
           /\ ~Rings(todo) /\ ~Announces(todo) /\ ~Ends(todo)
           /\ ctlproc = "run"
BY ElemsShort DEF AtAlt, Kills, Rings, Announces, Ends

\* Every step keeps the bell and what is said of it together.
LEMMA NextBellInv ==
    ASSUME TInv, ListInv, ClaimInv, PidInv, PendingInv, BellInv, [Next]_vars, raced' = {}
    PROVE  BellInv'
<1>0. /\ pc \in [Procs -> Places]
      /\ view \in [registry : Message, reader : Message]
  BY DEF TInv, TypeOK
<1>p. /\ \A w \in Watchers : w \in Procs /\ w # None /\ w \notin Ringers
      /\ \A r \in Ringers : r \in Procs
  BY ProcsApart
<1>b1. \A w \in Watchers : Silent(w) => ~Ringing \/ Kills(todo, "ring")
  BY DEF BellInv, SilentInv
<1>b2. Rings(todo) => ~Ringing /\ Announces(todo) /\ \A w \in Watchers : ~Silent(w)
  BY DEF BellInv, RingInv
<1>b3. \A o \in Elems(todo) : Sounds(o) =>
          (Ringing \/ Rings(todo)) /\ o.msg.of \in Watchers /\ Started(o.msg.of)
  BY DEF BellInv, SoundInv
<1>b4. view.reader.kind \in {"none", "off", "running"} => ~Ringing \/ Announces(todo)
  BY DEF BellInv, OffInv
<1>b5. view.reader.kind = "ringing" => view.reader.of \in Watchers /\ Started(view.reader.of)
  BY DEF BellInv, NamedInv
<1>b6. view.reader.kind = "ringing" /\ ctlproc = "run" /\ view.reader.of = watchertype =>
          Ringing \/ Ends(todo)
  BY DEF BellInv, OnInv
<1>1. CASE Kill
  <2>1. PICK h \in Ops : /\ h = Head(todo) /\ h.op = "kill" /\ h \in Elems(todo)
                         /\ \A b \in Elems(todo') : Follows(h, b)
                         /\ \A c : Kills(todo, c) => Kills(todo', c) \/ h.cell = c
                         /\ ~Rings(todo')
                         /\ Ends(todo) => Ends(todo') \/ Ending(h)
                         /\ Announces(todo) => Announces(todo')
    BY <1>1, Executed DEF Kill
  <2>2. h.cell \in Cells
    BY <2>1, OpFields
  <2>3. /\ Quiet(h.cell)'
        /\ \A p \in Procs : /\ pc'[p] \in {pc[p], "dead"}
                            /\ pc'[p] # pc[p] => p \in ProcsOf(h.cell)
    BY <1>1, <2>1, <2>2, KillQuiets DEF PidInv
  <2>4. view' = view /\ watchertype' = watchertype /\ ctlproc' = ctlproc /\ wstate' = wstate
    BY <1>1 DEF Kill
  <2>5. \A w \in Watchers : (Silent(w)' => Silent(w)) /\ (Started(w) => Started(w)')
    BY <1>p, <2>3, <2>4 DEF Silent, Started
  <2>6. \A r \in Ringers : Alive(r)' => Alive(r)
    BY <1>p, <2>3 DEF Alive
  <2>7. Ringing' => Ringing
    BY <2>6 DEF Ringing
  <2>8. h.cell = "ring" => ~Ringing'
    <3>1. h.cell = "ring" => \A r \in Ringers : ~Alive(r)'
      BY <2>3, ProcsApart DEF Quiet, ProcsOf
    <3> QED BY <3>1 DEF Ringing
  <2>9. h.cell # "ring" => (Ringing => Ringing')
    <3>1. ASSUME h.cell # "ring", NEW r \in Ringers, Alive(r) PROVE Alive(r)'
      <4>1. r \notin ProcsOf(h.cell)
        BY <2>2, <3>1, ProcsApart
      <4>2. pc'[r] = pc[r]
        BY <1>p, <2>3, <4>1
      <4> QED BY <3>1, <4>2 DEF Alive
    <3> QED BY <3>1 DEF Ringing
  <2>10. ~Ending(h)
    BY <2>1 DEF Ending
  <2>11. h.cell = "ring" => Ends(todo)
    BY <2>1 DEF ListInv, Kills
  <2>12. \A b \in Elems(todo') : ~Sounds(b)
    BY <2>1 DEF Follows
  <2>13. SilentInv'
    BY <1>b1, <2>1, <2>5, <2>7, <2>8 DEF SilentInv
  <2>14. OffInv'
    BY <1>b4, <2>1, <2>4, <2>7 DEF OffInv
  <2>15. NamedInv'
    BY <1>b5, <2>4, <2>5 DEF NamedInv, Started
  <2>16. OnInv'
    BY <1>b6, <2>1, <2>4, <2>9, <2>10, <2>11 DEF OnInv
  <2>17. SoundInv' /\ RingInv'
    BY <2>1, <2>12 DEF SoundInv, RingInv, Sounds
  <2> QED BY <2>13, <2>14, <2>15, <2>16, <2>17 DEF BellInv
<1>2. CASE SpawnWatcher
  <2> DEFINE w == Head(todo).who
  <2>1. PICK h \in Ops : /\ h = Head(todo) /\ h.op = "watch" /\ h \in Elems(todo)
                         /\ \A b \in Elems(todo') : Follows(h, b)
                         /\ ~Rings(todo')
    BY <1>2, Executed DEF SpawnWatcher
  <2>2. w \in Watchers /\ pc[w] = "claimed"
    BY <2>1, OpFields DEF ClaimInv
  <2>3. "ring" \in Needs(Head(todo))
    BY <2>1 DEF Needs, Cells
  <2>4. Quiet("ring")
    BY <1>2, <2>3, Needed DEF SpawnWatcher
  <2>5. /\ \A p \in Procs : pc'[p] = IF p = w THEN "spawned" ELSE pc[p]
        /\ watchertype' = w /\ view' = view
    BY <1>0, <1>2 DEF SpawnWatcher
  <2> HIDE DEF w
  <2>6. ~Ringing'
    <3>1. \A r \in Ringers : pc'[r] = pc[r] /\ ~Alive(r)
      BY <1>p, <2>2, <2>4, <2>5, ProcsApart DEF Quiet
    <3> QED BY <3>1 DEF Ringing, Alive
  <2>7. \A b \in Elems(todo') : ~Sounds(b)
    BY <2>1 DEF Follows, Sounds
  <2>8. \A v \in Watchers : Started(v) => Started(v)'
    BY <1>p, <2>5 DEF Started
  <2>9. NamedInv'
    BY <1>b5, <2>5, <2>8 DEF NamedInv, Started
  <2>10. OnInv'
    <3>1. view.reader.kind = "ringing" => view.reader.of # w
      BY <1>b5, <2>2 DEF Started
    <3> QED BY <2>5, <3>1 DEF OnInv
  <2>11. SilentInv' /\ OffInv'
    BY <2>6 DEF SilentInv, OffInv
  <2>12. SoundInv' /\ RingInv'
    BY <2>1, <2>7 DEF SoundInv, RingInv, Sounds
  <2> QED BY <2>9, <2>10, <2>11, <2>12 DEF BellInv
<1>3. CASE ringproc_spawn
  <2>1. PICK h \in Ops : /\ h.op = "ring" /\ h \in Elems(todo)
                         /\ \A b \in Elems(todo') : b \in Elems(todo)
                         /\ ~Rings(todo')
                         /\ Announces(todo) => Announces(todo')
    BY <1>3, Executed DEF ringproc_spawn
  <2>2. Announces(todo) /\ \A w \in Watchers : ~Silent(w)
    BY <1>b2, <2>1 DEF Rings
  <2>3. PICK r \in Ringers : pc' = [pc EXCEPT ![r] = "spawned"]
    BY <1>3 DEF ringproc_spawn
  <2>4. view' = view /\ wstate' = wstate
    BY <1>3 DEF ringproc_spawn
  <2>5. Ringing'
    <3>1. Alive(r)'
      BY <1>0, <1>p, <2>3 DEF Alive
    <3> QED BY <3>1 DEF Ringing
  <2>6. \A w \in Watchers : pc'[w] = pc[w]
    BY <1>0, <1>p, <2>3
  <2>7. SilentInv'
    BY <2>2, <2>4, <2>6 DEF SilentInv, Silent
  <2>8. SoundInv'
    BY <1>b3, <2>1, <2>5, <2>6 DEF SoundInv, Started
  <2>9. OffInv' /\ OnInv' /\ RingInv'
    BY <2>1, <2>2, <2>5 DEF OffInv, OnInv, RingInv
  <2>10. NamedInv'
    BY <1>b5, <2>4, <2>6 DEF NamedInv, Started
  <2> QED BY <2>7, <2>8, <2>9, <2>10 DEF BellInv
<1>4. CASE Utter
  <2>1. PICK k : /\ Executing(k) /\ todo' = Tail(todo) /\ k \notin {"kill", "ring"}
                 /\ k # "out" => view'.reader = view.reader
                 /\ k = "out" => view'.reader = Head(todo).msg
                 /\ k = "exit" => ctlproc' # "run"
                 /\ IF k = "clear" THEN watchertype' \in {watchertype, None}
                                        /\ (Head(todo).cell = "watcher" => watchertype' = None)
                                   ELSE watchertype' = watchertype
    <3>1. CASE Clear
      BY <3>1 DEF Clear
    <3>2. CASE SendRegistry
      BY <1>0, <3>2 DEF SendRegistry
    <3>3. CASE SendOut
      BY <1>0, <3>3 DEF SendOut
    <3>4. CASE SendReply
      BY <3>4 DEF SendReply
    <3>5. CASE Exit
      BY <3>5 DEF Exit
    <3> QED BY <1>4, <3>1, <3>2, <3>3, <3>4, <3>5 DEF Utter
  <2>2. PICK h \in Ops : /\ h = Head(todo) /\ h.op = k /\ h \in Elems(todo)
                         /\ \A b \in Elems(todo') : b \in Elems(todo)
                         /\ \A c : Kills(todo, c) => Kills(todo', c)
                         /\ ~Rings(todo') /\ ~Rings(todo)
                         /\ Ends(todo) => Ends(todo') \/ Ending(h)
                         /\ Announces(todo) => Announces(todo') \/ (k = "out" /\ Sounds(h))
    BY <2>1, Executed
  <2>3. /\ Ringing' <=> Ringing
        /\ \A w \in Watchers : Started(w) => Started(w)'
    BY <1>4, <1>p, Motion, Carry
  <2>4. \A w \in Watchers : Silent(w)' => Silent(w) \/ Kills(todo', "ring")
    BY <1>4, SilentKept
  <2>5. SilentInv'
    BY <1>b1, <2>2, <2>3, <2>4 DEF SilentInv
  <2>6. SoundInv'
    BY <1>b3, <2>2, <2>3 DEF SoundInv
  <2>7. RingInv'
    BY <2>2 DEF RingInv
  <2>8. CASE k = "out"
    <3>1. view'.reader = h.msg
      BY <2>1, <2>2, <2>8
    <3>2. OffInv'
      <4>1. h.msg.kind \in {"none", "off", "running"} => "ring" \in Needs(h)
        BY <2>2, <2>8 DEF Needs, Cells
      <4>2. h.msg.kind \in {"none", "off", "running"} => Quiet("ring")
        BY <2>1, <2>2, <4>1, Needed
      <4>3. Quiet("ring") => ~Ringing
        BY ProcsApart DEF Quiet, Ringing
      <4> QED BY <2>3, <3>1, <4>2, <4>3 DEF OffInv
    <3>3. h.msg.kind = "ringing" => Ringing' /\ h.msg.of \in Watchers /\ Started(h.msg.of)
      BY <1>b3, <2>2, <2>3, <2>8 DEF Sounds
    <3>4. NamedInv' /\ OnInv'
      BY <2>3, <3>1, <3>3 DEF NamedInv, OnInv, Started
    <3> QED BY <2>5, <2>6, <2>7, <3>2, <3>4 DEF BellInv
  <2>9. CASE k # "out"
    <3>1. view'.reader = view.reader
      BY <2>1, <2>9
    <3>2. OffInv'
      BY <1>b4, <2>2, <2>3, <2>9, <3>1 DEF OffInv
    <3>3. NamedInv'
      BY <1>b5, <2>3, <3>1 DEF NamedInv, Started
    <3>4. OnInv'
      <4>1. SUFFICES ASSUME view.reader.kind = "ringing", ctlproc' = "run",
                            view.reader.of = watchertype'
                     PROVE  Ringing' \/ Ends(todo')
        BY <3>1 DEF OnInv
      <4>2. watchertype' # None
        BY <1>b5, <1>p, <4>1
      <4>3. watchertype' = watchertype
        BY <2>1, <4>2
      <4>4. ctlproc = "run"
        BY <2>1 DEF Executing
      <4>5. ~Ending(h)
        BY <2>1, <2>2, <2>9, <4>1, <4>2 DEF Ending
      <4> QED BY <1>b6, <2>2, <2>3, <4>1, <4>3, <4>4, <4>5
    <3> QED BY <2>5, <2>6, <2>7, <3>2, <3>3, <3>4 DEF BellInv
  <2> QED BY <2>8, <2>9
<1>5. CASE Take
  <2>1. /\ AtAlt /\ Plan(todo') /\ view' = view /\ watchertype' = watchertype /\ wstate' = wstate
    BY <1>5, TakesPlan
  <2>2. /\ \A c : ~Kills(todo, c)
        /\ ~Rings(todo) /\ ~Announces(todo) /\ ~Ends(todo) /\ ctlproc = "run"
    BY <2>1, EmptyList
  <2>3. /\ Ringing' <=> Ringing
        /\ \A w \in Watchers : (Started(w) => Started(w)') /\ (Alive(w)' => Alive(w))
    BY <1>5, <1>p, Motion, Carry
  <2>4. \A w \in Watchers : Silent(w)' => Silent(w) \/ Kills(todo', "ring")
    BY <1>5, SilentKept
  <2>5. SilentInv'
    BY <1>b1, <2>2, <2>3, <2>4 DEF SilentInv
  <2>6. OffInv'
    BY <1>b4, <2>1, <2>2, <2>3 DEF OffInv
  <2>7. NamedInv'
    BY <1>b5, <2>1, <2>3 DEF NamedInv, Started
  <2>8. OnInv'
    BY <1>b6, <2>1, <2>2, <2>3 DEF OnInv
  <2>9. CASE Mute(todo')
    <3>1. SoundInv' /\ RingInv'
      BY <2>9 DEF Mute, SoundInv, RingInv, Rings, Sounds
    <3> QED BY <2>5, <2>6, <2>7, <2>8, <3>1 DEF BellInv
  <2>10. ASSUME NEW w \in Watchers, pc[w] = "report", wstate[w] = 1,
                pc' = [pc EXCEPT ![w] = "watch"], todo' = ReportOps(1)
         PROVE  BellInv'
    <3>1. Alive(w) /\ Silent(w) /\ Started(w)
      BY <2>10 DEF Alive, Silent, Started
    <3>2. w = watchertype /\ \A v \in Watchers : Alive(v) => v = w
      BY <3>1 DEF PidInv
    <3>3. ~Ringing'
      BY <1>b1, <2>2, <2>3, <3>1
    <3>4. watchertype \in Watchers \cup {None}
      BY DEF TInv, TypeOK
    <3>5. /\ Rings(todo') /\ Announces(todo')
          /\ \A o \in Elems(todo') : Sounds(o) => o.msg.of = w
      BY <2>10, <3>2, <3>4, PlanRinging
    <3>6. ~Silent(w)'
      <4>1. pc'[w] = "watch"
        BY <1>0, <1>p, <2>10
      <4> QED BY <2>1, <2>10, <4>1 DEF Silent
    <3>7. \A v \in Watchers : v # w => ~Silent(v)'
      <4>1. \A v \in Watchers : Silent(v)' => Alive(v)'
        BY DEF Silent, Alive
      <4> QED BY <2>3, <3>2, <4>1
    <3>8. RingInv'
      BY <3>3, <3>5, <3>6, <3>7 DEF RingInv
    <3>9. SoundInv'
      BY <2>3, <3>1, <3>5 DEF SoundInv
    <3> QED BY <2>5, <2>6, <2>7, <2>8, <3>8, <3>9 DEF BellInv
  <2> QED BY <1>5, <2>9, <2>10, TakesPlan
<1>6. CASE Others
  <2>1. UNCHANGED <<ctlproc, todo, watchertype, view>>
    BY <1>6, OthersFrame
  <2>2. /\ Ringing' <=> Ringing
        /\ \A w \in Watchers : Started(w) => Started(w)'
    BY <1>6, <1>p, Motion, Carry
  <2>3. \A w \in Watchers : Silent(w)' => Silent(w)
    BY <1>6, SilentKept
  <2>4. SilentInv'
    BY <1>b1, <2>1, <2>2, <2>3 DEF SilentInv
  <2>5. RingInv'
    BY <1>b2, <2>1, <2>2, <2>3 DEF RingInv
  <2>6. SoundInv'
    BY <1>b3, <2>1, <2>2 DEF SoundInv
  <2>7. OffInv'
    BY <1>b4, <2>1, <2>2 DEF OffInv
  <2>8. NamedInv'
    BY <1>b5, <2>1, <2>2 DEF NamedInv, Started
  <2>9. OnInv'
    BY <1>b6, <2>1, <2>2 DEF OnInv
  <2> QED BY <2>4, <2>5, <2>6, <2>7, <2>8, <2>9 DEF BellInv
<1> QED BY <1>1, <1>2, <1>3, <1>4, <1>5, <1>6, AllSteps

\* The started program satisfies the invariant of the engine.
LEMMA InitEngineInv == Init => EngineInv
<1> SUFFICES ASSUME Init PROVE EngineInv
  OBVIOUS
<1>1. TInv
  BY InitTInv
<1>2. /\ todo = <<>> /\ ctlproc = "run" /\ cmd = [p \in Callers |-> NoCmd]
      /\ pid = [c \in Cells |-> None]
      /\ view.reader.kind = "none"
  BY DEF Init, Msg
<1>3. Elems(todo) = {} /\ Ordered(todo)
  BY <1>2, ElemsShort
<1>4. ListInv
  BY <1>3 DEF ListInv, Kills
<1>5. ClaimInv
  <2>1. \A p \in Callers : cmd[p].name # "on"
    BY <1>2 DEF NoCmd
  <2>2. \A w \in Watchers : pid["watcher"] # w
    BY <1>2, ProcsApart
  <2> QED BY <1>3, <2>1, <2>2 DEF ClaimInv
<1>6. ByeInv
  BY <1>2, <1>3 DEF ByeInv
<1>7. /\ \A c \in Cells : \A p \in ProcsOf(c) : Alive(p) => pc[p] = "spawned"
      /\ \A p \in Watchers \cup Ringers : ~Alive(p)
  <2>1. \A p \in Watchers : pc[p] = "unborn"
    BY ProcsApart DEF Init, Static, Callers
  <2>2. \A p \in Ringers : pc[p] = "dead"
    BY ProcsApart DEF Init, Static, Callers
  <2>3. \A p \in {"heartbeat", "registry", "ctlfile"} : pc[p] = "spawned"
    <3>1. {"heartbeat", "registry", "ctlfile"} \subseteq Procs
      BY DEF Procs, Static, Callers
    <3>2. \A p \in {"heartbeat", "registry", "ctlfile"} : p \notin Watchers
      BY ProcsApart DEF Static, Callers
    <3> QED BY <3>1, <3>2 DEF Init
  <2>4. \A p \in Watchers \cup Ringers : ~Alive(p)
    BY <2>1, <2>2 DEF Alive
  <2>5. \A c \in Cells : ProcsOf(c) \subseteq Watchers \cup Ringers \/ c \in {"heartbeat", "registry", "ctlfile"}
    BY ProcsApart DEF Cells
  <2> QED BY <2>3, <2>4, <2>5, ProcsApart
<1>8. PidInv
  BY <1>7 DEF PidInv, Recorded
<1>9. PendingInv
  BY <1>2, <1>3 DEF PendingInv
<1>10. ~Ringing
  BY <1>7 DEF Ringing
<1>11. \A w \in Watchers : ~Silent(w)
  BY <1>7 DEF Silent, Alive
<1>12. BellInv
  BY <1>2, <1>3, <1>10, <1>11
     DEF BellInv, SilentInv, RingInv, SoundInv, OffInv, NamedInv, OnInv, Rings
<1> QED BY <1>1, <1>4, <1>5, <1>6, <1>8, <1>9, <1>12 DEF EngineInv

\* Every step of the engine keeps it.
LEMMA NextEngineInv == EngineInv /\ [Next]_vars => EngineInv'
<1> SUFFICES ASSUME EngineInv, [Next]_vars PROVE EngineInv'
  OBVIOUS
<1>1. TInv /\ ListInv /\ ClaimInv /\ ByeInv
  BY DEF EngineInv
<1>2. TInv' /\ ListInv' /\ ClaimInv' /\ ByeInv'
  BY <1>1, NextTInv, NextListInv, NextClaimInv, NextByeInv
<1>3. ASSUME raced' = {} PROVE PidInv' /\ PendingInv' /\ BellInv'
  <2>1. PidInv /\ PendingInv /\ BellInv
    BY <1>3, RacedGrows DEF EngineInv
  <2> QED BY <1>1, <1>3, <2>1, NextPidInv, NextPendingInv, NextBellInv
<1> QED BY <1>2, <1>3 DEF EngineInv

\* The invariant of the engine holds throughout.
LEMMA EngineAlways == Spec => []EngineInv
BY InitEngineInv, NextEngineInv, PTL DEF Spec

\* watcher_spawn and watcher_kill in alert.b: as long as no kill came too
\* early, at most one watcher runs whenever ctlproc waits, and it is the one
\* watchertype names, however many "on" and "off" commands, failing watchers
\* and late reports there have been.
THEOREM AtMostOneWatcher == Spec => []OneWatcher
<1>1. EngineInv => OneWatcher
  BY DEF EngineInv, PidInv, OneWatcher
<1> QED BY <1>1, EngineAlways, PTL

\* ctlproc in alert.b: as long as no kill came too early, the bell does what
\* the reader was last told.  After "off" and "running" nobody rings, there is
\* never a second ringer, and one rings while the watcher the reader was told
\* rings is still the engine's.
THEOREM BellFollowsStatus == Spec => []BellMatchesStatus
<1>1. ASSUME EngineInv, raced = {}, AtAlt
      PROVE  LET ringing == {r \in Ringers : Alive(r)} IN
             /\ view.reader.kind \in {"none", "off", "running"} => ringing = {}
             /\ Cardinality(ringing) <= 1
             /\ view.reader.kind = "ringing" /\ view.reader.of = watchertype =>
                   Cardinality(ringing) = 1
  <2> DEFINE ringing == {r \in Ringers : Alive(r)}
  <2>1. /\ \A q, r \in ringing : q = r
        /\ OffInv /\ OnInv
    BY <1>1 DEF EngineInv, PidInv, BellInv
  <2>2. ~Announces(todo) /\ ~Ends(todo) /\ ctlproc = "run"
    BY <1>1, EmptyList
  <2>3. Ringing <=> ringing # {}
    BY DEF Ringing
  <2> HIDE DEF ringing
  <2>4. ringing = {} => Cardinality(ringing) = 0
    BY FS_EmptySet
  <2>5. ringing # {} => Cardinality(ringing) = 1
    <3>1. SUFFICES ASSUME NEW r \in ringing PROVE Cardinality(ringing) = 1
      OBVIOUS
    <3>2. ringing = {r}
      BY <2>1
    <3> QED BY <3>2, FS_Singleton
  <2>6. view.reader.kind \in {"none", "off", "running"} => ringing = {}
    BY <2>1, <2>2, <2>3 DEF OffInv
  <2>7. Cardinality(ringing) <= 1
    BY <2>4, <2>5
  <2>8. view.reader.kind = "ringing" /\ view.reader.of = watchertype => Cardinality(ringing) = 1
    BY <2>1, <2>2, <2>3, <2>5 DEF OnInv
  <2> QED BY <2>6, <2>7, <2>8 DEF ringing
<1>2. EngineInv => BellMatchesStatus
  BY <1>1 DEF BellMatchesStatus
<1> QED BY <1>2, EngineAlways, PTL

\* The exit branch of ctlproc: once it is through, the reader has received
\* nil and left its loop, and, unless a kill came before a process had
\* started, no heartbeat, registry, control file, watcher or bell is left.
THEOREM ExitLeavesNobody == Spec => []ExitIsComplete
<1>1. EngineInv => ExitIsComplete
  <2> SUFFICES ASSUME EngineInv, ctlproc = "exited" PROVE ExitIsComplete
    BY DEF ExitIsComplete
  <2>1. view.reader.kind = "nil" /\ pc["reader"] = "dead"
    BY DEF EngineInv, ByeInv
  <2>2. ASSUME raced = {},
               NEW p \in {"heartbeat", "registry", "ctlfile"} \cup Watchers \cup Ringers
        PROVE  ~Alive(p)
    <3>1. \A c \in Cells : Quiet(c)
      BY <2>2 DEF EngineInv, PendingInv
    <3>2. \E c \in Cells : p \in ProcsOf(c)
      BY ProcsApart DEF Cells
    <3> QED BY <3>1, <3>2 DEF Quiet
  <2> QED BY <2>1, <2>2 DEF ExitIsComplete
<1> QED BY <1>1, EngineAlways, PTL

=============================================================================
