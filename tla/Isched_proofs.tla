---------------------------- MODULE Isched_proofs ----------------------------
(***************************************************************************)
(* Proofs about Isched for any number of threads and processes.             *)
(***************************************************************************)
EXTENDS Isched, FiniteSetTheorems, TLAPS

\* The members of a queue, and that nobody is in it twice.
Members(s) == {s[i] : i \in DOMAIN s}
Distinct(s) == \A i, j \in DOMAIN s : s[i] = s[j] => i = j

\* Threads in osblock, but for the sleeping owner.
Waiting == {"wake", "queued", "spare", "yielded"}

\* A thread has the interpreter: it runs as the owner, has still to make the
\* next owner ready, or has been made ready as the next owner.
Posted(t)  == pc[t] \in Waiting /\ sem[t] # 0
HasIt(t) == pc[t] \in Owning \/ hand[t] # Nil \/ Posted(t)

\* At most one thread has it, in one of the three ways; if none, it lies idle.
OwnInv ==
    /\ \A t, u \in Threads : HasIt(t) /\ HasIt(u) => t = u
    /\ \A t \in Threads : hand[t] # Nil => pc[t] \notin Owning /\ ~Posted(t)
    /\ idle <=> \A t \in Threads : ~HasIt(t)

\* A thread is made ready once, in osblock; the thread in irend sleeps.
SemInv ==
    /\ \A t \in Threads : sem[t] \in {0, 1} /\ (sem[t] = 1 => pc[t] \in Waiting \cup {"asleep"})
    /\ \A t \in Threads : hand[t] # Nil => pc[hand[t]] \in Waiting /\ sem[hand[t]] = 0
    /\ irend # Nil => pc[irend] = "asleep" /\ sem[irend] = 0

\* Who waits for the interpreter is in its queue, or has just been taken out
\* of it and is, or will be, made ready.
Taken(t) == sem[t] = 1 \/ \E u \in Threads : hand[u] = t
WaitInv ==
    /\ Distinct(vmq) /\ Distinct(idlevmq)
    /\ \A t \in Members(vmq) : pc[t] \in {"wake", "queued"} /\ ~Taken(t)
    /\ \A t \in Members(idlevmq) : pc[t] \in {"spare", "yielded"} /\ ~Taken(t)
    /\ \A t \in Threads : pc[t] \in {"wake", "queued"} => t \in Members(vmq) \/ Taken(t)
    /\ \A t \in Threads : pc[t] \in {"spare", "yielded"} => t \in Members(idlevmq) \/ Taken(t)

\* A VM thread that is away carries the process of a system call, which nobody
\* else has, but for one at most, the collector.
Collecting(t) == Away(t) /\ iprog[t] = Nil
ProgInv ==
    /\ \A t \in VMs : iprog[t] # Nil => Away(t)
    /\ \A t, u \in VMs : Collecting(t) /\ Collecting(u) => t = u
    /\ \A t \in Kprocs : iprog[t] = Nil /\ pc[t] \in {"out", "wake", "queued", "in"}
    /\ \A t \in VMs : pc[t] # "in"
    /\ Distinct(runq)
    /\ \A t \in VMs : iprog[t] # Nil =>
         iprog[t] \notin Members(runq) /\ \A u \in VMs \ {t} : iprog[u] # iprog[t]
    /\ \A t \in VMs : pc[t] \in {"xec", "ret"} => runq # <<>>

\* One thread is being created at a time, and only when the others all have a
\* process or collect.
Created == {t \in VMs : pc[t] # "none"}
CreateInv ==
    /\ \A t, u \in VMs : pc[t] = "start" /\ pc[u] = "start" => t = u
    /\ \A t \in VMs : pc[t] = "start" => creating
    /\ ThreadsBounded

IInv == TypeOK /\ OwnInv /\ SemInv /\ WaitInv /\ ProgInv /\ CreateInv
----------------------------------------------------------------------------
(* Queues *)

\* A queue is empty exactly when it has no members.
LEMMA MembersOf ==
  ASSUME NEW S, NEW s \in Seq(S)
  PROVE  Members(s) \subseteq S /\ (s = <<>> <=> Members(s) = {})
<1>1. DOMAIN s = 1..Len(s) /\ Len(s) \in Nat /\ (s = <<>> <=> Len(s) = 0)
  OBVIOUS
<1>2. Members(s) \subseteq S
  BY <1>1 DEF Members
<1>3. s = <<>> => Members(s) = {}
  BY <1>1 DEF Members
<1>4. s # <<>> => s[1] \in Members(s)
  BY <1>1 DEF Members
<1> QED
  BY <1>2, <1>3, <1>4

\* Joining a queue at its end (vmq in acquire, runq in addrun).
LEMMA JoinEnd ==
  ASSUME NEW S, NEW s \in Seq(S), NEW x \in S
  PROVE  /\ Append(s, x) \in Seq(S) /\ Append(s, x) # <<>>
         /\ Members(Append(s, x)) = Members(s) \cup {x}
         /\ Distinct(s) /\ x \notin Members(s) => Distinct(Append(s, x))
<1> DEFINE a == Append(s, x)
<1>1. /\ a \in Seq(S) /\ a # <<>> /\ DOMAIN a = DOMAIN s \cup {Len(s) + 1}
      /\ a[Len(s) + 1] = x /\ \A i \in DOMAIN s : a[i] = s[i]
  OBVIOUS
<1> HIDE DEF a
<1>2. Members(a) = Members(s) \cup {x}
  BY <1>1 DEF Members
<1>3. Distinct(s) /\ x \notin Members(s) => Distinct(a)
  BY <1>1 DEF Members, Distinct
<1> QED
  BY <1>1, <1>2, <1>3 DEF a

\* Joining a queue at its head (idlevmq in iyield, runq at the end of acquire).
LEMMA JoinHead ==
  ASSUME NEW S, NEW s \in Seq(S), NEW x \in S
  PROVE  /\ <<x>> \o s \in Seq(S) /\ <<x>> \o s # <<>>
         /\ Members(<<x>> \o s) = Members(s) \cup {x}
         /\ Distinct(s) /\ x \notin Members(s) => Distinct(<<x>> \o s)
<1> DEFINE a == <<x>> \o s
<1>1. /\ a \in Seq(S) /\ a # <<>> /\ Len(a) = Len(s) + 1 /\ Len(s) \in Nat /\ a[1] = x
      /\ \A i \in 1..Len(s) : a[i + 1] = s[i]
  OBVIOUS
<1>2. DOMAIN s = 1..Len(s) /\ DOMAIN a = 1..(Len(s) + 1)
  BY <1>1
<1> HIDE DEF a
<1>3. \A i \in DOMAIN a : i = 1 \/ (i \in Nat /\ i - 1 \in DOMAIN s /\ a[i] = s[i - 1])
  BY <1>1, <1>2
<1>4. \A i \in DOMAIN s : i \in Nat /\ i + 1 \in DOMAIN a /\ a[i + 1] = s[i]
  BY <1>1, <1>2
<1>5. Members(a) = Members(s) \cup {x}
  <2>1. 1 \in DOMAIN a
    BY <1>1, <1>2
  <2>2. \A y : y \in Members(a) => y = x \/ y \in Members(s)
    BY <1>1, <1>3 DEF Members
  <2>3. \A y : y = x \/ y \in Members(s) => y \in Members(a)
    BY <1>1, <1>4, <2>1 DEF Members
  <2> QED
    BY <2>2, <2>3
<1>6. Distinct(s) /\ x \notin Members(s) => Distinct(a)
  BY <1>1, <1>3 DEF Members, Distinct
<1> QED
  BY <1>1, <1>5, <1>6 DEF a

\* Leaving a queue at its head (release, iyield).
LEMMA LeaveHead ==
  ASSUME NEW S, NEW s \in Seq(S), s # <<>>, Distinct(s)
  PROVE  /\ Tail(s) \in Seq(S) /\ Distinct(Tail(s))
         /\ Head(s) \in S /\ Head(s) \in Members(s)
         /\ Members(Tail(s)) = Members(s) \ {Head(s)}
<1> DEFINE a == Tail(s)
<1>1. /\ a \in Seq(S) /\ Len(a) = Len(s) - 1 /\ Len(s) \in Nat /\ Len(s) > 0 /\ Head(s) = s[1]
      /\ \A i \in 1..Len(a) : a[i] = s[i + 1]
  OBVIOUS
<1>2. DOMAIN s = 1..Len(s) /\ DOMAIN a = 1..(Len(s) - 1)
  BY <1>1
<1> HIDE DEF a
<1>3. \A i \in DOMAIN a : i \in Nat /\ i > 0 /\ i + 1 \in DOMAIN s /\ a[i] = s[i + 1]
  BY <1>1, <1>2
<1>4. \A i \in DOMAIN s : i = 1 \/ (i \in Nat /\ i - 1 \in DOMAIN a /\ a[i - 1] = s[i])
  BY <1>1, <1>2
<1>5. 1 \in DOMAIN s /\ Head(s) = s[1]
  BY <1>1, <1>2
<1>6. Distinct(a)
  BY <1>3 DEF Distinct
<1>7. Members(a) = Members(s) \ {s[1]}
  <2>1. \A i \in DOMAIN a : a[i] # s[1]
    BY <1>3, <1>5 DEF Distinct
  <2> QED
    BY <1>3, <1>4, <2>1 DEF Members
<1> QED
  BY <1>1, <1>5, <1>6, <1>7 DEF a, Members

----------------------------------------------------------------------------
(* The parts of the invariant *)

\* The end of release: somebody gets the interpreter from t, or it lies idle.
Handover(t) ==
    \/ /\ vmq # <<>>
       /\ hand' = [hand EXCEPT ![t] = Head(vmq)] /\ vmq' = Tail(vmq)
       /\ idlevmq' = idlevmq /\ idle' = idle /\ creating' = creating
    \/ /\ vmq = <<>> /\ idlevmq # <<>>
       /\ hand' = [hand EXCEPT ![t] = Head(idlevmq)] /\ idlevmq' = Tail(idlevmq)
       /\ vmq' = vmq /\ idle' = idle /\ creating' = creating
    \/ /\ vmq = <<>> /\ idlevmq = <<>>
       /\ vmq' = vmq /\ idlevmq' = idlevmq /\ hand' = hand /\ idle' = TRUE /\ creating' = TRUE

\* A thread that leaves the interpreter, and perhaps creates another one.
Leaves(t) ==
    /\ pc[t] \in {"xec", "ret", "gc", "in"} /\ hand[t] = Nil /\ pc'[t] = "out"
    /\ sem' = sem /\ irend' = irend
    /\ Handover(t)
    /\ \/ \A x \in Threads \ {t} : pc'[x] = pc[x]
       \/ /\ vmq = <<>> /\ idlevmq = <<>> /\ ~creating /\ idle' /\ creating'
          /\ \E m \in VMs : /\ pc[m] = "none" /\ pc'[m] = "start" /\ m # t
                            /\ \A x \in Threads \ {t, m} : pc'[x] = pc[x]

\* All ways to leave it are of this kind.
LEMMA ReleaseLeaves ==
  ASSUME IInv, NEW t \in Threads, release(t) \/ kprocrelease(t) \/ gcrelease(t)
  PROVE  Leaves(t)
<1>1. pc \in [Threads -> Places] /\ idle \in BOOLEAN
  BY DEF IInv, TypeOK
<1>2. /\ pc[t] \in {"xec", "ret", "gc", "in"} /\ hand[t] = Nil /\ sem' = sem /\ irend' = irend
      /\ Pass(t) /\ Create(t, "out")
  BY DEF release, kprocrelease, gcrelease, At
<1>3. Handover(t)
  BY <1>2 DEF Pass, Handover
<1>4. CASE pc' = [pc EXCEPT ![t] = "out"]
  BY <1>1, <1>2, <1>3, <1>4 DEF Leaves
<1>5. CASE /\ idle' /\ ~creating
           /\ \E m \in VMs : pc[m] = "none" /\ pc' = [pc EXCEPT ![m] = "start", ![t] = "out"]
  <2>1. PICK m \in VMs : pc[m] = "none" /\ pc' = [pc EXCEPT ![m] = "start", ![t] = "out"]
    BY <1>5
  <2>2. m # t /\ m \in Threads
    BY <1>2, <2>1 DEF Threads
  <2>3. pc'[t] = "out" /\ pc'[m] = "start" /\ \A x \in Threads \ {t, m} : pc'[x] = pc[x]
    BY <1>1, <2>1, <2>2
  <2>4. ~idle
    <3>1. HasIt(t)
      BY <1>2 DEF HasIt, Owning
    <3> QED
      BY <3>1 DEF IInv, OwnInv
  <2>5. vmq = <<>> /\ idlevmq = <<>> /\ creating'
    BY <1>3, <1>5, <2>4 DEF Handover
  <2> QED
    BY <1>2, <1>3, <1>5, <2>1, <2>2, <2>3, <2>5 DEF Leaves
<1> QED
  BY <1>2, <1>4, <1>5 DEF Create, Go

\* Who leaves the interpreter hands it on or leaves it idle.
LEMMA LeavesOwn ==
  ASSUME IInv, NEW t \in Threads, Leaves(t)
  PROVE  OwnInv'
<1>20. /\ pc \in [Threads -> Places] /\ hand \in [Threads -> Threads \cup {Nil}]
       /\ sem \in [Threads -> Nat] /\ idle \in BOOLEAN
  BY DEF IInv, TypeOK
<1>21. OwnInv /\ SemInv
  BY DEF IInv
<1>22. Nil \notin Threads /\ VMs \subseteq Threads /\ Kprocs \subseteq Threads
  BY IschedAssumption DEF Threads
<1>23. \A x \in Members(vmq) : x \in Threads /\ pc[x] \in {"wake", "queued"} /\ sem[x] = 0
  <2>1. WaitInv /\ vmq \in Seq(Threads) /\ sem \in [Threads -> Nat]
    BY DEF IInv, TypeOK
  <2>2. Members(vmq) \subseteq Threads
    BY <2>1, MembersOf
  <2> QED
    BY <2>1, <2>2, <1>21 DEF WaitInv, Taken, SemInv
<1>24. \A x \in Members(idlevmq) : x \in Threads /\ pc[x] \in {"spare", "yielded"} /\ sem[x] = 0
  <2>1. WaitInv /\ idlevmq \in Seq(VMs) /\ sem \in [Threads -> Nat]
    BY DEF IInv, TypeOK
  <2>2. Members(idlevmq) \subseteq VMs
    BY <2>1, MembersOf
  <2> QED
    BY <2>1, <2>2, <1>21, <1>22 DEF WaitInv, Taken, SemInv
<1>25. /\ vmq # <<>> => Head(vmq) \in Members(vmq)
       /\ idlevmq # <<>> => Head(idlevmq) \in Members(idlevmq)
  BY LeaveHead DEF IInv, TypeOK, WaitInv
<1> USE DEF OwnInv, SemInv, HasIt, Posted, Waiting, Owning
<1>1. OwnInv'
  <2>1. Leaves(t)
    BY <1>20
  <2>2. \A x \in Threads \ {t} : ~HasIt(x) /\ hand'[x] = hand[x]
    <3>1. pc[t] \in Owning /\ \A x \in Threads \ {t} : ~HasIt(x)
      BY <2>1, <1>21, <1>22 DEF Leaves
    <3>2. \A x \in Threads \ {t} : hand'[x] = hand[x]
      BY <2>1, <1>20 DEF Leaves, Handover
    <3> QED
      BY <3>1, <3>2
  <2>3. \A x \in Threads \ {t} : ~HasIt(x)'
    BY <2>1, <2>2, <1>20 DEF Leaves
  <2>4. CASE idle' = idle /\ hand'[t] # Nil
    <3>1. HasIt(t) /\ HasIt(t)'
      BY <2>1, <2>4 DEF Leaves
    <3> QED
      BY <2>1, <2>3, <2>4, <3>1, <1>20, <1>21, <1>22 DEF Leaves
  <2>5. CASE idle' /\ hand' = hand
    <3>1. ~HasIt(t)'
      BY <2>1, <2>5 DEF Leaves
    <3> QED
      BY <2>1, <2>2, <2>3, <2>5, <3>1, <1>22 DEF Leaves
  <2> QED
    BY <2>1, <2>4, <2>5, <1>20, <1>22, <1>23, <1>24, <1>25 DEF Leaves, Handover
<1> QED
  BY <1>1

\* The interpreter goes from hand to hand.
LEMMA NextOwn ==
  ASSUME IInv, [Next]_vars
  PROVE  OwnInv'
<1>20. /\ pc \in [Threads -> Places] /\ hand \in [Threads -> Threads \cup {Nil}]
       /\ sem \in [Threads -> Nat] /\ idle \in BOOLEAN
  BY DEF IInv, TypeOK
<1>21. OwnInv /\ SemInv
  BY DEF IInv
<1>22. Nil \notin Threads /\ VMs \subseteq Threads /\ Kprocs \subseteq Threads
  BY IschedAssumption DEF Threads
<1>23. \A x \in Members(vmq) : x \in Threads /\ pc[x] \in {"wake", "queued"} /\ sem[x] = 0
  <2>1. WaitInv /\ vmq \in Seq(Threads) /\ sem \in [Threads -> Nat]
    BY DEF IInv, TypeOK
  <2>2. Members(vmq) \subseteq Threads
    BY <2>1, MembersOf
  <2> QED
    BY <2>1, <2>2, <1>21 DEF WaitInv, Taken, SemInv
<1>24. \A x \in Members(idlevmq) : x \in Threads /\ pc[x] \in {"spare", "yielded"} /\ sem[x] = 0
  <2>1. WaitInv /\ idlevmq \in Seq(VMs) /\ sem \in [Threads -> Nat]
    BY DEF IInv, TypeOK
  <2>2. Members(idlevmq) \subseteq VMs
    BY <2>1, MembersOf
  <2> QED
    BY <2>1, <2>2, <1>21, <1>22 DEF WaitInv, Taken, SemInv
<1>25. /\ vmq # <<>> => Head(vmq) \in Members(vmq)
       /\ idlevmq # <<>> => Head(idlevmq) \in Members(idlevmq)
  BY LeaveHead DEF IInv, TypeOK, WaitInv
<1> USE DEF OwnInv, SemInv, HasIt, Posted, Waiting, Owning
<1>1. ASSUME NEW t \in Threads, osready(t) PROVE OwnInv'
  BY <1>1, <1>20, <1>21, <1>22, <1>23, <1>24, <1>25 DEF osready
<1>2. ASSUME NEW t \in Threads, acquire(t) PROVE OwnInv'
  BY <1>2, <1>20, <1>21, <1>22, <1>23, <1>24, <1>25 DEF acquire, Back, At, Go
<1>3. ASSUME NEW t \in Threads, Wakeup(t) PROVE OwnInv'
  BY <1>3, <1>20, <1>21, <1>22, <1>23, <1>24, <1>25 DEF Wakeup, At, Go
<1>4. ASSUME NEW t \in Threads, acquired(t) PROVE OwnInv'
  BY <1>4, <1>20, <1>21, <1>22, <1>23, <1>24, <1>25 DEF acquired, Back, osblock, At, Go
<1>5. ASSUME NEW t \in VMs, release(t) PROVE OwnInv'
  <2>1. t \in Threads /\ Leaves(t)
    BY <1>5, ReleaseLeaves DEF Threads
  <2> QED
    BY <2>1, LeavesOwn
<1>6. ASSUME NEW t \in VMs, startup(t) PROVE OwnInv'
  BY <1>6, <1>20, <1>21, <1>22, <1>23, <1>24, <1>25 DEF startup, At, Go
<1>7. ASSUME NEW t \in VMs, resume(t) PROVE OwnInv'
  BY <1>7, <1>20, <1>21, <1>22, <1>23, <1>24, <1>25 DEF resume, osblock, At, Go
<1>8. ASSUME NEW t \in VMs, goidle(t) PROVE OwnInv'
  BY <1>8, <1>20, <1>21, <1>22, <1>23, <1>24, <1>25 DEF goidle, At, Go
<1>9. ASSUME NEW t \in VMs, Sleep(t) PROVE OwnInv'
  BY <1>9, <1>20, <1>21, <1>22, <1>23, <1>24, <1>25 DEF Sleep, At, Go
<1>10. ASSUME NEW t \in VMs, awake(t) PROVE OwnInv'
  BY <1>10, <1>20, <1>21, <1>22, <1>23, <1>24, <1>25 DEF awake, osblock, At, Go
<1>11. ASSUME NEW t \in VMs, iyield(t) PROVE OwnInv'
  <2>1. pc[t] = "loop" /\ hand[t] = Nil /\ t \in Threads
    BY <1>11, <1>22 DEF iyield, At
  <2>2. /\ pc' = [pc EXCEPT ![t] = "yielded"] /\ hand' = [hand EXCEPT ![t] = Head(vmq)]
        /\ sem' = sem /\ idle' = idle /\ vmq # <<>>
    BY <1>11 DEF iyield, Go, MustYield
  <2>3. Head(vmq) # Nil /\ sem[t] = 0
    BY <2>1, <2>2, <1>20, <1>21, <1>22, <1>23, <1>25
  <2>4. \A x \in Threads \ {t} : ~HasIt(x) /\ pc'[x] = pc[x] /\ hand'[x] = hand[x]
    <3>1. \A x \in Threads \ {t} : ~HasIt(x)
      BY <2>1, <1>21
    <3> QED
      BY <2>2, <3>1, <1>20
  <2>5. pc'[t] = "yielded" /\ hand'[t] = Head(vmq) /\ ~idle
    BY <2>1, <2>2, <1>20, <1>21
  <2> QED
    BY <2>1, <2>2, <2>3, <2>4, <2>5
<1>12. ASSUME NEW t \in VMs, xec(t) PROVE OwnInv'
  BY <1>12, <1>20, <1>21, <1>22, <1>23, <1>24, <1>25 DEF xec, At, Go
<1>13. ASSUME NEW t \in VMs, Quantum(t) PROVE OwnInv'
  BY <1>13, <1>20, <1>21, <1>22, <1>23, <1>24, <1>25 DEF Quantum, NextTurn, At, Go
<1>14. ASSUME NEW t \in VMs, sysret(t) PROVE OwnInv'
  BY <1>14, <1>20, <1>21, <1>22, <1>23, <1>24, <1>25 DEF sysret, NextTurn, At, Go
<1>15. ASSUME NEW t \in VMs, caught(t) PROVE OwnInv'
  BY <1>15, <1>20, <1>21, <1>22, <1>23, <1>24, <1>25 DEF caught, At, Go
<1>18. ASSUME NEW t \in VMs, exits(t) PROVE OwnInv'
  BY <1>18, <1>20, <1>21, <1>22, <1>23, <1>24, <1>25 DEF exits, At, Go
<1>19. ASSUME NEW t \in VMs, gcend(t) PROVE OwnInv'
  BY <1>19, <1>20, <1>21, <1>22, <1>23, <1>24, <1>25 DEF gcend, At, Go
<1>30. ASSUME NEW t \in VMs, gcrelease(t) PROVE OwnInv'
  <2>1. t \in Threads /\ Leaves(t)
    BY <1>30, ReleaseLeaves DEF Threads
  <2> QED
    BY <2>1, LeavesOwn
<1>16. ASSUME NEW t \in Kprocs, kprocrelease(t) PROVE OwnInv'
  <2>1. t \in Threads /\ Leaves(t)
    BY <1>16, ReleaseLeaves DEF Threads
  <2> QED
    BY <2>1, LeavesOwn
<1>17. CASE UNCHANGED vars
  BY <1>17, <1>20, <1>21, <1>22, <1>23, <1>24, <1>25 DEF vars
<1> QED
  BY <1>1, <1>2, <1>3, <1>4, <1>5, <1>6, <1>7, <1>8, <1>9, <1>10, <1>11, <1>12,
     <1>13, <1>14, <1>15, <1>16, <1>17, <1>18, <1>19, <1>30, <1>22 DEF Next, VMStep, KprocStep

\* Who leaves the interpreter makes ready a thread in osblock.
LEMMA LeavesSem ==
  ASSUME IInv, NEW t \in Threads, Leaves(t)
  PROVE  SemInv'
<1>20. /\ pc \in [Threads -> Places] /\ hand \in [Threads -> Threads \cup {Nil}]
       /\ sem \in [Threads -> Nat] /\ idle \in BOOLEAN
  BY DEF IInv, TypeOK
<1>21. OwnInv /\ SemInv
  BY DEF IInv
<1>22. Nil \notin Threads /\ VMs \subseteq Threads /\ Kprocs \subseteq Threads
  BY IschedAssumption DEF Threads
<1>23. \A x \in Members(vmq) : x \in Threads /\ pc[x] \in {"wake", "queued"} /\ sem[x] = 0
  <2>1. WaitInv /\ vmq \in Seq(Threads) /\ sem \in [Threads -> Nat]
    BY DEF IInv, TypeOK
  <2>2. Members(vmq) \subseteq Threads
    BY <2>1, MembersOf
  <2> QED
    BY <2>1, <2>2, <1>21 DEF WaitInv, Taken, SemInv
<1>24. \A x \in Members(idlevmq) : x \in Threads /\ pc[x] \in {"spare", "yielded"} /\ sem[x] = 0
  <2>1. WaitInv /\ idlevmq \in Seq(VMs) /\ sem \in [Threads -> Nat]
    BY DEF IInv, TypeOK
  <2>2. Members(idlevmq) \subseteq VMs
    BY <2>1, MembersOf
  <2> QED
    BY <2>1, <2>2, <1>21, <1>22 DEF WaitInv, Taken, SemInv
<1>25. /\ vmq # <<>> => Head(vmq) \in Members(vmq)
       /\ idlevmq # <<>> => Head(idlevmq) \in Members(idlevmq)
  BY LeaveHead DEF IInv, TypeOK, WaitInv
<1>26. irend \in VMs \cup {Nil}
  BY DEF IInv, TypeOK
<1> USE DEF OwnInv, SemInv, HasIt, Posted, Waiting, Owning
<1>1. SemInv'
  <2>1. Leaves(t)
    BY <1>20
  <2>2. \A x \in Threads \ {t} : hand[x] = Nil /\ hand'[x] = Nil
    <3>1. \A x \in Threads \ {t} : ~HasIt(x)
      BY <2>1, <1>21, <1>22 DEF Leaves
    <3> QED
      BY <2>1, <3>1, <1>20 DEF Leaves, Handover
  <2>3. hand'[t] # Nil => hand'[t] \in Threads /\ pc[hand'[t]] \in Waiting /\ sem[hand'[t]] = 0
    BY <2>1, <1>20, <1>22, <1>23, <1>24, <1>25 DEF Leaves, Handover
  <2>4. \A x \in Threads : pc[x] \in Waiting \cup {"asleep"} => pc'[x] = pc[x]
    BY <2>1, <1>20, <1>22 DEF Leaves
  <2> QED
    BY <2>1, <2>2, <2>3, <2>4, <1>21, <1>22, <1>26 DEF Leaves
<1> QED
  BY <1>1

\* Who has been chosen stays in osblock until it is made ready.
LEMMA NextSem ==
  ASSUME IInv, [Next]_vars
  PROVE  SemInv'
<1>20. /\ pc \in [Threads -> Places] /\ hand \in [Threads -> Threads \cup {Nil}]
       /\ sem \in [Threads -> Nat] /\ idle \in BOOLEAN
  BY DEF IInv, TypeOK
<1>21. OwnInv /\ SemInv
  BY DEF IInv
<1>22. Nil \notin Threads /\ VMs \subseteq Threads /\ Kprocs \subseteq Threads
  BY IschedAssumption DEF Threads
<1>23. \A x \in Members(vmq) : x \in Threads /\ pc[x] \in {"wake", "queued"} /\ sem[x] = 0
  <2>1. WaitInv /\ vmq \in Seq(Threads) /\ sem \in [Threads -> Nat]
    BY DEF IInv, TypeOK
  <2>2. Members(vmq) \subseteq Threads
    BY <2>1, MembersOf
  <2> QED
    BY <2>1, <2>2, <1>21 DEF WaitInv, Taken, SemInv
<1>24. \A x \in Members(idlevmq) : x \in Threads /\ pc[x] \in {"spare", "yielded"} /\ sem[x] = 0
  <2>1. WaitInv /\ idlevmq \in Seq(VMs) /\ sem \in [Threads -> Nat]
    BY DEF IInv, TypeOK
  <2>2. Members(idlevmq) \subseteq VMs
    BY <2>1, MembersOf
  <2> QED
    BY <2>1, <2>2, <1>21, <1>22 DEF WaitInv, Taken, SemInv
<1>25. /\ vmq # <<>> => Head(vmq) \in Members(vmq)
       /\ idlevmq # <<>> => Head(idlevmq) \in Members(idlevmq)
  BY LeaveHead DEF IInv, TypeOK, WaitInv
<1>26. irend \in VMs \cup {Nil}
  BY DEF IInv, TypeOK
<1> USE DEF OwnInv, SemInv, HasIt, Posted, Waiting, Owning
<1>1. ASSUME NEW t \in Threads, osready(t) PROVE SemInv'
  BY <1>1, <1>20, <1>21, <1>22, <1>23, <1>24, <1>25, <1>26 DEF osready
<1>2. ASSUME NEW t \in Threads, acquire(t) PROVE SemInv'
  BY <1>2, <1>20, <1>21, <1>22, <1>23, <1>24, <1>25, <1>26, ZenonT(40) DEF acquire, Back, At, Go
<1>3. ASSUME NEW t \in Threads, Wakeup(t) PROVE SemInv'
  BY <1>3, <1>20, <1>21, <1>22, <1>23, <1>24, <1>25, <1>26 DEF Wakeup, At, Go
<1>4. ASSUME NEW t \in Threads, acquired(t) PROVE SemInv'
  BY <1>4, <1>20, <1>21, <1>22, <1>23, <1>24, <1>25, <1>26 DEF acquired, Back, osblock, At, Go
<1>5. ASSUME NEW t \in VMs, release(t) PROVE SemInv'
  <2>1. t \in Threads /\ Leaves(t)
    BY <1>5, ReleaseLeaves DEF Threads
  <2> QED
    BY <2>1, LeavesSem
<1>6. ASSUME NEW t \in VMs, startup(t) PROVE SemInv'
  BY <1>6, <1>20, <1>21, <1>22, <1>23, <1>24, <1>25, <1>26 DEF startup, At, Go
<1>7. ASSUME NEW t \in VMs, resume(t) PROVE SemInv'
  BY <1>7, <1>20, <1>21, <1>22, <1>23, <1>24, <1>25, <1>26 DEF resume, osblock, At, Go
<1>8. ASSUME NEW t \in VMs, goidle(t) PROVE SemInv'
  BY <1>8, <1>20, <1>21, <1>22, <1>23, <1>24, <1>25, <1>26 DEF goidle, At, Go
<1>9. ASSUME NEW t \in VMs, Sleep(t) PROVE SemInv'
  BY <1>9, <1>20, <1>21, <1>22, <1>23, <1>24, <1>25, <1>26 DEF Sleep, At, Go
<1>10. ASSUME NEW t \in VMs, awake(t) PROVE SemInv'
  BY <1>10, <1>20, <1>21, <1>22, <1>23, <1>24, <1>25, <1>26 DEF awake, osblock, At, Go
<1>11. ASSUME NEW t \in VMs, iyield(t) PROVE SemInv'
  <2>1. /\ pc[t] = "loop" /\ pc' = [pc EXCEPT ![t] = "yielded"] /\ hand' = [hand EXCEPT ![t] = Head(vmq)]
        /\ sem' = sem /\ irend' = irend /\ vmq # <<>>
    BY <1>11 DEF iyield, Go, MustYield, At
  <2>2. \A x \in Threads \ {t} : hand[x] = Nil /\ hand'[x] = Nil
    <3>1. \A x \in Threads \ {t} : ~HasIt(x)
      BY <2>1, <1>21, <1>22
    <3> QED
      BY <2>1, <3>1, <1>20
  <2>3. hand'[t] = Head(vmq) /\ Head(vmq) \in Threads /\ Head(vmq) # t
        /\ pc[Head(vmq)] \in Waiting /\ sem[Head(vmq)] = 0
    BY <2>1, <1>20, <1>22, <1>23, <1>25
  <2>4. \A x \in Threads : pc[x] \in Waiting \cup {"asleep"} => pc'[x] = pc[x] /\ x # t
    BY <2>1, <1>20
  <2>5. irend # Nil => irend \in Threads
    BY <1>22, <1>26
  <2> QED
    BY <2>1, <2>2, <2>3, <2>4, <2>5, <1>21
<1>12. ASSUME NEW t \in VMs, xec(t) PROVE SemInv'
  BY <1>12, <1>20, <1>21, <1>22, <1>23, <1>24, <1>25, <1>26 DEF xec, At, Go
<1>13. ASSUME NEW t \in VMs, Quantum(t) PROVE SemInv'
  BY <1>13, <1>20, <1>21, <1>22, <1>23, <1>24, <1>25, <1>26 DEF Quantum, NextTurn, At, Go
<1>14. ASSUME NEW t \in VMs, sysret(t) PROVE SemInv'
  BY <1>14, <1>20, <1>21, <1>22, <1>23, <1>24, <1>25, <1>26 DEF sysret, NextTurn, At, Go
<1>15. ASSUME NEW t \in VMs, caught(t) PROVE SemInv'
  BY <1>15, <1>20, <1>21, <1>22, <1>23, <1>24, <1>25, <1>26 DEF caught, At, Go
<1>18. ASSUME NEW t \in VMs, exits(t) PROVE SemInv'
  BY <1>18, <1>20, <1>21, <1>22, <1>23, <1>24, <1>25, <1>26 DEF exits, At, Go
<1>19. ASSUME NEW t \in VMs, gcend(t) PROVE SemInv'
  BY <1>19, <1>20, <1>21, <1>22, <1>23, <1>24, <1>25, <1>26 DEF gcend, At, Go
<1>30. ASSUME NEW t \in VMs, gcrelease(t) PROVE SemInv'
  <2>1. t \in Threads /\ Leaves(t)
    BY <1>30, ReleaseLeaves DEF Threads
  <2> QED
    BY <2>1, LeavesSem
<1>16. ASSUME NEW t \in Kprocs, kprocrelease(t) PROVE SemInv'
  <2>1. t \in Threads /\ Leaves(t)
    BY <1>16, ReleaseLeaves DEF Threads
  <2> QED
    BY <2>1, LeavesSem
<1>17. CASE UNCHANGED vars
  BY <1>17, <1>20, <1>21, <1>22, <1>23, <1>24, <1>25, <1>26 DEF vars
<1> QED
  BY <1>1, <1>2, <1>3, <1>4, <1>5, <1>6, <1>7, <1>8, <1>9, <1>10, <1>11, <1>12,
     <1>13, <1>14, <1>15, <1>16, <1>17, <1>18, <1>19, <1>30, <1>22 DEF Next, VMStep, KprocStep

\* The next owner leaves its queue.
LEMMA LeavesWait ==
  ASSUME IInv, NEW t \in Threads, Leaves(t)
  PROVE  WaitInv'
<1>20. /\ pc \in [Threads -> Places] /\ hand \in [Threads -> Threads \cup {Nil}]
       /\ sem \in [Threads -> Nat] /\ irend \in VMs \cup {Nil}
  BY DEF IInv, TypeOK
<1>21. OwnInv /\ SemInv /\ WaitInv
  BY DEF IInv
<1>22. Nil \notin Threads /\ VMs \subseteq Threads /\ Kprocs \subseteq Threads
  BY IschedAssumption DEF Threads
<1>23. vmq \in Seq(Threads) /\ idlevmq \in Seq(VMs)
  BY DEF IInv, TypeOK
<1>24. Members(vmq) \subseteq Threads /\ Members(idlevmq) \subseteq Threads
  BY <1>22, <1>23, MembersOf
<1>25. \A x \in Threads : Taken(x) => pc[x] \in Waiting \cup {"asleep"}
  BY <1>21, <1>22 DEF Taken, SemInv, Waiting
<1>26. /\ \A x \in Members(vmq) : pc[x] \in {"wake", "queued"} /\ ~Taken(x)
       /\ \A x \in Members(idlevmq) : pc[x] \in {"spare", "yielded"} /\ ~Taken(x)
       /\ Distinct(vmq) /\ Distinct(idlevmq)
  BY <1>21 DEF WaitInv
<1> USE DEF WaitInv, Waiting
<1>1. WaitInv'
  <2>1. Leaves(t) /\ t \in Threads /\ sem' = sem
    BY <1>20 DEF Leaves
  <2>2. \A x \in Threads : hand[x] = Nil
    BY <2>1, <1>21 DEF Leaves, OwnInv, HasIt, Owning
  <2>3. \A x \in Threads : /\ pc[x] \in Waiting => pc'[x] = pc[x]
                           /\ pc'[x] \in Waiting => pc'[x] = pc[x]
    BY <2>1, <1>20 DEF Leaves
  <2>4. ASSUME NEW h, h = Head(vmq), vmq # <<>>, hand' = [hand EXCEPT ![t] = h],
               vmq' = Tail(vmq), idlevmq' = idlevmq
        PROVE  WaitInv'
    <3>1. /\ h \in Threads /\ h \in Members(vmq) /\ Distinct(vmq')
          /\ Members(vmq') = Members(vmq) \ {h}
      BY <2>4, <1>22, <1>23, <1>26, LeaveHead
    <3>2. \A x \in Threads : Taken(x)' <=> Taken(x) \/ x = h
      BY <2>1, <2>2, <2>4, <3>1, <1>20, <1>22 DEF Taken
    <3>3. h \notin Members(idlevmq)
      BY <3>1, <1>26
    <3>4. /\ \A x \in Members(vmq') : pc'[x] \in {"wake", "queued"} /\ ~Taken(x)'
          /\ \A x \in Members(idlevmq') : pc'[x] \in {"spare", "yielded"} /\ ~Taken(x)'
      BY <2>3, <2>4, <3>1, <3>2, <3>3, <1>24, <1>26
    <3>5. Distinct(vmq') /\ Distinct(idlevmq')
      BY <2>4, <3>1, <1>26
    <3> QED
      BY <2>3, <2>4, <3>1, <3>2, <3>4, <3>5, <1>21
  <2>5. ASSUME NEW h, h = Head(idlevmq), idlevmq # <<>>, hand' = [hand EXCEPT ![t] = h],
               idlevmq' = Tail(idlevmq), vmq' = vmq
        PROVE  WaitInv'
    <3>1. /\ h \in Threads /\ h \in Members(idlevmq) /\ Distinct(idlevmq')
          /\ Members(idlevmq') = Members(idlevmq) \ {h}
      BY <2>5, <1>22, <1>23, <1>26, LeaveHead
    <3>2. \A x \in Threads : Taken(x)' <=> Taken(x) \/ x = h
      BY <2>1, <2>2, <2>5, <3>1, <1>20, <1>22 DEF Taken
    <3>3. h \notin Members(vmq)
      BY <3>1, <1>26
    <3>4. /\ \A x \in Members(vmq') : pc'[x] \in {"wake", "queued"} /\ ~Taken(x)'
          /\ \A x \in Members(idlevmq') : pc'[x] \in {"spare", "yielded"} /\ ~Taken(x)'
      BY <2>3, <2>5, <3>1, <3>2, <3>3, <1>24, <1>26
    <3>5. Distinct(vmq') /\ Distinct(idlevmq')
      BY <2>5, <3>1, <1>26
    <3> QED
      BY <2>3, <2>5, <3>1, <3>2, <3>4, <3>5, <1>21
  <2>6. ASSUME hand' = hand, vmq' = vmq, idlevmq' = idlevmq
        PROVE  WaitInv'
    <3>1. \A x \in Threads : Taken(x)' <=> Taken(x)
      BY <2>1, <2>6 DEF Taken
    <3> QED
      BY <2>3, <2>6, <3>1, <1>21, <1>24, <1>26
  <2> QED
    BY <2>1, <2>4, <2>5, <2>6 DEF Leaves, Handover
<1> QED
  BY <1>1

\* A thread waits in one queue until it is taken out.
LEMMA NextWait ==
  ASSUME IInv, [Next]_vars
  PROVE  WaitInv'
<1>20. /\ pc \in [Threads -> Places] /\ hand \in [Threads -> Threads \cup {Nil}]
       /\ sem \in [Threads -> Nat] /\ irend \in VMs \cup {Nil}
  BY DEF IInv, TypeOK
<1>21. OwnInv /\ SemInv /\ WaitInv
  BY DEF IInv
<1>22. Nil \notin Threads /\ VMs \subseteq Threads /\ Kprocs \subseteq Threads
  BY IschedAssumption DEF Threads
<1>23. vmq \in Seq(Threads) /\ idlevmq \in Seq(VMs)
  BY DEF IInv, TypeOK
<1>24. Members(vmq) \subseteq Threads /\ Members(idlevmq) \subseteq Threads
  BY <1>22, <1>23, MembersOf
<1>25. \A x \in Threads : Taken(x) => pc[x] \in Waiting \cup {"asleep"}
  BY <1>21, <1>22 DEF Taken, SemInv, Waiting
<1>26. /\ \A x \in Members(vmq) : pc[x] \in {"wake", "queued"} /\ ~Taken(x)
       /\ \A x \in Members(idlevmq) : pc[x] \in {"spare", "yielded"} /\ ~Taken(x)
       /\ Distinct(vmq) /\ Distinct(idlevmq)
  BY <1>21 DEF WaitInv
<1> USE DEF WaitInv, Waiting
<1>1. ASSUME NEW t \in Threads, osready(t) PROVE WaitInv'
  <2> DEFINE u == hand[t]
  <2>3. u \in Threads /\ pc[u] \in Waiting /\ sem[u] = 0
    BY <1>1, <1>20, <1>21 DEF osready, SemInv
  <2>4. /\ hand' = [hand EXCEPT ![t] = Nil] /\ sem' = [sem EXCEPT ![u] = @ + 1]
        /\ UNCHANGED <<pc, vmq, idlevmq>>
    BY <1>1 DEF osready
  <2>1. /\ u \in Threads /\ sem'[u] = 1 /\ \A x \in Threads \ {u} : sem'[x] = sem[x]
        /\ hand' = [hand EXCEPT ![t] = Nil] /\ UNCHANGED <<pc, vmq, idlevmq>>
    BY <2>3, <2>4, <1>20
  <2>2. \A x \in Threads : Taken(x)' <=> Taken(x)
    <3>1. \A x \in Threads : x # t => hand[x] = Nil
      BY <1>1, <1>21 DEF osready, OwnInv, HasIt
    <3> QED
      BY <2>1, <3>1, <1>20, <1>22 DEF Taken
  <2> QED
    BY <2>1, <2>2, <1>21, <1>24
<1>2. ASSUME NEW t \in Threads, acquire(t) PROVE WaitInv'
  <2>1. pc[t] = "out" /\ UNCHANGED <<sem, hand, idlevmq>> /\ ~Taken(t)
    BY <1>2, <1>25 DEF acquire, At
  <2>2. \A x \in Threads : Taken(x)' <=> Taken(x)
    BY <2>1 DEF Taken
  <2>3. \A x \in Threads \ {t} : pc'[x] = pc[x]
    BY <1>2, <1>20 DEF acquire, Back, WithProcess, Go
  <2>4. CASE vmq' = vmq /\ pc'[t] \in {"ret", "gc", "in"}
    BY <2>1, <2>2, <2>3, <2>4, <1>21, <1>24
  <2>5. CASE vmq' = Append(vmq, t) /\ pc'[t] \in {"wake", "queued"}
    <3>1. t \notin Members(vmq)
      BY <2>1, <1>26
    <3>2. Members(vmq') = Members(vmq) \cup {t} /\ Distinct(vmq')
      BY <2>5, <3>1, <1>23, <1>26, JoinEnd
    <3> QED
      BY <2>1, <2>2, <2>3, <2>5, <3>2, <1>21, <1>24
  <2> QED
    BY <1>2, <2>4, <2>5, <1>20 DEF acquire, Back, WithProcess, Go
<1>3. ASSUME NEW t \in Threads, Wakeup(t) PROVE WaitInv'
  <2>1. /\ pc[t] = "wake" /\ UNCHANGED <<hand, vmq, idlevmq>>
        /\ pc' = [pc EXCEPT ![t] = "queued"]
        /\ sem' = IF irend = Nil THEN sem ELSE [sem EXCEPT ![irend] = @ + 1]
    BY <1>3 DEF Wakeup, At, Go
  <2>2. irend # Nil => irend \in Threads /\ pc[irend] = "asleep"
    BY <1>20, <1>21, <1>22 DEF SemInv
  <2>3. \A x \in Threads : pc[x] # "asleep" => (Taken(x)' <=> Taken(x))
    BY <2>1, <2>2, <1>20 DEF Taken
  <2>4. \A x \in Threads : pc'[x] = IF x = t THEN "queued" ELSE pc[x]
    BY <2>1, <1>20
  <2>5. /\ \A x \in Members(vmq) : pc'[x] \in {"wake", "queued"} /\ ~Taken(x)'
        /\ \A x \in Members(idlevmq) : pc'[x] \in {"spare", "yielded"} /\ ~Taken(x)'
    BY <2>1, <2>3, <2>4, <1>24, <1>26
  <2> QED
    BY <2>1, <2>3, <2>4, <2>5, <1>21
<1>4. ASSUME NEW t \in Threads, acquired(t) PROVE WaitInv'
  <2>1. /\ sem[t] # 0 /\ sem' = [sem EXCEPT ![t] = @ - 1] /\ UNCHANGED <<hand, vmq, idlevmq>>
        /\ pc[t] \in Waiting \cup {"asleep"} /\ pc'[t] \in Owning
        /\ \A x \in Threads \ {t} : pc'[x] = pc[x]
    BY <1>4, <1>20, <1>22 DEF acquired, Back, osblock, At, Go, Owning
  <2>2. \A x \in Threads \ {t} : Taken(x)' <=> Taken(x)
    BY <2>1, <1>20 DEF Taken
  <2>3. Taken(t)
    BY <1>4, <2>1, <1>21, <1>22 DEF Taken, SemInv
  <2>4. t \notin Members(vmq) /\ t \notin Members(idlevmq)
    BY <2>3, <1>26
  <2> QED
    BY <2>1, <2>2, <2>4, <1>21, <1>24 DEF Owning
<1>5. ASSUME NEW t \in VMs, release(t) PROVE WaitInv'
  <2>1. t \in Threads /\ Leaves(t)
    BY <1>5, ReleaseLeaves DEF Threads
  <2> QED
    BY <2>1, LeavesWait
<1>6. ASSUME NEW t \in VMs, startup(t) PROVE WaitInv'
  <2>1. pc[t] = "start" /\ UNCHANGED <<sem, hand, vmq>> /\ ~Taken(t)
    BY <1>6, <1>22, <1>25 DEF startup, At
  <2>2. \A x \in Threads : Taken(x)' <=> Taken(x)
    BY <2>1 DEF Taken
  <2>3. \A x \in Threads \ {t} : pc'[x] = pc[x]
    BY <1>6, <1>20 DEF startup, Go
  <2>4. CASE idlevmq' = idlevmq /\ pc'[t] = "loop"
    BY <2>1, <2>2, <2>3, <2>4, <1>21, <1>24
  <2>5. CASE idlevmq' = <<t>> \o idlevmq /\ pc'[t] = "spare"
    <3>1. t \notin Members(idlevmq)
      BY <2>1, <1>26
    <3>2. Members(idlevmq') = Members(idlevmq) \cup {t} /\ Distinct(idlevmq')
      BY <2>5, <3>1, <1>23, <1>26, JoinHead
    <3>3. /\ \A x \in Members(vmq) : pc'[x] \in {"wake", "queued"} /\ ~Taken(x)'
          /\ \A x \in Members(idlevmq') : pc'[x] \in {"spare", "yielded"} /\ ~Taken(x)'
      BY <2>1, <2>2, <2>3, <2>5, <3>2, <1>22, <1>24, <1>26
    <3> QED
      BY <2>1, <2>2, <2>3, <2>5, <3>2, <3>3, <1>21
  <2> QED
    BY <1>6, <2>4, <2>5, <1>20, <1>22 DEF startup, Go
<1>7. ASSUME NEW t \in VMs, resume(t) PROVE WaitInv'
  <2>1. /\ sem[t] # 0 /\ sem' = [sem EXCEPT ![t] = @ - 1] /\ UNCHANGED <<hand, vmq, idlevmq>>
        /\ pc[t] \in Waiting \cup {"asleep"} /\ pc'[t] \in Owning
        /\ \A x \in Threads \ {t} : pc'[x] = pc[x]
    BY <1>7, <1>20, <1>22 DEF resume, osblock, At, Go, Owning
  <2>2. \A x \in Threads \ {t} : Taken(x)' <=> Taken(x)
    BY <2>1, <1>20 DEF Taken
  <2>3. Taken(t)
    BY <1>7, <2>1, <1>21, <1>22 DEF Taken, SemInv
  <2>4. t \notin Members(vmq) /\ t \notin Members(idlevmq)
    BY <2>3, <1>26
  <2> QED
    BY <2>1, <2>2, <2>4, <1>21, <1>24 DEF Owning
<1>8. ASSUME NEW t \in VMs, goidle(t) PROVE WaitInv'
  <2>1. /\ UNCHANGED <<sem, hand, vmq, idlevmq>> /\ pc[t] \in Owning /\ pc'[t] \in Owning
        /\ \A x \in Threads \ {t} : pc'[x] = pc[x]
    BY <1>8, <1>20, <1>22 DEF goidle, At, Go, Owning
  <2>2. \A x \in Threads : Taken(x)' <=> Taken(x)
    BY <2>1 DEF Taken
  <2> QED
    BY <2>1, <2>2, <1>21, <1>24 DEF Owning
<1>9. ASSUME NEW t \in VMs, Sleep(t) PROVE WaitInv'
  <2>1. /\ UNCHANGED <<sem, hand, vmq, idlevmq>> /\ pc[t] \in Owning /\ pc'[t] \in Owning
        /\ \A x \in Threads \ {t} : pc'[x] = pc[x]
    BY <1>9, <1>20, <1>22 DEF Sleep, At, Go, Owning
  <2>2. \A x \in Threads : Taken(x)' <=> Taken(x)
    BY <2>1 DEF Taken
  <2> QED
    BY <2>1, <2>2, <1>21, <1>24 DEF Owning
<1>10. ASSUME NEW t \in VMs, awake(t) PROVE WaitInv'
  <2>1. /\ sem[t] # 0 /\ sem' = [sem EXCEPT ![t] = @ - 1] /\ UNCHANGED <<hand, vmq, idlevmq>>
        /\ pc[t] \in Waiting \cup {"asleep"} /\ pc'[t] \in Owning
        /\ \A x \in Threads \ {t} : pc'[x] = pc[x]
    BY <1>10, <1>20, <1>22 DEF awake, osblock, At, Go, Owning
  <2>2. \A x \in Threads \ {t} : Taken(x)' <=> Taken(x)
    BY <2>1, <1>20 DEF Taken
  <2>3. Taken(t)
    BY <1>10, <2>1, <1>21, <1>22 DEF Taken, SemInv
  <2>4. t \notin Members(vmq) /\ t \notin Members(idlevmq)
    BY <2>3, <1>26
  <2> QED
    BY <2>1, <2>2, <2>4, <1>21, <1>24 DEF Owning
<1>11. ASSUME NEW t \in VMs, iyield(t) PROVE WaitInv'
  <2> DEFINE h == Head(vmq)
  <2>1. /\ pc[t] = "loop" /\ vmq # <<>> /\ sem' = sem /\ t \in Threads
        /\ pc' = [pc EXCEPT ![t] = "yielded"] /\ hand' = [hand EXCEPT ![t] = h]
        /\ vmq' = Tail(vmq) /\ idlevmq' = <<t>> \o idlevmq
    BY <1>11, <1>22 DEF iyield, At, Go, MustYield
  <2>2. /\ h \in Threads /\ h \in Members(vmq) /\ Distinct(vmq')
        /\ Members(vmq') = Members(vmq) \ {h}
    BY <2>1, <1>23, <1>26, LeaveHead
  <2>3. Members(idlevmq') = Members(idlevmq) \cup {t} /\ Distinct(idlevmq')
    <3>1. t \notin Members(idlevmq)
      BY <2>1, <1>26
    <3> QED
      BY <2>1, <3>1, <1>23, <1>26, JoinHead
  <2> HIDE DEF h
  <2>4. \A x \in Threads : hand[x] = Nil
    BY <2>1, <1>21 DEF OwnInv, HasIt, Owning
  <2>5. \A x \in Threads : Taken(x)' <=> Taken(x) \/ x = h
    BY <2>1, <2>2, <2>4, <1>20, <1>22 DEF Taken
  <2>6. ~Taken(t) /\ h # t
    BY <2>1, <2>2, <1>25, <1>26
  <2>7. \A x \in Threads : pc'[x] = IF x = t THEN "yielded" ELSE pc[x]
    BY <2>1, <1>20
  <2>8. /\ \A x \in Members(vmq') : pc'[x] \in {"wake", "queued"} /\ ~Taken(x)'
        /\ \A x \in Members(idlevmq') : pc'[x] \in {"spare", "yielded"} /\ ~Taken(x)'
    BY <2>1, <2>2, <2>3, <2>5, <2>6, <2>7, <1>24, <1>26
  <2> QED
    BY <2>2, <2>3, <2>5, <2>7, <2>8, <1>21
<1>12. ASSUME NEW t \in VMs, xec(t) PROVE WaitInv'
  <2>1. /\ UNCHANGED <<sem, hand, vmq, idlevmq>> /\ pc[t] \in Owning /\ pc'[t] \in Owning
        /\ \A x \in Threads \ {t} : pc'[x] = pc[x]
    BY <1>12, <1>20, <1>22 DEF xec, At, Go, Owning
  <2>2. \A x \in Threads : Taken(x)' <=> Taken(x)
    BY <2>1 DEF Taken
  <2> QED
    BY <2>1, <2>2, <1>21, <1>24 DEF Owning
<1>13. ASSUME NEW t \in VMs, Quantum(t) PROVE WaitInv'
  <2>1. /\ UNCHANGED <<sem, hand, vmq, idlevmq>> /\ pc[t] \in Owning /\ pc'[t] \in Owning
        /\ \A x \in Threads \ {t} : pc'[x] = pc[x]
    BY <1>13, <1>20, <1>22 DEF Quantum, NextTurn, At, Go, Owning
  <2>2. \A x \in Threads : Taken(x)' <=> Taken(x)
    BY <2>1 DEF Taken
  <2> QED
    BY <2>1, <2>2, <1>21, <1>24 DEF Owning
<1>14. ASSUME NEW t \in VMs, sysret(t) PROVE WaitInv'
  <2>1. /\ UNCHANGED <<sem, hand, vmq, idlevmq>> /\ pc[t] \in Owning /\ pc'[t] \in Owning
        /\ \A x \in Threads \ {t} : pc'[x] = pc[x]
    BY <1>14, <1>20, <1>22 DEF sysret, NextTurn, At, Go, Owning
  <2>2. \A x \in Threads : Taken(x)' <=> Taken(x)
    BY <2>1 DEF Taken
  <2> QED
    BY <2>1, <2>2, <1>21, <1>24 DEF Owning
<1>15. ASSUME NEW t \in VMs, caught(t) PROVE WaitInv'
  <2>1. /\ UNCHANGED <<sem, hand, vmq, idlevmq>> /\ pc[t] \in Owning /\ pc'[t] \in Owning
        /\ \A x \in Threads \ {t} : pc'[x] = pc[x]
    BY <1>15, <1>20, <1>22 DEF caught, At, Go, Owning
  <2>2. \A x \in Threads : Taken(x)' <=> Taken(x)
    BY <2>1 DEF Taken
  <2> QED
    BY <2>1, <2>2, <1>21, <1>24 DEF Owning
<1>18. ASSUME NEW t \in VMs, exits(t) PROVE WaitInv'
  <2>1. /\ UNCHANGED <<sem, hand, vmq, idlevmq>> /\ pc[t] \in Owning /\ pc'[t] \in Owning
        /\ \A x \in Threads \ {t} : pc'[x] = pc[x]
    BY <1>18, <1>20, <1>22 DEF exits, At, Go, Owning
  <2>2. \A x \in Threads : Taken(x)' <=> Taken(x)
    BY <2>1 DEF Taken
  <2> QED
    BY <2>1, <2>2, <1>21, <1>24 DEF Owning
<1>19. ASSUME NEW t \in VMs, gcend(t) PROVE WaitInv'
  <2>1. /\ UNCHANGED <<sem, hand, vmq, idlevmq>> /\ pc[t] \in Owning /\ pc'[t] \in Owning
        /\ \A x \in Threads \ {t} : pc'[x] = pc[x]
    BY <1>19, <1>20, <1>22 DEF gcend, At, Go, Owning
  <2>2. \A x \in Threads : Taken(x)' <=> Taken(x)
    BY <2>1 DEF Taken
  <2> QED
    BY <2>1, <2>2, <1>21, <1>24 DEF Owning
<1>30. ASSUME NEW t \in VMs, gcrelease(t) PROVE WaitInv'
  <2>1. t \in Threads /\ Leaves(t)
    BY <1>30, ReleaseLeaves DEF Threads
  <2> QED
    BY <2>1, LeavesWait
<1>16. ASSUME NEW t \in Kprocs, kprocrelease(t) PROVE WaitInv'
  <2>1. t \in Threads /\ Leaves(t)
    BY <1>16, ReleaseLeaves DEF Threads
  <2> QED
    BY <2>1, LeavesWait
<1>17. CASE UNCHANGED vars
  BY <1>17, <1>21 DEF vars, Taken
<1> QED
  BY <1>1, <1>2, <1>3, <1>4, <1>5, <1>6, <1>7, <1>8, <1>9, <1>10, <1>11, <1>12,
     <1>13, <1>14, <1>15, <1>16, <1>17, <1>18, <1>19, <1>30, <1>22 DEF Next, VMStep, KprocStep

\* A process goes from the queue to one system call and back.
LEMMA NextProg ==
  ASSUME IInv, [Next]_vars
  PROVE  ProgInv'
<1>20. /\ pc \in [Threads -> Places] /\ iprog \in [Threads -> Callers \cup {Nil}]
       /\ runq \in Seq(Progs)
  BY DEF IInv, TypeOK
<1>21. ProgInv
  BY DEF IInv
<1>22. /\ Nil \notin Progs /\ VMs \cap Kprocs = {}
       /\ VMs \subseteq Threads /\ Kprocs \subseteq Threads /\ Threads \subseteq VMs \cup Kprocs
       /\ Callers \subseteq Progs
  BY IschedAssumption DEF Threads
<1>23. Distinct(runq) /\ Members(runq) \subseteq Progs
  BY <1>20, <1>21, MembersOf DEF ProgInv
<1>24. /\ \A x \in VMs : iprog[x] # Nil => Away(x)
       /\ \A x, y \in VMs : Collecting(x) /\ Collecting(y) => x = y
       /\ \A x \in Kprocs : iprog[x] = Nil /\ pc[x] \in {"out", "wake", "queued", "in"}
       /\ \A x \in VMs : pc[x] # "in"
  BY <1>21 DEF ProgInv
<1>25. \A x \in VMs : iprog[x] # Nil =>
         iprog[x] \notin Members(runq) /\ \A u \in VMs \ {x} : iprog[u] # iprog[x]
  BY <1>21 DEF ProgInv
<1>26. \A x, y \in Threads : HasIt(x) /\ HasIt(y) => x = y
  BY DEF IInv, OwnInv
<1>27. \A x \in VMs : pc[x] \in {"xec", "ret"} => runq # <<>>
  BY <1>21 DEF ProgInv
<1>28. \A x \in Threads : pc[x] \in {"xec", "ret"} => HasIt(x)
  BY DEF HasIt, Owning
<1> USE DEF ProgInv, Collecting, Away
<1>1. ASSUME NEW t \in Threads, osready(t) PROVE ProgInv'
  BY <1>1, <1>21 DEF osready
<1>2. ASSUME NEW t \in Threads, acquire(t) PROVE ProgInv'
  <2>1. pc[t] = "out"
    BY <1>2 DEF acquire, At
  <2>2. \A x \in Threads \ {t} : pc'[x] = pc[x]
    BY <1>2, <1>20 DEF acquire, Go
  <2>3. CASE UNCHANGED <<runq, iprog>> /\ pc'[t] \in {"wake", "queued"}
    BY <2>1, <2>2, <2>3, <1>21, <1>22
  <2>4. CASE pc'[t] = Back(t) /\ runq' = WithProcess(t) /\ iprog' = [iprog EXCEPT ![t] = Nil]
    <3>1. CASE t \in VMs /\ iprog[t] # Nil
      <4> DEFINE p == iprog[t]
      <4>1. p \in Progs /\ p \notin Members(runq) /\ runq' = <<p>> \o runq
        BY <2>4, <3>1, <1>20, <1>22, <1>25 DEF WithProcess
      <4>2. Distinct(runq') /\ Members(runq') = Members(runq) \cup {p} /\ runq' # <<>>
        BY <4>1, <1>20, <1>23, JoinHead
      <4>3. \A x \in Threads : iprog'[x] = IF x = t THEN Nil ELSE iprog[x]
        BY <2>4, <3>1, <1>20, <1>22
      <4>4. \A x \in VMs \ {t} : iprog[x] # Nil => iprog[x] \notin Members(runq')
        BY <3>1, <4>2, <1>25
      <4>5. \A x \in VMs : iprog'[x] # Nil =>
              iprog'[x] \notin Members(runq') /\ \A u \in VMs \ {x} : iprog'[u] # iprog'[x]
        BY <4>3, <4>4, <1>22, <1>25
      <4>6. pc'[t] = "ret" /\ t \notin Kprocs /\ \A x \in Kprocs : iprog'[x] = iprog[x]
        BY <2>4, <3>1, <4>3, <1>20, <1>22 DEF Back
      <4>7. \A x \in VMs : Away(x)' => Away(x) /\ x # t
        BY <2>2, <4>6, <1>22
      <4> QED
        BY <2>2, <3>1, <4>2, <4>3, <4>5, <4>6, <4>7, <1>22, <1>24
    <3>2. CASE t \in VMs /\ iprog[t] = Nil
      <4>1. runq' = runq /\ pc'[t] = "gc" /\ t \notin Kprocs
        BY <2>4, <3>2, <1>22 DEF Back, WithProcess
      <4>2. \A x \in Threads : iprog'[x] = iprog[x]
        BY <2>4, <3>2, <1>20
      <4>3. \A x \in VMs : pc'[x] \in {"xec", "ret"} => pc[x] \in {"xec", "ret"}
        BY <2>2, <4>1, <1>22
      <4>4. \A x \in VMs : (Away(x)' => Away(x)) /\ (Away(x) /\ x # t => Away(x)')
        BY <2>2, <4>1, <1>22
      <4> QED
        BY <2>2, <3>2, <4>1, <4>2, <4>3, <4>4, <1>22, <1>23, <1>24, <1>25, <1>27
    <3>3. CASE t \in Kprocs
      <4>1. t \notin VMs /\ runq' = runq /\ pc'[t] = "in"
        BY <2>4, <3>3, <1>22, <1>24 DEF Back, WithProcess
      <4>2. \A x \in Threads : iprog'[x] = iprog[x]
        BY <2>4, <3>3, <1>20, <1>24
      <4> QED
        BY <2>2, <4>1, <4>2, <1>21, <1>22
    <3> QED
      BY <3>1, <3>2, <3>3, <1>22
  <2> QED
    BY <1>2, <2>3, <2>4, <1>20 DEF acquire, Go
<1>3. ASSUME NEW t \in Threads, Wakeup(t) PROVE ProgInv'
  <2>1. UNCHANGED <<runq, iprog>> /\ pc[t] = "wake" /\ pc' = [pc EXCEPT ![t] = "queued"]
    BY <1>3 DEF Wakeup, At, Go
  <2> QED
    BY <2>1, <1>20, <1>21, <1>22
<1>4. ASSUME NEW t \in Threads, acquired(t) PROVE ProgInv'
  <2>1. pc[t] = "queued"
    BY <1>4 DEF acquired, At
  <2>2. \A x \in Threads \ {t} : pc'[x] = pc[x]
    BY <1>4, <1>20 DEF acquired, Go
  <2>4. pc'[t] = Back(t) /\ runq' = WithProcess(t) /\ iprog' = [iprog EXCEPT ![t] = Nil]
    BY <1>4, <1>20 DEF acquired, Go
  <2> QED
    <3>1. CASE t \in VMs /\ iprog[t] # Nil
      <4> DEFINE p == iprog[t]
      <4>1. p \in Progs /\ p \notin Members(runq) /\ runq' = <<p>> \o runq
        BY <2>4, <3>1, <1>20, <1>22, <1>25 DEF WithProcess
      <4>2. Distinct(runq') /\ Members(runq') = Members(runq) \cup {p} /\ runq' # <<>>
        BY <4>1, <1>20, <1>23, JoinHead
      <4>3. \A x \in Threads : iprog'[x] = IF x = t THEN Nil ELSE iprog[x]
        BY <2>4, <3>1, <1>20, <1>22
      <4>4. \A x \in VMs \ {t} : iprog[x] # Nil => iprog[x] \notin Members(runq')
        BY <3>1, <4>2, <1>25
      <4>5. \A x \in VMs : iprog'[x] # Nil =>
              iprog'[x] \notin Members(runq') /\ \A u \in VMs \ {x} : iprog'[u] # iprog'[x]
        BY <4>3, <4>4, <1>22, <1>25
      <4>6. pc'[t] = "ret" /\ t \notin Kprocs /\ \A x \in Kprocs : iprog'[x] = iprog[x]
        BY <2>4, <3>1, <4>3, <1>20, <1>22 DEF Back
      <4>7. \A x \in VMs : Away(x)' => Away(x) /\ x # t
        BY <2>2, <4>6, <1>22
      <4> QED
        BY <2>2, <3>1, <4>2, <4>3, <4>5, <4>6, <4>7, <1>22, <1>24
    <3>2. CASE t \in VMs /\ iprog[t] = Nil
      <4>1. runq' = runq /\ pc'[t] = "gc" /\ t \notin Kprocs
        BY <2>4, <3>2, <1>22 DEF Back, WithProcess
      <4>2. \A x \in Threads : iprog'[x] = iprog[x]
        BY <2>4, <3>2, <1>20
      <4>3. \A x \in VMs : pc'[x] \in {"xec", "ret"} => pc[x] \in {"xec", "ret"}
        BY <2>2, <4>1, <1>22
      <4>4. \A x \in VMs : (Away(x)' => Away(x)) /\ (Away(x) /\ x # t => Away(x)')
        BY <2>2, <4>1, <1>22
      <4> QED
        BY <2>2, <3>2, <4>1, <4>2, <4>3, <4>4, <1>22, <1>23, <1>24, <1>25, <1>27
    <3>3. CASE t \in Kprocs
      <4>1. t \notin VMs /\ runq' = runq /\ pc'[t] = "in"
        BY <2>4, <3>3, <1>22, <1>24 DEF Back, WithProcess
      <4>2. \A x \in Threads : iprog'[x] = iprog[x]
        BY <2>4, <3>3, <1>20, <1>24
      <4> QED
        BY <2>2, <4>1, <4>2, <1>21, <1>22
    <3> QED
      BY <3>1, <3>2, <3>3, <1>22
<1>5. ASSUME NEW t \in VMs, release(t) PROVE ProgInv'
  <2> DEFINE h == Head(runq)
  <2>1. Leaves(t) /\ t \in Threads /\ t \notin Kprocs
    BY <1>5, <1>22, ReleaseLeaves
  <2>2. pc[t] \in {"xec", "ret"} /\ iprog' = [iprog EXCEPT ![t] = h] /\ runq' = Tail(runq)
    BY <1>5 DEF release, At
  <2>3. /\ Distinct(runq') /\ h \in Progs /\ h \in Members(runq)
        /\ Members(runq') = Members(runq) \ {h}
    BY <2>2, <1>20, <1>23, <1>27, LeaveHead
  <2> HIDE DEF h
  <2>4. \A x \in Threads : iprog'[x] = IF x = t THEN h ELSE iprog[x]
    BY <2>2, <1>20
  <2>5. \A x \in VMs : iprog'[x] # Nil =>
          iprog'[x] \notin Members(runq') /\ \A u \in VMs \ {x} : iprog'[u] # iprog'[x]
    BY <2>3, <2>4, <1>22, <1>25
  <2>6. /\ pc'[t] = "out"
        /\ \A x \in Threads \ {t} : pc'[x] = pc[x] \/ (x \in VMs /\ pc[x] = "none" /\ pc'[x] = "start")
    BY <2>1 DEF Leaves
  <2>7. \A x \in VMs : pc'[x] \notin {"xec", "ret"}
    BY <2>1, <2>2, <2>6, <1>22, <1>26, <1>28
  <2> QED
    BY <1>5, <2>1, <2>3, <2>4, <2>5, <2>6, <2>7, <1>22, <1>24
<1>6. ASSUME NEW t \in VMs, startup(t) PROVE ProgInv'
  <2>1. /\ UNCHANGED <<runq, iprog>> /\ pc[t] = "start" /\ pc'[t] \in {"loop", "spare"}
        /\ \A x \in Threads \ {t} : pc'[x] = pc[x]
    BY <1>6, <1>20, <1>22 DEF startup, At, Go
  <2> QED
    BY <1>6, <2>1, <1>21, <1>22
<1>7. ASSUME NEW t \in VMs, resume(t) PROVE ProgInv'
  <2>1. /\ UNCHANGED <<runq, iprog>> /\ pc[t] \in {"spare", "yielded"} /\ pc'[t] \in {"loop", "xec"}
        /\ pc'[t] = "xec" => runq # <<>>
        /\ \A x \in Threads \ {t} : pc'[x] = pc[x]
    BY <1>7, <1>20, <1>22 DEF resume, osblock, At, Go
  <2> QED
    BY <1>7, <2>1, <1>21, <1>22
<1>8. ASSUME NEW t \in VMs, goidle(t) PROVE ProgInv'
  <2>1. /\ UNCHANGED <<runq, iprog>> /\ pc[t] \in Owning \ {"in"}
        /\ pc'[t] \in {"loop", "sleep", "asleep", "xec", "gc", "yielded"}
        /\ pc'[t] = "xec" => runq # <<>>
        /\ \A x \in Threads \ {t} : pc'[x] = pc[x]
    BY <1>8, <1>20, <1>22 DEF goidle, At, Go, Owning
  <2> QED
    BY <1>8, <2>1, <1>21, <1>22 DEF Owning
<1>9. ASSUME NEW t \in VMs, Sleep(t) PROVE ProgInv'
  <2>1. /\ UNCHANGED <<runq, iprog>> /\ pc[t] \in Owning \ {"in"}
        /\ pc'[t] \in {"loop", "sleep", "asleep", "xec", "gc", "yielded"}
        /\ pc'[t] = "xec" => runq # <<>>
        /\ \A x \in Threads \ {t} : pc'[x] = pc[x]
    BY <1>9, <1>20, <1>22 DEF Sleep, At, Go, Owning
  <2> QED
    BY <1>9, <2>1, <1>21, <1>22 DEF Owning
<1>10. ASSUME NEW t \in VMs, awake(t) PROVE ProgInv'
  <2>1. /\ UNCHANGED <<runq, iprog>> /\ pc[t] \in Owning \ {"in"}
        /\ pc'[t] \in {"loop", "sleep", "asleep", "xec", "gc", "yielded"}
        /\ pc'[t] = "xec" => runq # <<>>
        /\ \A x \in Threads \ {t} : pc'[x] = pc[x]
    BY <1>10, <1>20, <1>22 DEF awake, osblock, At, Go, Owning
  <2> QED
    BY <1>10, <2>1, <1>21, <1>22 DEF Owning
<1>11. ASSUME NEW t \in VMs, iyield(t) PROVE ProgInv'
  <2>1. /\ UNCHANGED <<runq, iprog>> /\ pc[t] \in Owning \ {"in"}
        /\ pc'[t] \in {"loop", "sleep", "asleep", "xec", "gc", "yielded"}
        /\ pc'[t] = "xec" => runq # <<>>
        /\ \A x \in Threads \ {t} : pc'[x] = pc[x]
    BY <1>11, <1>20, <1>22 DEF iyield, At, Go, Owning
  <2> QED
    BY <1>11, <2>1, <1>21, <1>22 DEF Owning
<1>12. ASSUME NEW t \in VMs, xec(t) PROVE ProgInv'
  <2>1. /\ UNCHANGED <<runq, iprog>> /\ pc[t] \in Owning \ {"in"}
        /\ pc'[t] \in {"loop", "sleep", "asleep", "xec", "gc", "yielded"}
        /\ pc'[t] = "xec" => runq # <<>>
        /\ \A x \in Threads \ {t} : pc'[x] = pc[x]
    BY <1>12, <1>20, <1>22 DEF xec, At, Go, Owning
  <2> QED
    BY <1>12, <2>1, <1>21, <1>22 DEF Owning
<1>13. ASSUME NEW t \in VMs, Quantum(t) PROVE ProgInv'
  <2>1. /\ pc[t] \in {"xec", "ret"} /\ pc'[t] \in {"loop", "gc"} /\ iprog' = iprog
        /\ \A x \in Threads \ {t} : pc'[x] = pc[x]
    BY <1>13, <1>20, <1>22 DEF Quantum, NextTurn, At, Go
  <2>2. runq # <<>> /\ HasIt(t)
    BY <2>1, <1>22, <1>27, <1>28
  <2> DEFINE h == Head(runq)
             r == Tail(runq)
  <2>3. /\ r \in Seq(Progs) /\ Distinct(r) /\ h \in Progs /\ h \in Members(runq)
        /\ Members(r) = Members(runq) \ {h}
    BY <2>2, <1>20, <1>23, LeaveHead
  <2>4. \A x \in VMs : pc'[x] \notin {"xec", "ret"} /\ (x # t => pc'[x] = pc[x])
    BY <2>1, <2>2, <1>20, <1>22, <1>26, <1>28
  <2>5. /\ \A x \in VMs : iprog'[x] # Nil => Away(x)'
        /\ \A x, y \in VMs : Collecting(x)' /\ Collecting(y)' => x = y
        /\ \A x \in Kprocs : iprog'[x] = Nil /\ pc'[x] \in {"out", "wake", "queued", "in"}
        /\ \A x \in VMs : pc'[x] # "in"
    BY <2>1, <1>20, <1>22, <1>24
  <2>6. ASSUME NEW q, runq' = q, Distinct(q),
               \A p \in Members(q) : p \in Members(runq) \/ p \in Addruns
        PROVE  ProgInv'
    <3>1. \A x \in VMs : iprog[x] # Nil => iprog[x] \notin Members(q)
      BY <2>6, <1>22, <1>25 DEF Addruns
    <3>2. \A x \in VMs : iprog'[x] # Nil =>
            iprog'[x] \notin Members(runq') /\ \A u \in VMs \ {x} : iprog'[u] # iprog'[x]
      BY <2>1, <2>6, <3>1, <1>25
    <3> QED
      BY <2>4, <2>5, <2>6, <3>2
  <2>7. PICK woken \in {<<>>} \cup {<<p>> : p \in Addruns} :
          runq' = r \o woken \/ runq' = r \o woken \o <<h>>
    BY <1>13 DEF Quantum
  <2> HIDE DEF h, r
  <2>8. /\ r \o woken \in Seq(Progs) /\ Distinct(r \o woken) /\ h \notin Members(r \o woken)
        /\ \A p \in Members(r \o woken) : p \in Members(runq) \/ p \in Addruns
    <3>1. CASE woken = <<>>
      <4>1. r \o woken = r
        BY <2>3, <3>1
      <4> QED
        BY <2>3, <4>1
    <3>2. ASSUME NEW p \in Addruns, woken = <<p>>
          PROVE  /\ r \o woken \in Seq(Progs) /\ Distinct(r \o woken) /\ h \notin Members(r \o woken)
                 /\ \A q \in Members(r \o woken) : q \in Members(runq) \/ q \in Addruns
      <4>1. p \in Progs /\ p \notin Members(runq)
        BY DEF Addruns, Members
      <4>2. r \o woken = Append(r, p)
        BY <2>3, <3>2, <4>1
      <4> QED
        BY <2>3, <4>1, <4>2, JoinEnd
    <3> QED
      BY <2>7, <3>1, <3>2
  <2> DEFINE w == r \o woken
  <2> HIDE DEF w
  <2>9. /\ w \o <<h>> = Append(w, h) /\ Distinct(Append(w, h))
        /\ Members(Append(w, h)) = Members(w) \cup {h}
    <3>1. w \in Seq(Progs) /\ Distinct(w) /\ h \notin Members(w)
      BY <2>8 DEF w
    <3> QED
      BY <2>3, <3>1, JoinEnd
  <2>10. CASE runq' = r \o woken
    BY <2>6, <2>8, <2>10
  <2>11. CASE runq' = w \o <<h>>
    BY <2>3, <2>6, <2>8, <2>9, <2>11 DEF w
  <2> QED
    BY <2>7, <2>10, <2>11 DEF w
<1>14. ASSUME NEW t \in VMs, sysret(t) PROVE ProgInv'
  <2>1. /\ pc[t] \in {"xec", "ret"} /\ pc'[t] \in {"loop", "gc"} /\ iprog' = iprog
        /\ \A x \in Threads \ {t} : pc'[x] = pc[x]
    BY <1>14, <1>20, <1>22 DEF sysret, NextTurn, At, Go
  <2>2. runq # <<>> /\ HasIt(t)
    BY <2>1, <1>22, <1>27, <1>28
  <2> DEFINE h == Head(runq)
             r == Tail(runq)
  <2>3. /\ r \in Seq(Progs) /\ Distinct(r) /\ h \in Progs /\ h \in Members(runq)
        /\ Members(r) = Members(runq) \ {h}
    BY <2>2, <1>20, <1>23, LeaveHead
  <2>4. \A x \in VMs : pc'[x] \notin {"xec", "ret"} /\ (x # t => pc'[x] = pc[x])
    BY <2>1, <2>2, <1>20, <1>22, <1>26, <1>28
  <2>5. /\ \A x \in VMs : iprog'[x] # Nil => Away(x)'
        /\ \A x, y \in VMs : Collecting(x)' /\ Collecting(y)' => x = y
        /\ \A x \in Kprocs : iprog'[x] = Nil /\ pc'[x] \in {"out", "wake", "queued", "in"}
        /\ \A x \in VMs : pc'[x] # "in"
    BY <2>1, <1>20, <1>22, <1>24
  <2>6. ASSUME NEW q, runq' = q, Distinct(q),
               \A p \in Members(q) : p \in Members(runq) \/ p \in Addruns
        PROVE  ProgInv'
    <3>1. \A x \in VMs : iprog[x] # Nil => iprog[x] \notin Members(q)
      BY <2>6, <1>22, <1>25 DEF Addruns
    <3>2. \A x \in VMs : iprog'[x] # Nil =>
            iprog'[x] \notin Members(runq') /\ \A u \in VMs \ {x} : iprog'[u] # iprog'[x]
      BY <2>1, <2>6, <3>1, <1>25
    <3> QED
      BY <2>4, <2>5, <2>6, <3>2
  <2>7. runq' = Append(r, h)
    BY <1>14 DEF sysret
  <2> HIDE DEF h, r
  <2>8. Distinct(Append(r, h)) /\ Members(Append(r, h)) = Members(r) \cup {h}
    BY <2>3, JoinEnd
  <2> QED
    BY <2>3, <2>6, <2>7, <2>8
<1>15. ASSUME NEW t \in VMs, caught(t) PROVE ProgInv'
  <2>1. /\ pc[t] \in {"xec", "ret"} /\ pc'[t] \in {"loop", "gc"} /\ iprog' = iprog
        /\ \A x \in Threads \ {t} : pc'[x] = pc[x]
    BY <1>15, <1>20, <1>22 DEF caught, At, Go
  <2>2. runq # <<>> /\ HasIt(t)
    BY <2>1, <1>22, <1>27, <1>28
  <2> DEFINE h == Head(runq)
             r == Tail(runq)
  <2>3. /\ r \in Seq(Progs) /\ Distinct(r) /\ h \in Progs /\ h \in Members(runq)
        /\ Members(r) = Members(runq) \ {h}
    BY <2>2, <1>20, <1>23, LeaveHead
  <2>4. \A x \in VMs : pc'[x] \notin {"xec", "ret"} /\ (x # t => pc'[x] = pc[x])
    BY <2>1, <2>2, <1>20, <1>22, <1>26, <1>28
  <2>5. /\ \A x \in VMs : iprog'[x] # Nil => Away(x)'
        /\ \A x, y \in VMs : Collecting(x)' /\ Collecting(y)' => x = y
        /\ \A x \in Kprocs : iprog'[x] = Nil /\ pc'[x] \in {"out", "wake", "queued", "in"}
        /\ \A x \in VMs : pc'[x] # "in"
    BY <2>1, <1>20, <1>22, <1>24
  <2>6. ASSUME NEW q, runq' = q, Distinct(q),
               \A p \in Members(q) : p \in Members(runq) \/ p \in Addruns
        PROVE  ProgInv'
    <3>1. \A x \in VMs : iprog[x] # Nil => iprog[x] \notin Members(q)
      BY <2>6, <1>22, <1>25 DEF Addruns
    <3>2. \A x \in VMs : iprog'[x] # Nil =>
            iprog'[x] \notin Members(runq') /\ \A u \in VMs \ {x} : iprog'[u] # iprog'[x]
      BY <2>1, <2>6, <3>1, <1>25
    <3> QED
      BY <2>4, <2>5, <2>6, <3>2
  <2>7. runq' = runq
    BY <1>15 DEF caught
  <2> HIDE DEF h, r
  <2> QED
    BY <2>3, <2>6, <2>7, <1>23
<1>18. ASSUME NEW t \in VMs, exits(t) PROVE ProgInv'
  <2>1. /\ pc[t] \in {"xec", "ret"} /\ pc'[t] \in {"loop", "gc"} /\ iprog' = iprog
        /\ \A x \in Threads \ {t} : pc'[x] = pc[x]
    BY <1>18, <1>20, <1>22 DEF exits, At, Go
  <2>2. runq # <<>> /\ HasIt(t)
    BY <2>1, <1>22, <1>27, <1>28
  <2> DEFINE h == Head(runq)
             r == Tail(runq)
  <2>3. /\ r \in Seq(Progs) /\ Distinct(r) /\ h \in Progs /\ h \in Members(runq)
        /\ Members(r) = Members(runq) \ {h}
    BY <2>2, <1>20, <1>23, LeaveHead
  <2>4. \A x \in VMs : pc'[x] \notin {"xec", "ret"} /\ (x # t => pc'[x] = pc[x])
    BY <2>1, <2>2, <1>20, <1>22, <1>26, <1>28
  <2>5. /\ \A x \in VMs : iprog'[x] # Nil => Away(x)'
        /\ \A x, y \in VMs : Collecting(x)' /\ Collecting(y)' => x = y
        /\ \A x \in Kprocs : iprog'[x] = Nil /\ pc'[x] \in {"out", "wake", "queued", "in"}
        /\ \A x \in VMs : pc'[x] # "in"
    BY <2>1, <1>20, <1>22, <1>24
  <2>6. ASSUME NEW q, runq' = q, Distinct(q),
               \A p \in Members(q) : p \in Members(runq) \/ p \in Addruns
        PROVE  ProgInv'
    <3>1. \A x \in VMs : iprog[x] # Nil => iprog[x] \notin Members(q)
      BY <2>6, <1>22, <1>25 DEF Addruns
    <3>2. \A x \in VMs : iprog'[x] # Nil =>
            iprog'[x] \notin Members(runq') /\ \A u \in VMs \ {x} : iprog'[u] # iprog'[x]
      BY <2>1, <2>6, <3>1, <1>25
    <3> QED
      BY <2>4, <2>5, <2>6, <3>2
  <2>7. runq' = r
    BY <1>18 DEF exits
  <2> HIDE DEF h, r
  <2> QED
    BY <2>3, <2>6, <2>7, <1>23
<1>19. ASSUME NEW t \in VMs, gcend(t) PROVE ProgInv'
  <2>1. /\ UNCHANGED <<runq, iprog>> /\ pc[t] \in Owning \ {"in"} /\ pc'[t] = "loop"
        /\ \A x \in Threads \ {t} : pc'[x] = pc[x]
    BY <1>19, <1>20, <1>22 DEF gcend, At, Go, Owning
  <2> QED
    BY <1>19, <2>1, <1>21, <1>22 DEF Owning
<1>30. ASSUME NEW t \in VMs, gcrelease(t) PROVE ProgInv'
  <2>1. Leaves(t) /\ t \in Threads /\ t \notin Kprocs
    BY <1>30, <1>22, ReleaseLeaves
  <2>2. pc[t] = "gc" /\ iprog' = iprog /\ runq' = runq /\ gcruns
    BY <1>30 DEF gcrelease, At
  <2>3. HasIt(t)
    BY <2>2 DEF HasIt, Owning
  <2>4. /\ pc'[t] = "out"
        /\ \A x \in Threads \ {t} : pc'[x] = pc[x] \/ (x \in VMs /\ pc[x] = "none" /\ pc'[x] = "start")
    BY <2>1 DEF Leaves
  <2>5. \A x \in VMs : pc'[x] \notin {"xec", "ret"}
    BY <2>1, <2>3, <2>4, <1>22, <1>26, <1>28
  <2>6. \A x \in VMs : (Away(x)' => x = t \/ Away(x)) /\ (Away(x) => Away(x)')
    BY <2>1, <2>2, <2>4, <1>22
  <2>7. \A x \in VMs : Collecting(x)' => x = t
    BY <2>2, <2>6 DEF gcruns
  <2> QED
    BY <2>1, <2>2, <2>4, <2>5, <2>6, <2>7, <1>22, <1>23, <1>24, <1>25
<1>16. ASSUME NEW t \in Kprocs, kprocrelease(t) PROVE ProgInv'
  <2>1. Leaves(t) /\ t \in Threads /\ t \notin VMs
    BY <1>16, <1>22, ReleaseLeaves
  <2>2. pc[t] = "in" /\ iprog' = iprog
    BY <1>16 DEF kprocrelease, At
  <2>3. HasIt(t)
    BY <2>2 DEF HasIt, Owning
  <2>4. /\ pc'[t] = "out"
        /\ \A x \in Threads \ {t} : pc'[x] = pc[x] \/ (x \in VMs /\ pc[x] = "none" /\ pc'[x] = "start")
    BY <2>1 DEF Leaves
  <2>5. \A x \in VMs : pc'[x] \notin {"xec", "ret"}
    BY <2>1, <2>3, <2>4, <1>22, <1>26, <1>28
  <2>6. CASE runq' = runq
    BY <1>16, <2>1, <2>2, <2>4, <2>5, <2>6, <1>21, <1>22
  <2>7. ASSUME NEW p \in Addruns, runq' = Append(runq, p) PROVE ProgInv'
    <3>1. p \in Progs /\ p \notin Members(runq) /\ \A x \in VMs : iprog[x] # p
      BY <1>22 DEF Addruns, Members
    <3>2. Distinct(runq') /\ Members(runq') = Members(runq) \cup {p}
      BY <2>7, <3>1, <1>20, <1>23, JoinEnd
    <3> QED
      BY <1>16, <2>1, <2>2, <2>4, <2>5, <3>1, <3>2, <1>22, <1>24, <1>25
  <2> QED
    BY <1>16, <2>6, <2>7 DEF kprocrelease
<1>17. CASE UNCHANGED vars
  BY <1>17, <1>21 DEF vars
<1> QED
  BY <1>1, <1>2, <1>3, <1>4, <1>5, <1>6, <1>7, <1>8, <1>9, <1>10, <1>11, <1>12,
     <1>13, <1>14, <1>15, <1>16, <1>17, <1>18, <1>19, <1>30, <1>22 DEF Next, VMStep, KprocStep

\* Every variable keeps its type.
LEMMA NextType ==
  ASSUME IInv, [Next]_vars
  PROVE  TypeOK'
<1>20. TypeOK
  BY DEF IInv
<1>21. /\ Nil \notin Progs /\ Nil \notin Threads /\ VMs \cap Kprocs = {}
       /\ VMs \subseteq Threads /\ Kprocs \subseteq Threads /\ Threads \subseteq VMs \cup Kprocs
       /\ Callers \subseteq Progs
  BY IschedAssumption DEF Threads
<1>22. /\ \A x \in VMs : iprog[x] # Nil => iprog[x] \in Progs
       /\ \A x \in VMs : pc[x] \in {"xec", "ret"} => runq # <<>>
       /\ Distinct(runq)
  BY <1>20, <1>21 DEF IInv, ProgInv, TypeOK
<1>23. /\ vmq # <<>> => Head(vmq) \in Threads /\ Tail(vmq) \in Seq(Threads)
       /\ idlevmq # <<>> => Head(idlevmq) \in VMs /\ Tail(idlevmq) \in Seq(VMs)
  BY LeaveHead DEF IInv, TypeOK, WaitInv
<1>24. runq # <<>> => Head(runq) \in Progs /\ Tail(runq) \in Seq(Progs)
  BY <1>20, <1>22, LeaveHead DEF TypeOK
<1> USE DEF TypeOK, Places, Owning
<1>1. ASSUME NEW t \in Threads, osready(t) PROVE TypeOK'
  BY <1>1, <1>20, <1>21, <1>22, <1>23, <1>24 DEF osready
<1>2. ASSUME NEW t \in Threads, acquire(t) PROVE TypeOK'
  <2>1. /\ idle' \in BOOLEAN /\ pc' \in [Threads -> Places] /\ iprog' \in [Threads -> Callers \cup {Nil}]
        /\ UNCHANGED <<creating, idlevmq, irend, sem, hand, cycles>>
    BY <1>2, <1>20 DEF acquire, Back, WithProcess, Go
  <2>2. vmq' \in Seq(Threads)
    <3>1. Append(vmq, t) \in Seq(Threads)
      BY <1>20
    <3> QED
      BY <1>2, <3>1, <1>20 DEF acquire
  <2>3. runq' \in Seq(Progs)
    <3>1. CASE iprog[t] # Nil /\ runq' = <<iprog[t]>> \o runq
      BY <3>1, <1>20, <1>21, JoinHead
    <3> QED
      BY <1>2, <3>1, <1>20 DEF acquire, WithProcess
  <2> QED
    BY <2>1, <2>2, <2>3, <1>20
<1>3. ASSUME NEW t \in Threads, Wakeup(t) PROVE TypeOK'
  BY <1>3, <1>20, <1>21, <1>22, <1>23, <1>24 DEF Wakeup, At, Go
<1>4. ASSUME NEW t \in Threads, acquired(t) PROVE TypeOK'
  <2>1. /\ pc' \in [Threads -> Places] /\ iprog' \in [Threads -> Callers \cup {Nil}]
        /\ sem' \in [Threads -> Nat]
        /\ UNCHANGED <<idle, creating, vmq, idlevmq, irend, hand, cycles>>
    BY <1>4, <1>20 DEF acquired, Back, osblock, Go
  <2>3. runq' \in Seq(Progs)
    <3>1. CASE iprog[t] # Nil /\ runq' = <<iprog[t]>> \o runq
      BY <3>1, <1>20, <1>21, JoinHead
    <3> QED
      BY <1>4, <3>1, <1>20 DEF acquired, WithProcess
  <2> QED
    BY <2>1, <2>3, <1>20
<1>5. ASSUME NEW t \in VMs, release(t) PROVE TypeOK'
  <2>1. /\ vmq' \in Seq(Threads) /\ idlevmq' \in Seq(VMs)
        /\ idle' \in BOOLEAN /\ creating' \in BOOLEAN
        /\ hand' \in [Threads -> Threads \cup {Nil}]
    <3>1. Pass(t)
      BY <1>5 DEF release, At
    <3> QED
      BY <3>1, <1>20, <1>21, <1>23 DEF Pass
  <2>2. pc' \in [Threads -> Places]
    <3>1. Create(t, "out")
      BY <1>5 DEF release, At
    <3> QED
      BY <3>1, <1>20 DEF Create, Go
  <2>3. runq' \in Seq(Progs) /\ iprog' \in [Threads -> Callers \cup {Nil}]
    <3>1. runq # <<>> /\ Head(runq) \in Callers /\ runq' = Tail(runq)
          /\ iprog' = [iprog EXCEPT ![t] = Head(runq)]
      BY <1>5, <1>22 DEF release, At
    <3> QED
      BY <3>1, <1>20, <1>24
  <2> QED
    BY <1>5, <2>1, <2>2, <2>3, <1>20 DEF release
<1>6. ASSUME NEW t \in VMs, startup(t) PROVE TypeOK'
  <2>1. /\ idle' \in BOOLEAN /\ creating' \in BOOLEAN /\ pc' \in [Threads -> Places]
        /\ UNCHANGED <<vmq, runq, irend, sem, hand, iprog, cycles>>
    BY <1>6, <1>20 DEF startup, Go
  <2>2. idlevmq' \in Seq(VMs)
    <3>1. <<t>> \o idlevmq \in Seq(VMs)
      BY <1>20, JoinHead
    <3> QED
      BY <1>6, <3>1, <1>20 DEF startup
  <2> QED
    BY <2>1, <2>2, <1>20
<1>7. ASSUME NEW t \in VMs, resume(t) PROVE TypeOK'
  BY <1>7, <1>20, <1>21, <1>22, <1>23, <1>24 DEF resume, osblock, At, Go
<1>8. ASSUME NEW t \in VMs, goidle(t) PROVE TypeOK'
  BY <1>8, <1>20, <1>21, <1>22, <1>23, <1>24 DEF goidle, At, Go
<1>9. ASSUME NEW t \in VMs, Sleep(t) PROVE TypeOK'
  BY <1>9, <1>20, <1>21, <1>22, <1>23, <1>24 DEF Sleep, At, Go
<1>10. ASSUME NEW t \in VMs, awake(t) PROVE TypeOK'
  BY <1>10, <1>20, <1>21, <1>22, <1>23, <1>24 DEF awake, osblock, At, Go
<1>11. ASSUME NEW t \in VMs, iyield(t) PROVE TypeOK'
  <2>1. /\ pc' \in [Threads -> Places] /\ vmq' \in Seq(Threads)
        /\ UNCHANGED <<idle, creating, runq, irend, sem, iprog>>
    BY <1>11, <1>20, <1>23 DEF iyield, Go, MustYield
  <2>4. cycles' \in [VMs -> 0..2]
    <3>1. cycles' = [cycles EXCEPT ![t] = 0] /\ 0 \in 0..2
      BY <1>11 DEF iyield
    <3> QED
      BY <3>1, <1>20
  <2>2. hand' \in [Threads -> Threads \cup {Nil}]
    BY <1>11, <1>20, <1>23 DEF iyield, MustYield
  <2>3. idlevmq' \in Seq(VMs)
    <3>1. <<t>> \o idlevmq \in Seq(VMs)
      BY <1>20, JoinHead
    <3> QED
      BY <1>11, <3>1, <1>20 DEF iyield
  <2> QED
    BY <2>1, <2>2, <2>3, <2>4, <1>20
<1>12. ASSUME NEW t \in VMs, xec(t) PROVE TypeOK'
  <2>1. /\ pc' \in [Threads -> Places]
        /\ UNCHANGED <<idle, creating, vmq, idlevmq, runq, irend, sem, hand, iprog>>
    BY <1>12, <1>20 DEF xec, Go
  <2>2. cycles' \in [VMs -> 0..2]
    <3>1. vmq # <<>> => cycles[t] \in 0..2 /\ cycles[t] < 2
      BY <1>12, <1>20 DEF xec, MustYield
    <3> QED
      BY <1>12, <3>1, <1>20 DEF xec
  <2> QED
    BY <2>1, <2>2, <1>20
<1>13. ASSUME NEW t \in VMs, Quantum(t) PROVE TypeOK'
  <2>1. /\ pc' \in [Threads -> Places] /\ pc[t] = "xec"
        /\ UNCHANGED <<idle, creating, vmq, idlevmq, irend, sem, hand, iprog, cycles>>
    BY <1>13, <1>20 DEF Quantum, NextTurn, At, Go
  <2>2. runq' \in Seq(Progs)
    <3> DEFINE h == Head(runq)
               r == Tail(runq)
    <3>1. PICK woken \in {<<>>} \cup {<<p>> : p \in Addruns} :
            runq' = r \o woken \/ runq' = r \o woken \o <<h>>
      BY <1>13 DEF Quantum
    <3>2. r \in Seq(Progs) /\ h \in Progs
      BY <2>1, <1>22, <1>24
    <3> HIDE DEF h, r
    <3>3. CASE woken = <<>>
      BY <3>1, <3>2, <3>3
    <3>4. ASSUME NEW p \in Addruns, woken = <<p>> PROVE runq' \in Seq(Progs)
      <4>1. p \in Progs
        BY DEF Addruns
      <4>2. <<p>> \in Seq(Progs) /\ <<h>> \in Seq(Progs)
        BY <3>2, <4>1
      <4> QED
        BY <3>1, <3>2, <3>4, <4>2, SMTT(40)
    <3> QED
      BY <3>3, <3>4
  <2> QED
    BY <2>1, <2>2, <1>20
<1>14. ASSUME NEW t \in VMs, sysret(t) PROVE TypeOK'
  <2>1. /\ pc' \in [Threads -> Places] /\ pc[t] = "ret" /\ runq' = Append(Tail(runq), Head(runq))
        /\ UNCHANGED <<idle, creating, vmq, idlevmq, irend, sem, hand, iprog, cycles>>
    BY <1>14, <1>20 DEF sysret, NextTurn, At, Go
  <2>2. runq' \in Seq(Progs)
    BY <2>1, <1>22, <1>24
  <2> QED
    BY <2>1, <2>2, <1>20
<1>15. ASSUME NEW t \in VMs, caught(t) PROVE TypeOK'
  <2>1. /\ pc' \in [Threads -> Places]
        /\ UNCHANGED <<idle, creating, vmq, idlevmq, runq, irend, sem, hand, iprog>>
    BY <1>15, <1>20 DEF caught, At, Go
  <2>2. cycles' \in [VMs -> 0..2]
    <3>1. cycles' = [cycles EXCEPT ![t] = 0] /\ 0 \in 0..2
      BY <1>15 DEF caught
    <3> QED
      BY <3>1, <1>20
  <2> QED
    BY <2>1, <2>2, <1>20
<1>18. ASSUME NEW t \in VMs, exits(t) PROVE TypeOK'
  <2>1. /\ pc' \in [Threads -> Places] /\ pc[t] \in {"xec", "ret"}
        /\ UNCHANGED <<idle, creating, vmq, idlevmq, irend, sem, hand, iprog>>
    BY <1>18, <1>20 DEF exits, At, Go
  <2>3. cycles' \in [VMs -> 0..2]
    <3>1. cycles' = [cycles EXCEPT ![t] = 0] /\ 0 \in 0..2
      BY <1>18 DEF exits
    <3> QED
      BY <3>1, <1>20
  <2>2. runq' \in Seq(Progs)
    BY <1>18, <2>1, <1>20, <1>22, <1>24 DEF exits
  <2> QED
    BY <2>1, <2>2, <2>3, <1>20
<1>19. ASSUME NEW t \in VMs, gcend(t) PROVE TypeOK'
  BY <1>19, <1>20, <1>21, <1>22, <1>23, <1>24 DEF gcend, At, Go
<1>30. ASSUME NEW t \in VMs, gcrelease(t) PROVE TypeOK'
  <2>1. /\ vmq' \in Seq(Threads) /\ idlevmq' \in Seq(VMs)
        /\ idle' \in BOOLEAN /\ creating' \in BOOLEAN
        /\ hand' \in [Threads -> Threads \cup {Nil}]
    <3>1. Pass(t)
      BY <1>30 DEF gcrelease, At
    <3> QED
      BY <3>1, <1>20, <1>21, <1>23 DEF Pass
  <2>2. pc' \in [Threads -> Places]
    <3>1. Create(t, "out")
      BY <1>30 DEF gcrelease, At
    <3> QED
      BY <3>1, <1>20 DEF Create, Go
  <2> QED
    BY <1>30, <2>1, <2>2, <1>20 DEF gcrelease
<1>16. ASSUME NEW t \in Kprocs, kprocrelease(t) PROVE TypeOK'
  <2>1. /\ vmq' \in Seq(Threads) /\ idlevmq' \in Seq(VMs)
        /\ idle' \in BOOLEAN /\ creating' \in BOOLEAN
        /\ hand' \in [Threads -> Threads \cup {Nil}]
    <3>1. Pass(t)
      BY <1>16 DEF kprocrelease, At
    <3> QED
      BY <3>1, <1>20, <1>21, <1>23 DEF Pass
  <2>2. pc' \in [Threads -> Places]
    <3>1. Create(t, "out")
      BY <1>16 DEF kprocrelease, At
    <3> QED
      BY <3>1, <1>20 DEF Create, Go
  <2>3. runq' \in Seq(Progs)
    <3>1. \A p \in Addruns : Append(runq, p) \in Seq(Progs)
      BY <1>20 DEF Addruns
    <3> QED
      BY <1>16, <3>1, <1>20 DEF kprocrelease
  <2> QED
    BY <1>16, <2>1, <2>2, <2>3, <1>20 DEF kprocrelease
<1>17. CASE UNCHANGED vars
  BY <1>17, <1>20 DEF vars
<1> QED
  BY <1>1, <1>2, <1>3, <1>4, <1>5, <1>6, <1>7, <1>8, <1>9, <1>10, <1>11, <1>12,
     <1>13, <1>14, <1>15, <1>16, <1>17, <1>18, <1>19, <1>30, <1>21 DEF Next, VMStep, KprocStep

\* When the interpreter is left idle, every other VM thread is in a system
\* call, with a process of its own, or is the collector.
LEMMA AllButOneHaveOne ==
  ASSUME IInv, [Next]_vars, NEW t \in Threads, Leaves(t), vmq = <<>>, idlevmq = <<>>, ~creating,
         NEW m \in VMs, pc[m] = "none", \A x \in Threads \ {t, m} : pc'[x] = pc[x]
  PROVE  Cardinality(Created) <= Cardinality(Callers) + 1
<1>1. /\ pc \in [Threads -> Places] /\ hand[t] = Nil /\ VMs \subseteq Threads
      /\ \A x \in VMs : pc[x] = "start" => creating
  BY DEF IInv, TypeOK, Leaves, CreateInv, Threads
<1>2. \A x \in Threads \ {t} : ~HasIt(x)
  <2>1. HasIt(t)
    BY DEF Leaves, HasIt, Owning
  <2> QED
    BY <2>1 DEF IInv, OwnInv
<1>3. \A x \in Threads \ {t} : pc[x] \notin Waiting
  <2>1. \A x \in Threads \ {t} : pc[x] \in Waiting => sem[x] # 1
    BY <1>2 DEF HasIt, Posted
  <2>2. \A x, u \in Threads : hand[u] # x
    <3>1. \A u \in Threads : hand[u] = Nil
      BY <1>1, <1>2 DEF HasIt
    <3> QED
      BY <3>1, IschedAssumption
  <2>3. Members(vmq) = {} /\ Members(idlevmq) = {}
    BY DEF Members
  <2> QED
    BY <2>1, <2>2, <2>3 DEF IInv, WaitInv, Taken, Waiting
<1>4. \A x \in Created : pc'[x] = "out"
  <2>1. pc'[t] = "out"
    BY DEF Leaves
  <2>2. \A x \in Created \ {t} : pc[x] = "out"
    <3>1. \A x \in Created \ {t} : pc[x] \notin Owning /\ pc[x] \notin Waiting /\ pc[x] # "start"
      BY <1>1, <1>2, <1>3 DEF HasIt, Created
    <3> QED
      BY <1>1, <3>1 DEF Created, Places, Waiting
  <2> QED
    BY <1>1, <2>1, <2>2 DEF Created
<1>5. ProgInv' /\ iprog' \in [Threads -> Callers \cup {Nil}]
  BY NextProg, NextType DEF TypeOK
<1> DEFINE Carriers == {x \in Created : iprog'[x] # Nil}
           f == [x \in Carriers |-> iprog'[x]]
<1>6. f \in Injection(Carriers, Callers)
  <2>1. \A x \in Carriers : x \in VMs /\ iprog'[x] # Nil /\ iprog'[x] \in Callers
    BY <1>1, <1>5 DEF Created
  <2>2. \A x, y \in Carriers : iprog'[x] = iprog'[y] => x = y
    BY <1>5, <2>1 DEF ProgInv
  <2> QED
    BY <2>1, <2>2 DEF Injection, IsInjective
<1>7. IsFiniteSet(Callers) /\ IsFiniteSet(Created)
  <2>1. IsFiniteSet(VMs) /\ Created \subseteq VMs
    BY IschedAssumption, FS_Interval DEF VMs, Created
  <2>2. IsFiniteSet(Created)
    BY <2>1, FS_Subset
  <2>3. IsFiniteSet(Callers)
    BY IschedAssumption, FS_Subset
  <2> QED
    BY <2>2, <2>3
<1>8. Cardinality(Carriers) <= Cardinality(Callers)
  <2>1. Carriers \subseteq Created
    OBVIOUS
  <2> HIDE DEF f, Carriers
  <2> QED
    BY <1>6, <1>7, FS_Injection
<1>9. \A x, y \in Created \ Carriers : x = y
  BY <1>4, <1>5 DEF ProgInv, Collecting, Away, Created
<1> HIDE DEF f, Carriers
<1>10. Carriers \subseteq Created
  BY DEF Carriers
<1>11. CASE Created \subseteq Carriers
  <2>1. Created = Carriers
    BY <1>10, <1>11
  <2>2. Cardinality(Callers) \in Nat /\ Cardinality(Carriers) \in Nat
    BY <1>7, <2>1, FS_CardinalityType
  <2> QED
    BY <1>8, <2>1, <2>2
<1>12. ASSUME NEW c \in Created, c \notin Carriers
       PROVE  Cardinality(Created) <= Cardinality(Callers) + 1
  <2>1. Carriers = Created \ {c}
    BY <1>9, <1>10, <1>12
  <2>2. Cardinality(Carriers) = Cardinality(Created) - 1
    BY <1>7, <1>12, <2>1, FS_RemoveElement
  <2>3. Cardinality(Callers) \in Nat /\ Cardinality(Created) \in Nat
    BY <1>7, FS_CardinalityType
  <2> QED
    BY <1>8, <2>2, <2>3
<1> QED
  BY <1>11, <1>12

\* A thread is created when all the others but the collector have a process.
LEMMA LeavesCreate ==
  ASSUME IInv, [Next]_vars, NEW t \in Threads, Leaves(t)
  PROVE  CreateInv'
<1>20. pc \in [Threads -> Places] /\ VMs \subseteq Threads /\ Kprocs \subseteq Threads
  BY DEF IInv, TypeOK, Threads
<1>21. /\ \A x, y \in VMs : pc[x] = "start" /\ pc[y] = "start" => x = y
       /\ \A x \in VMs : pc[x] = "start" => creating
  BY DEF IInv, CreateInv
<1>22. ThreadsBounded
  BY DEF IInv, CreateInv
<1> USE DEF CreateInv, ThreadsBounded
<1>1. CreateInv'
  <2>1. Leaves(t) /\ t \in Threads
    BY <1>20
  <2>2. CASE \A x \in Threads \ {t} : pc'[x] = pc[x]
    <3>1. /\ \A x \in VMs : pc'[x] = "start" => pc[x] = "start"
          /\ {x \in VMs : pc'[x] # "none"} = {x \in VMs : pc[x] # "none"}
      BY <2>1, <2>2, <1>20 DEF Leaves
    <3>2. creating => creating'
      BY <2>1 DEF Leaves, Handover
    <3> QED
      BY <3>1, <3>2, <1>21, <1>22
  <2>3. CASE /\ vmq = <<>> /\ idlevmq = <<>> /\ ~creating /\ creating'
             /\ \E m \in VMs : /\ pc[m] = "none" /\ pc'[m] = "start" /\ m # t
                               /\ \A x \in Threads \ {t, m} : pc'[x] = pc[x]
    <3>1. PICK m \in VMs : /\ pc[m] = "none" /\ pc'[m] = "start" /\ m # t
                           /\ \A x \in Threads \ {t, m} : pc'[x] = pc[x]
      BY <2>3
    <3>2. pc'[t] = "out" /\ pc[t] # "none"
      BY <2>1 DEF Leaves
    <3>3. /\ \A x \in VMs : pc'[x] = "start" => x = m
          /\ {x \in VMs : pc'[x] # "none"} = {x \in VMs : pc[x] # "none"} \cup {m}
      BY <2>3, <3>1, <3>2, <1>20, <1>21
    <3>4. Cardinality({x \in VMs : pc[x] # "none"}) <= Cardinality(Callers) + 1
      BY <2>1, <2>3, <3>1, AllButOneHaveOne DEF Created
    <3>5. IsFiniteSet({x \in VMs : pc[x] # "none"})
      BY IschedAssumption, FS_Interval, FS_Subset DEF VMs
    <3>6. Cardinality({x \in VMs : pc[x] # "none"} \cup {m})
            = Cardinality({x \in VMs : pc[x] # "none"}) + 1
      BY <3>1, <3>5, FS_AddElement
    <3>7. /\ Cardinality({x \in VMs : pc[x] # "none"}) \in Nat
          /\ Cardinality(Callers) \in Nat
      BY <3>5, IschedAssumption, FS_Subset, FS_CardinalityType
    <3>8. ThreadsBounded'
      <4> DEFINE k == Cardinality({x \in VMs : pc[x] # "none"})
                 p == Cardinality(Callers)
      <4>1. k \in Nat /\ p \in Nat /\ k <= p + 1
        BY <3>4, <3>7
      <4>2. Cardinality({x \in VMs : pc'[x] # "none"}) = k + 1
        BY <3>3, <3>6
      <4> HIDE DEF k, p
      <4>3. Cardinality({x \in VMs : pc'[x] # "none"}) <= p + 2
        BY <4>1, <4>2
      <4> QED
        BY <4>3 DEF p
    <3> QED
      BY <2>3, <3>3, <3>8
  <2> QED
    BY <2>1, <2>2, <2>3 DEF Leaves
<1> QED
  BY <1>1

\* A thread is created only when all the others are away.
LEMMA NextCreate ==
  ASSUME IInv, [Next]_vars
  PROVE  CreateInv'
<1>20. pc \in [Threads -> Places] /\ VMs \subseteq Threads /\ Kprocs \subseteq Threads
  BY DEF IInv, TypeOK, Threads
<1>21. /\ \A x, y \in VMs : pc[x] = "start" /\ pc[y] = "start" => x = y
       /\ \A x \in VMs : pc[x] = "start" => creating
  BY DEF IInv, CreateInv
<1>22. ThreadsBounded
  BY DEF IInv, CreateInv
<1> USE DEF CreateInv, ThreadsBounded
<1>1. ASSUME NEW t \in Threads, osready(t) PROVE CreateInv'
  <2>1. creating' = creating /\ \A x \in VMs : /\ pc'[x] = "start" => pc[x] = "start"
                                               /\ pc'[x] = "none" <=> pc[x] = "none"
    BY <1>1, <1>20 DEF osready
  <2>2. {x \in VMs : pc'[x] # "none"} = {x \in VMs : pc[x] # "none"}
    BY <2>1
  <2> QED
    BY <2>1, <2>2, <1>21, <1>22
<1>2. ASSUME NEW t \in Threads, acquire(t) PROVE CreateInv'
  <2>1. creating' = creating /\ \A x \in VMs : /\ pc'[x] = "start" => pc[x] = "start"
                                               /\ pc'[x] = "none" <=> pc[x] = "none"
    BY <1>2, <1>20 DEF acquire, Back, At, Go
  <2>2. {x \in VMs : pc'[x] # "none"} = {x \in VMs : pc[x] # "none"}
    BY <2>1
  <2> QED
    BY <2>1, <2>2, <1>21, <1>22
<1>3. ASSUME NEW t \in Threads, Wakeup(t) PROVE CreateInv'
  <2>1. creating' = creating /\ \A x \in VMs : /\ pc'[x] = "start" => pc[x] = "start"
                                               /\ pc'[x] = "none" <=> pc[x] = "none"
    BY <1>3, <1>20 DEF Wakeup, At, Go
  <2>2. {x \in VMs : pc'[x] # "none"} = {x \in VMs : pc[x] # "none"}
    BY <2>1
  <2> QED
    BY <2>1, <2>2, <1>21, <1>22
<1>4. ASSUME NEW t \in Threads, acquired(t) PROVE CreateInv'
  <2>1. creating' = creating /\ \A x \in VMs : /\ pc'[x] = "start" => pc[x] = "start"
                                               /\ pc'[x] = "none" <=> pc[x] = "none"
    BY <1>4, <1>20 DEF acquired, Back, osblock, At, Go
  <2>2. {x \in VMs : pc'[x] # "none"} = {x \in VMs : pc[x] # "none"}
    BY <2>1
  <2> QED
    BY <2>1, <2>2, <1>21, <1>22
<1>5. ASSUME NEW t \in VMs, release(t) PROVE CreateInv'
  <2>1. t \in Threads /\ Leaves(t)
    BY <1>5, ReleaseLeaves DEF Threads
  <2> QED
    BY <2>1, LeavesCreate
<1>6. ASSUME NEW t \in VMs, startup(t) PROVE CreateInv'
  <2>1. pc[t] = "start" /\ pc'[t] \in {"loop", "spare"} /\ \A x \in VMs \ {t} : pc'[x] = pc[x]
    BY <1>6, <1>20 DEF startup, At, Go
  <2>2. {x \in VMs : pc'[x] # "none"} = {x \in VMs : pc[x] # "none"}
    BY <2>1
  <2> QED
    BY <2>1, <2>2, <1>21, <1>22
<1>7. ASSUME NEW t \in VMs, resume(t) PROVE CreateInv'
  <2>1. creating' = creating /\ \A x \in VMs : /\ pc'[x] = "start" => pc[x] = "start"
                                               /\ pc'[x] = "none" <=> pc[x] = "none"
    BY <1>7, <1>20 DEF resume, osblock, At, Go
  <2>2. {x \in VMs : pc'[x] # "none"} = {x \in VMs : pc[x] # "none"}
    BY <2>1
  <2> QED
    BY <2>1, <2>2, <1>21, <1>22
<1>8. ASSUME NEW t \in VMs, goidle(t) PROVE CreateInv'
  <2>1. creating' = creating /\ \A x \in VMs : /\ pc'[x] = "start" => pc[x] = "start"
                                               /\ pc'[x] = "none" <=> pc[x] = "none"
    BY <1>8, <1>20 DEF goidle, At, Go
  <2>2. {x \in VMs : pc'[x] # "none"} = {x \in VMs : pc[x] # "none"}
    BY <2>1
  <2> QED
    BY <2>1, <2>2, <1>21, <1>22
<1>9. ASSUME NEW t \in VMs, Sleep(t) PROVE CreateInv'
  <2>1. creating' = creating /\ \A x \in VMs : /\ pc'[x] = "start" => pc[x] = "start"
                                               /\ pc'[x] = "none" <=> pc[x] = "none"
    BY <1>9, <1>20 DEF Sleep, At, Go
  <2>2. {x \in VMs : pc'[x] # "none"} = {x \in VMs : pc[x] # "none"}
    BY <2>1
  <2> QED
    BY <2>1, <2>2, <1>21, <1>22
<1>10. ASSUME NEW t \in VMs, awake(t) PROVE CreateInv'
  <2>1. creating' = creating /\ \A x \in VMs : /\ pc'[x] = "start" => pc[x] = "start"
                                               /\ pc'[x] = "none" <=> pc[x] = "none"
    BY <1>10, <1>20 DEF awake, osblock, At, Go
  <2>2. {x \in VMs : pc'[x] # "none"} = {x \in VMs : pc[x] # "none"}
    BY <2>1
  <2> QED
    BY <2>1, <2>2, <1>21, <1>22
<1>11. ASSUME NEW t \in VMs, iyield(t) PROVE CreateInv'
  <2>1. creating' = creating /\ \A x \in VMs : /\ pc'[x] = "start" => pc[x] = "start"
                                               /\ pc'[x] = "none" <=> pc[x] = "none"
    BY <1>11, <1>20 DEF iyield, At, Go
  <2>2. {x \in VMs : pc'[x] # "none"} = {x \in VMs : pc[x] # "none"}
    BY <2>1
  <2> QED
    BY <2>1, <2>2, <1>21, <1>22
<1>12. ASSUME NEW t \in VMs, xec(t) PROVE CreateInv'
  <2>1. creating' = creating /\ \A x \in VMs : /\ pc'[x] = "start" => pc[x] = "start"
                                               /\ pc'[x] = "none" <=> pc[x] = "none"
    BY <1>12, <1>20 DEF xec, At, Go
  <2>2. {x \in VMs : pc'[x] # "none"} = {x \in VMs : pc[x] # "none"}
    BY <2>1
  <2> QED
    BY <2>1, <2>2, <1>21, <1>22
<1>13. ASSUME NEW t \in VMs, Quantum(t) PROVE CreateInv'
  <2>1. creating' = creating /\ \A x \in VMs : /\ pc'[x] = "start" => pc[x] = "start"
                                               /\ pc'[x] = "none" <=> pc[x] = "none"
    BY <1>13, <1>20 DEF Quantum, NextTurn, At, Go
  <2>2. {x \in VMs : pc'[x] # "none"} = {x \in VMs : pc[x] # "none"}
    BY <2>1
  <2> QED
    BY <2>1, <2>2, <1>21, <1>22
<1>14. ASSUME NEW t \in VMs, sysret(t) PROVE CreateInv'
  <2>1. creating' = creating /\ \A x \in VMs : /\ pc'[x] = "start" => pc[x] = "start"
                                               /\ pc'[x] = "none" <=> pc[x] = "none"
    BY <1>14, <1>20 DEF sysret, NextTurn, At, Go
  <2>2. {x \in VMs : pc'[x] # "none"} = {x \in VMs : pc[x] # "none"}
    BY <2>1
  <2> QED
    BY <2>1, <2>2, <1>21, <1>22
<1>15. ASSUME NEW t \in VMs, caught(t) PROVE CreateInv'
  <2>1. creating' = creating /\ \A x \in VMs : /\ pc'[x] = "start" => pc[x] = "start"
                                               /\ pc'[x] = "none" <=> pc[x] = "none"
    BY <1>15, <1>20 DEF caught, At, Go
  <2>2. {x \in VMs : pc'[x] # "none"} = {x \in VMs : pc[x] # "none"}
    BY <2>1
  <2> QED
    BY <2>1, <2>2, <1>21, <1>22
<1>18. ASSUME NEW t \in VMs, exits(t) PROVE CreateInv'
  <2>1. creating' = creating /\ \A x \in VMs : /\ pc'[x] = "start" => pc[x] = "start"
                                               /\ pc'[x] = "none" <=> pc[x] = "none"
    BY <1>18, <1>20 DEF exits, At, Go
  <2>2. {x \in VMs : pc'[x] # "none"} = {x \in VMs : pc[x] # "none"}
    BY <2>1
  <2> QED
    BY <2>1, <2>2, <1>21, <1>22
<1>19. ASSUME NEW t \in VMs, gcend(t) PROVE CreateInv'
  <2>1. creating' = creating /\ \A x \in VMs : /\ pc'[x] = "start" => pc[x] = "start"
                                               /\ pc'[x] = "none" <=> pc[x] = "none"
    BY <1>19, <1>20 DEF gcend, At, Go
  <2>2. {x \in VMs : pc'[x] # "none"} = {x \in VMs : pc[x] # "none"}
    BY <2>1
  <2> QED
    BY <2>1, <2>2, <1>21, <1>22
<1>30. ASSUME NEW t \in VMs, gcrelease(t) PROVE CreateInv'
  <2>1. t \in Threads /\ Leaves(t)
    BY <1>30, ReleaseLeaves DEF Threads
  <2> QED
    BY <2>1, LeavesCreate
<1>16. ASSUME NEW t \in Kprocs, kprocrelease(t) PROVE CreateInv'
  <2>1. t \in Threads /\ Leaves(t)
    BY <1>16, ReleaseLeaves DEF Threads
  <2> QED
    BY <2>1, LeavesCreate
<1>17. CASE UNCHANGED vars
  <2>1. creating' = creating /\ \A x \in VMs : /\ pc'[x] = "start" => pc[x] = "start"
                                               /\ pc'[x] = "none" <=> pc[x] = "none"
    BY <1>17, <1>20 DEF vars
  <2>2. {x \in VMs : pc'[x] # "none"} = {x \in VMs : pc[x] # "none"}
    BY <2>1
  <2> QED
    BY <2>1, <2>2, <1>21, <1>22
<1> QED
  BY <1>1, <1>2, <1>3, <1>4, <1>5, <1>6, <1>7, <1>8, <1>9, <1>10, <1>11, <1>12,
     <1>13, <1>14, <1>15, <1>16, <1>17, <1>18, <1>19, <1>30, <1>20 DEF Next, VMStep, KprocStep

----------------------------------------------------------------------------
(* The theorems *)

\* The invariant holds at the start.
LEMMA InitIInv == Init => IInv
<1> SUFFICES ASSUME Init PROVE IInv
  OBVIOUS
<1>1. /\ Nil \notin Threads /\ Nil \notin Progs /\ 1 \in VMs /\ VMs \cap Kprocs = {}
      /\ VMs \subseteq Threads /\ Kprocs \subseteq Threads /\ Threads \subseteq VMs \cup Kprocs
  BY IschedAssumption DEF Threads, VMs
<1>2. /\ runq \in Seq(Progs) /\ Distinct(runq)
      /\ \A t \in Threads : sem[t] = 0 /\ hand[t] = Nil /\ iprog[t] = Nil
      /\ \A t \in Threads : pc[t] = IF t = 1 THEN "loop" ELSE IF t \in VMs THEN "none" ELSE "out"
      /\ vmq = <<>> /\ idlevmq = <<>> /\ irend = Nil /\ ~idle
  <2>1. runq \in [1..Cardinality(Progs) -> Progs] /\ Cardinality(Progs) \in Nat
    BY IschedAssumption, FS_CardinalityType DEF Init
  <2> QED
    BY <2>1 DEF Init, Distinct
<1>3. Members(vmq) = {} /\ Members(idlevmq) = {} /\ Distinct(vmq) /\ Distinct(idlevmq)
  BY <1>2 DEF Members, Distinct
<1>4. TypeOK
  <2>1. /\ sem \in [Threads -> Nat] /\ hand \in [Threads -> Threads \cup {Nil}]
        /\ iprog \in [Threads -> Callers \cup {Nil}] /\ cycles \in [VMs -> 0..2]
        /\ pc \in [Threads -> Places]
    BY DEF Init, Places, Owning
  <2> QED
    <3>1. vmq \in Seq(Threads) /\ idlevmq \in Seq(VMs)
      BY <1>2
    <3> QED
      BY <1>2, <2>1, <3>1 DEF Init, TypeOK
<1>5. OwnInv
  BY <1>1, <1>2 DEF OwnInv, HasIt, Posted, Waiting, Owning
<1>6. SemInv
  BY <1>1, <1>2 DEF SemInv
<1>7. WaitInv
  BY <1>1, <1>2, <1>3 DEF WaitInv
<1>8. ProgInv
  BY <1>1, <1>2 DEF ProgInv, Collecting, Away
<1>9. CreateInv
  <2>1. {t \in VMs : pc[t] # "none"} = {1}
    BY <1>1, <1>2
  <2>2. Cardinality(Callers) \in Nat /\ Cardinality({1}) = 1
    BY IschedAssumption, FS_Subset, FS_CardinalityType, FS_Singleton
  <2>3. ThreadsBounded
    <3>1. Cardinality({t \in VMs : pc[t] # "none"}) = 1
      BY <2>1, <2>2
    <3> QED
      BY <2>2, <3>1 DEF ThreadsBounded
  <2> QED
    BY <1>1, <1>2, <2>3 DEF CreateInv
<1> QED
  BY <1>4, <1>5, <1>6, <1>7, <1>8, <1>9 DEF IInv

\* Every step of a thread keeps the invariant.
LEMMA NextIInv == IInv /\ [Next]_vars => IInv'
BY NextType, NextOwn, NextSem, NextWait, NextProg, NextCreate DEF IInv

\* The invariant holds in every state of the scheduler.
THEOREM Invariant == Spec => []IInv
BY InitIInv, NextIInv, PTL DEF Spec

\* The interpreter is idle, owned by one thread, or on its way to one, however
\* acquire, release, iyield and startup interleave: never lost, never in two
\* hands.
THEOREM OneThreadRunsDis == Spec => []OneOwner
<1>1. IInv => OneOwner
  <2> SUFFICES ASSUME IInv PROVE OneOwner
    OBVIOUS
  <2>1. OwnInv /\ SemInv /\ Nil \notin Threads /\ hand \in [Threads -> Threads \cup {Nil}]
    BY IschedAssumption DEF IInv, TypeOK
  <2>2. \A x \in Threads : x \in Chosen <=> Posted(x) \/ \E u \in Threads : hand[u] = x
    <3>1. \A x \in Threads : sem[x] > 0 <=> sem[x] # 0
      BY <2>1 DEF SemInv
    <3> QED
      BY <3>1 DEF Chosen, Posted, Waiting
  <2>3. CASE idle
    <3>1. Owners = {} /\ Chosen = {}
      BY <2>1, <2>2, <2>3 DEF Owners, OwnInv, HasIt, Chosen
    <3> QED
      BY <2>3, <3>1, FS_EmptySet DEF OneOwner
  <2>4. ASSUME NEW t \in Threads, HasIt(t), ~idle PROVE OneOwner
    <3>1. CASE pc[t] \in Owning
      <4>1. Owners = {t}
        BY <2>1, <3>1 DEF Owners, OwnInv, HasIt
      <4>2. Chosen = {}
        <5>1. \A u \in Threads : hand[u] = Nil /\ ~Posted(u)
          BY <2>1, <2>4, <3>1 DEF OwnInv, HasIt, Posted, Owning, Waiting
        <5> QED
          BY <2>1, <2>2, <5>1 DEF Chosen
      <4> QED
        BY <2>4, <4>1, <4>2, FS_EmptySet, FS_Singleton DEF OneOwner
    <3>2. CASE hand[t] # Nil
      <4>1. Owners = {}
        BY <2>1, <2>4, <3>2 DEF Owners, OwnInv, HasIt
      <4>2. Chosen = {hand[t]}
        <5>1. \A u \in Threads : ~Posted(u) /\ (hand[u] # Nil => u = t)
          BY <2>1, <2>4, <3>2 DEF OwnInv, HasIt
        <5> QED
          BY <2>1, <2>2, <3>2, <5>1 DEF Chosen
      <4>3. Cardinality(Owners) = 0 /\ Cardinality(Chosen) = 1
        BY <4>1, <4>2, FS_EmptySet, FS_Singleton
      <4> QED
        BY <2>4, <4>3 DEF OneOwner
    <3>3. CASE Posted(t)
      <4>1. \A u \in Threads : hand[u] = Nil /\ pc[u] \notin Owning /\ (Posted(u) => u = t)
        BY <2>1, <2>4, <3>3 DEF OwnInv, HasIt, Posted, Waiting, Owning
      <4>2. Owners = {} /\ Chosen = {t}
        BY <2>1, <2>2, <3>3, <4>1 DEF Owners, Chosen
      <4> QED
        BY <2>4, <4>2, FS_EmptySet, FS_Singleton DEF OneOwner
    <3> QED
      BY <2>4, <3>1, <3>2, <3>3 DEF HasIt
  <2> QED
    BY <2>1, <2>3, <2>4 DEF OwnInv
<1> QED
  BY <1>1, Invariant, PTL

\* The panics of iyield and Sleep are not reached, and no thread is made ready
\* twice.
THEOREM PanicsUnreachable == Spec => []NoPanic
<1>1. IInv => NoPanic
  <2> SUFFICES ASSUME IInv PROVE NoPanic
    OBVIOUS
  <2>1. OwnInv /\ SemInv /\ ProgInv /\ VMs \subseteq Threads /\ irend \in VMs \cup {Nil}
    BY DEF IInv, TypeOK, Threads
  <2>2. \A t \in VMs : pc[t] \in {"loop", "sleep", "asleep"} => iprog[t] = Nil
    BY <2>1 DEF ProgInv, Away
  <2>3. ASSUME NEW t \in VMs, pc[t] = "sleep" PROVE irend = Nil
    BY <2>1, <2>3 DEF SemInv, OwnInv, HasIt, Owning
  <2>4. \A t \in Threads : sem[t] <= 1
    BY <2>1 DEF SemInv
  <2> QED
    BY <2>2, <2>3, <2>4 DEF NoPanic
<1> QED
  BY <1>1, Invariant, PTL

\* No process is lost or run by two threads: it is on the run queue once, or
\* in one thread's iprog, or waits (isave, irestore, addrun, delrun).
THEOREM NoProcessLost == Spec => []ProcessesKept
<1>1. IInv => ProcessesKept
  BY DEF IInv, ProgInv, ProcessesKept, Distinct, Members
<1> QED
  BY <1>1, Invariant, PTL

\* release never creates more VM threads than there are processes that make
\* system calls, plus one for the collector and one to go on.
THEOREM ThreadsStayBounded == Spec => []ThreadsBounded
<1>1. IInv => ThreadsBounded
  BY DEF IInv, CreateInv
<1> QED
  BY <1>1, Invariant, PTL

=============================================================================
