------------------------------- MODULE Isched -------------------------------
(***************************************************************************)
(* How the threads of emu pass the Dis interpreter around: isched, acquire, *)
(* release, iyield, startup and the loop of vmachine (emu/port/dis.c), with *)
(* Sleep and Wakeup (emu/port/proc.c) and the semaphore of osblock and      *)
(* osready (emu/port/kproc-pthreads.c).                                     *)
(*                                                                          *)
(* A VM thread runs the processes of the run queue; a system call releases  *)
(* the interpreter, remembers the process in iprog and acquires it again.   *)
(* The garbage collector runs in a VM thread too, and what it frees may     *)
(* release the interpreter while the thread carries no process.  The other  *)
(* kprocs (a timer, a device) acquire it for a moment and may make a        *)
(* process ready.  One action is one section under isched.l or under       *)
(* the lock of irend, or one semaphore operation: threads interleave in     *)
(* between.  The locks themselves are taken as given.                       *)
(***************************************************************************)
EXTENDS Naturals, Sequences, FiniteSets

CONSTANTS
    Progs,     \* the Limbo processes
    Callers,   \* those of them that release the interpreter, as system calls do
    MaxVMs,    \* bound: VM threads, numbered in the order they are created
    Kprocs,    \* the other threads
    Nil

VMs == 1..MaxVMs
Threads == VMs \cup Kprocs

ASSUME IschedAssumption ==
    /\ MaxVMs \in Nat \ {0}
    /\ VMs \cap Kprocs = {}
    /\ Nil \notin Progs \cup Threads
    /\ IsFiniteSet(Kprocs)
    /\ IsFiniteSet(Progs)
    /\ Callers \subseteq Progs

VARIABLES
    idle, creating,    \* isched.idle, isched.creating
    vmq, idlevmq,      \* isched.vmq, isched.idlevmq
    runq,              \* isched.runhd ... runtl, without the threads' own progs
    irend,             \* isched.irend.p
    sem,               \* the semaphore of each thread
    hand,              \* the thread this one has still to make ready, or Nil
    iprog,             \* Proc.iprog
    cycles,            \* local to vmachine
    pc                 \* where a thread is, see below

vars == <<idle, creating, vmq, idlevmq, runq, irend, sem, hand, iprog, cycles, pc>>

\* Threads that execute as the owner of the interpreter: at the top of the
\* loop, in or about to enter Sleep, in xec, there at the end of a system call,
\* in rungc, or (a kproc) between acquire and release.
Owning == {"loop", "sleep", "asleep", "xec", "ret", "gc", "in"}

\* The others: not created, created, blocked in startup and in iyield, in a
\* system call or freeing garbage or not interested, in acquire before Wakeup
\* and before osblock returns.
Places == Owning \cup {"none", "start", "spare", "yielded", "out", "wake", "queued"}

\* disinit has called vmachine, and the processes of the first module are ready.
Init ==
    /\ idle = FALSE /\ creating = FALSE
    /\ vmq = <<>> /\ idlevmq = <<>>
    /\ runq \in {q \in [1..Cardinality(Progs) -> Progs] :
                   \A i, j \in DOMAIN q : q[i] = q[j] => i = j}
    /\ irend = Nil
    /\ sem = [t \in Threads |-> 0]
    /\ hand = [t \in Threads |-> Nil]
    /\ iprog = [t \in Threads |-> Nil]
    /\ cycles = [t \in VMs |-> 0]
    /\ pc = [t \in Threads |-> IF t = 1 THEN "loop"
                               ELSE IF t \in VMs THEN "none" ELSE "out"]

\* Thread t is at place l and has nobody left to make ready.
At(t, l) == pc[t] = l /\ hand[t] = Nil
Go(t, l) == pc' = [pc EXCEPT ![t] = l]

tready == runq # <<>> \/ vmq # <<>>

\* VM threads that have released the interpreter or wait to have it back; one
\* without a process is the collector, which frees one object at a time (gclock).
Away(t) == t \in VMs /\ pc[t] \in {"out", "wake", "queued"}
gcruns == \A t \in VMs : Away(t) => iprog[t] # Nil

\* Where a thread goes when it has the interpreter again, and the run queue
\* then: a process in a system call goes to the head.
Back(t) == IF t \in Kprocs THEN "in" ELSE IF iprog[t] = Nil THEN "gc" ELSE "ret"
WithProcess(t) == IF iprog[t] = Nil THEN runq ELSE <<iprog[t]>> \o runq

----------------------------------------------------------------------------
(* Semaphores *)

\* osready, after the lock is released.
osready(t) ==
    /\ hand[t] # Nil
    /\ sem' = [sem EXCEPT ![hand[t]] = @ + 1]
    /\ hand' = [hand EXCEPT ![t] = Nil]
    /\ UNCHANGED <<idle, creating, vmq, idlevmq, runq, irend, iprog, cycles, pc>>

\* osblock returns.
osblock(t) ==
    /\ sem[t] > 0
    /\ sem' = [sem EXCEPT ![t] = @ - 1]

----------------------------------------------------------------------------
(* Passing the interpreter on *)


\* acquire: the interpreter is free, or t queues for it and, if it is the
\* first, wakes the sleeping owner.
acquire(t) ==
    /\ At(t, "out")
    /\ \/ /\ idle
          /\ idle' = FALSE
          /\ Go(t, Back(t))
          /\ runq' = WithProcess(t)
          /\ iprog' = [iprog EXCEPT ![t] = Nil]
          /\ UNCHANGED vmq
       \/ /\ ~idle
          /\ vmq' = Append(vmq, t)
          /\ Go(t, IF vmq = <<>> THEN "wake" ELSE "queued")
          /\ UNCHANGED <<idle, runq, iprog>>
    /\ UNCHANGED <<creating, idlevmq, irend, sem, hand, cycles>>

\* Wakeup(&isched.irend) in acquire.
Wakeup(t) ==
    /\ At(t, "wake")
    /\ Go(t, "queued")
    /\ irend' = Nil
    /\ sem' = IF irend = Nil THEN sem ELSE [sem EXCEPT ![irend] = @ + 1]
    /\ UNCHANGED <<idle, creating, vmq, idlevmq, runq, hand, iprog, cycles>>

\* Mutant of acquired: iprog is not cleared.
acquired_iprog_left(t) ==
    /\ At(t, "queued")
    /\ osblock(t)
    /\ Go(t, Back(t))
    /\ runq' = WithProcess(t)
    /\ UNCHANGED <<idle, creating, vmq, idlevmq, irend, hand, iprog, cycles>>

\* The end of acquire, once somebody passed the interpreter on to t.
acquired(t) ==
    /\ At(t, "queued")
    /\ osblock(t)
    /\ Go(t, Back(t))
    /\ runq' = WithProcess(t)
    /\ iprog' = [iprog EXCEPT ![t] = Nil]
    /\ UNCHANGED <<idle, creating, vmq, idlevmq, irend, hand, cycles>>

\* Mutant of Pass: the interpreter is passed on and declared idle.
Pass_and_idle(t) ==
    \/ /\ vmq # <<>>
       /\ hand' = [hand EXCEPT ![t] = Head(vmq)]
       /\ vmq' = Tail(vmq)
       /\ idle' = TRUE
       /\ UNCHANGED <<idlevmq, creating>>
    \/ /\ vmq = <<>> /\ idlevmq # <<>>
       /\ hand' = [hand EXCEPT ![t] = Head(idlevmq)]
       /\ idlevmq' = Tail(idlevmq)
       /\ UNCHANGED <<vmq, idle, creating>>
    \/ /\ vmq = <<>> /\ idlevmq = <<>>
       /\ idle' = TRUE
       /\ creating' = TRUE
       /\ UNCHANGED <<vmq, idlevmq, hand>>

\* The locked part of release: the first thread that wants the interpreter
\* gets it, else one that wants work; else it lies idle.
Pass(t) ==
    \/ /\ vmq # <<>>
       /\ hand' = [hand EXCEPT ![t] = Head(vmq)]
       /\ vmq' = Tail(vmq)
       /\ UNCHANGED <<idlevmq, idle, creating>>
    \/ /\ vmq = <<>> /\ idlevmq # <<>>
       /\ hand' = [hand EXCEPT ![t] = Head(idlevmq)]
       /\ idlevmq' = Tail(idlevmq)
       /\ UNCHANGED <<vmq, idle, creating>>
    \/ /\ vmq = <<>> /\ idlevmq = <<>>
       /\ idle' = TRUE
       /\ creating' = TRUE
       /\ UNCHANGED <<vmq, idlevmq, hand>>

\* Mutant of Create: a thread that is on its way does not count.
Create_always(t, l) ==
    IF idle'
    THEN \E n \in VMs : /\ pc[n] = "none" /\ \A m \in 1..(n - 1) : pc[m] # "none"
                        /\ pc' = [pc EXCEPT ![n] = "start", ![t] = l]
    ELSE Go(t, l)

\* release creates a VM thread if it leaves the interpreter idle and none is
\* on its way; where t goes.
Create(t, l) ==
    IF idle' /\ ~creating
    THEN \E n \in VMs : /\ pc[n] = "none" /\ \A m \in 1..(n - 1) : pc[m] # "none"
                        /\ pc' = [pc EXCEPT ![n] = "start", ![t] = l]
    ELSE Go(t, l)

\* Mutant of release: the process stays on the run queue.
release_still_queued(t) ==
    /\ At(t, "xec") \/ At(t, "ret")
    /\ Head(runq) \in Callers
    /\ iprog' = [iprog EXCEPT ![t] = Head(runq)]
    /\ Pass(t)
    /\ Create(t, "out")
    /\ UNCHANGED <<runq, irend, sem, cycles>>

\* A process makes a system call, or a system call waits again: isave, release.
release(t) ==
    /\ At(t, "xec") \/ At(t, "ret")
    /\ Head(runq) \in Callers
    /\ iprog' = [iprog EXCEPT ![t] = Head(runq)]
    /\ runq' = Tail(runq)
    /\ Pass(t)
    /\ Create(t, "out")
    /\ UNCHANGED <<irend, sem, cycles>>

\* A kproc is done; it may have made a process ready (addrun).
Addruns == {p \in Progs : /\ \A i \in DOMAIN runq : runq[i] # p
                          /\ \A t \in Threads : iprog[t] # p}
kprocrelease(t) ==
    /\ At(t, "in")
    /\ runq' \in {runq} \cup {Append(runq, p) : p \in Addruns}
    /\ Pass(t)
    /\ Create(t, "out")
    /\ UNCHANGED <<irend, sem, iprog, cycles>>

\* rungc frees a descriptor or a channel of a file (freeFD, freerdchan): the
\* thread's own prog leaves the head of the run queue, and release.
gcrelease(t) ==
    /\ At(t, "gc")
    /\ gcruns
    /\ Pass(t)
    /\ Create(t, "out")
    /\ UNCHANGED <<runq, irend, sem, iprog, cycles>>

----------------------------------------------------------------------------
(* vmachine *)

startup(t) ==
    /\ At(t, "start")
    /\ creating' = FALSE
    /\ \/ /\ idle
          /\ idle' = FALSE
          /\ Go(t, "loop")
          /\ UNCHANGED idlevmq
       \/ /\ ~idle
          /\ idlevmq' = <<t>> \o idlevmq
          /\ Go(t, "spare")
          /\ UNCHANGED idle
    /\ UNCHANGED <<vmq, runq, irend, sem, hand, iprog, cycles>>

\* The end of startup, and of iyield, after which what is ready is executed
\* without another look at vmq.
resume(t) ==
    /\ At(t, "spare") \/ At(t, "yielded")
    /\ osblock(t)
    /\ Go(t, IF pc[t] = "yielded" /\ runq # <<>> THEN "xec" ELSE "loop")
    /\ UNCHANGED <<idle, creating, vmq, idlevmq, runq, irend, hand, iprog, cycles>>

\* The loop: nothing to do.  execatidle collects garbage or not; either way
\* tready is looked at again before the thread sleeps.
goidle(t) ==
    /\ At(t, "loop")
    /\ ~tready
    /\ Go(t, "sleep") \/ Go(t, "gc")
    /\ UNCHANGED <<idle, creating, vmq, idlevmq, runq, irend, sem, hand, iprog, cycles>>

\* Sleep(&isched.irend, tready, 0), under the lock of irend.
Sleep(t) ==
    /\ At(t, "sleep")
    /\ IF tready THEN Go(t, "loop") /\ UNCHANGED irend
       ELSE irend' = t /\ Go(t, "asleep")
    /\ UNCHANGED <<idle, creating, vmq, idlevmq, runq, sem, hand, iprog, cycles>>

awake(t) ==
    /\ At(t, "asleep")
    /\ osblock(t)
    /\ Go(t, "loop")
    /\ UNCHANGED <<idle, creating, vmq, idlevmq, runq, irend, hand, iprog, cycles>>

\* Somebody wants the interpreter and nothing is ready, or this is the third
\* look in a row at which somebody does.
MustYield(t) == vmq # <<>> /\ (runq = <<>> \/ cycles[t] >= 2)

iyield(t) ==
    /\ At(t, "loop")
    /\ MustYield(t)
    /\ hand' = [hand EXCEPT ![t] = Head(vmq)]
    /\ vmq' = Tail(vmq)
    /\ idlevmq' = <<t>> \o idlevmq
    /\ cycles' = [cycles EXCEPT ![t] = 0]
    /\ Go(t, "yielded")
    /\ UNCHANGED <<idle, creating, runq, irend, sem, iprog>>

\* ++cycles is only evaluated if somebody waits.
xec(t) ==
    /\ At(t, "loop")
    /\ runq # <<>> /\ ~MustYield(t)
    /\ cycles' = [cycles EXCEPT ![t] = IF vmq # <<>> THEN @ + 1 ELSE @]
    /\ Go(t, "xec")
    /\ UNCHANGED <<idle, creating, vmq, idlevmq, runq, irend, sem, hand, iprog>>

\* After a process has had its turn, garbage is collected now and then.
NextTurn(t) == Go(t, "loop") \/ (runq' # <<>> /\ Go(t, "gc"))

\* The end of rungc.
gcend(t) ==
    /\ At(t, "gc")
    /\ Go(t, "loop")
    /\ UNCHANGED <<idle, creating, vmq, idlevmq, runq, irend, sem, hand, iprog, cycles>>

\* The process uses up its quantum, or waits for another process (delrun),
\* perhaps after it made one ready.
Quantum(t) ==
    /\ At(t, "xec")
    /\ \E woken \in {<<>>} \cup {<<p>> : p \in Addruns} :
         runq' \in {Tail(runq) \o woken, Tail(runq) \o woken \o <<Head(runq)>>}
    /\ NextTurn(t)
    /\ UNCHANGED <<idle, creating, vmq, idlevmq, irend, sem, hand, iprog, cycles>>


\* The end of a system call: irestore has left one instruction of the quantum,
\* so the process goes to the tail.
sysret(t) ==
    /\ At(t, "ret")
    /\ runq' = Append(Tail(runq), Head(runq))
    /\ NextTurn(t)
    /\ UNCHANGED <<idle, creating, vmq, idlevmq, irend, sem, hand, iprog, cycles>>

\* An error ends the quantum, and cycles starts from 0: a handler of the
\* process catches it, and the process stays at the head of the queue,
caught(t) ==
    /\ At(t, "xec") \/ At(t, "ret")
    /\ cycles' = [cycles EXCEPT ![t] = 0]
    /\ Go(t, "loop")
    /\ UNCHANGED <<idle, creating, vmq, idlevmq, runq, irend, sem, hand, iprog>>

\* or the process exits, as it also does of its own accord (iexit).
exits(t) ==
    /\ At(t, "xec") \/ At(t, "ret")
    /\ runq' = Tail(runq)
    /\ cycles' = [cycles EXCEPT ![t] = 0]
    /\ Go(t, "loop")
    /\ UNCHANGED <<idle, creating, vmq, idlevmq, irend, sem, hand, iprog>>

----------------------------------------------------------------------------
KprocStep(t) == osready(t) \/ acquire(t) \/ Wakeup(t) \/ acquired(t) \/ kprocrelease(t)

VMStep(t) ==
    \/ osready(t) \/ acquire(t) \/ Wakeup(t) \/ acquired(t)
    \/ release(t) \/ gcrelease(t) \/ startup(t) \/ resume(t) \/ goidle(t) \/ Sleep(t)
    \/ awake(t) \/ iyield(t) \/ xec(t) \/ Quantum(t) \/ sysret(t) \/ gcend(t)
    \/ caught(t) \/ exits(t)

Next ==
    \/ \E t \in VMs : VMStep(t)
    \/ \E t \in Kprocs : KprocStep(t)

\* The host schedules every thread that can run: a process does not stay in xec
\* for ever, and a kproc does not keep the interpreter, but need not ask for it
\* again.  Neither do the system calls only ever wait again, nor the collector
\* only ever free one object more (SF, weaker than for each thread).
Fairness ==
    /\ \A t \in VMs : WF_vars(VMStep(t))
    /\ \A t \in Kprocs : WF_vars(osready(t) \/ Wakeup(t) \/ acquired(t) \/ kprocrelease(t))
    /\ SF_vars(\E t \in VMs : sysret(t) \/ caught(t) \/ exits(t))
    /\ SF_vars(\E t \in VMs : gcend(t))

Spec == Init /\ [][Next]_vars
FairSpec == Spec /\ Fairness

----------------------------------------------------------------------------
(* Properties *)

\* Every variable has its type.
TypeOK ==
    /\ idle \in BOOLEAN /\ creating \in BOOLEAN
    /\ vmq \in Seq(Threads) /\ idlevmq \in Seq(VMs)
    /\ runq \in Seq(Progs)
    /\ irend \in VMs \cup {Nil}
    /\ sem \in [Threads -> Nat]
    /\ hand \in [Threads -> Threads \cup {Nil}]
    /\ iprog \in [Threads -> Callers \cup {Nil}]
    /\ cycles \in [VMs -> 0..2]
    /\ pc \in [Threads -> Places]

\* Threads that own the interpreter or have been chosen to own it next.
Owners == {t \in Threads : pc[t] \in Owning}
Chosen == {t \in Threads : \/ \E u \in Threads : hand[u] = t
                           \/ pc[t] \in {"wake", "queued", "spare", "yielded"} /\ sem[t] > 0}

\* The interpreter is never lost and never in two hands: it lies idle, or one
\* thread owns it, or one has been chosen (acquire, release, iyield, startup).
OneOwner ==
    Cardinality(Owners) + Cardinality(Chosen) + (IF idle THEN 1 ELSE 0) = 1

\* What the code panics about: iyield finds iprog set, Sleep finds another
\* sleeper; and a semaphore is never posted twice, which would let a thread run
\* through a later osblock.
NoPanic ==
    /\ \A t \in VMs : pc[t] \in {"loop", "sleep", "asleep"} => iprog[t] = Nil
    /\ \A t \in VMs : pc[t] = "sleep" => irend = Nil
    /\ \A t \in Threads : sem[t] <= 1

\* No process is lost or run twice: it is on the run queue once, or in one
\* thread's system call, or waits; the process a thread executes is the head.
\* (Every variable has its type.)
ProcessesKept ==
    /\ TypeOK
    /\ \A i, j \in DOMAIN runq : runq[i] = runq[j] => i = j
    /\ \A t \in VMs : iprog[t] # Nil =>
         /\ \A i \in DOMAIN runq : runq[i] # iprog[t]
         /\ \A u \in VMs \ {t} : iprog[u] # iprog[t]
    /\ \A t \in VMs : pc[t] \in {"xec", "ret"} => runq # <<>>

\* release does not create VM threads without end: there are at most two more
\* than processes that make system calls, one for the collector and one to go
\* on, however creation and the return of system calls interleave.
ThreadsBounded ==
    Cardinality({t \in VMs : pc[t] # "none"}) <= Cardinality(Callers) + 2


\* A ready process is executed: the processes that come out of system calls go
\* in front of it but cannot keep it waiting for ever.  Only exceptions that
\* are caught and never cease can, for each gives its process the turn again.
Executed(p) == runq # <<>> /\ Head(runq) = p /\ \E t \in VMs : pc[t] \in {"xec", "ret"}
=============================================================================
