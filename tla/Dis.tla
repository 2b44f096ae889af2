-------------------------------- MODULE Dis --------------------------------
(***************************************************************************)
(* The part of the Dis virtual machine every Limbo program of aimsgui runs  *)
(* on: processes (Prog), the run queue, channels with alt, process groups,  *)
(* kill and killgrp.  libinterp/alt.c and xec.c, emu/port/dis.c.            *)
(*                                                                          *)
(* One action is what one process does while it holds the interpreter:      *)
(* nothing else runs in between.  A process that makes a blocking call      *)
(* releases the interpreter (state "release") and is put in front of the    *)
(* run queue when it has acquired it again.  Deleting a process releases    *)
(* the interpreter too, which is where killgrp and exit can be overtaken.   *)
(*                                                                          *)
(* An alt is the sets of channels it sends and receives on (an array of     *)
(* channels counts as its elements).  reused, ahead, sent and rcvd are      *)
(* history: no guard reads them, but sent bounds the run.                   *)
(***************************************************************************)
EXTENDS Progq, FiniteSets

CONSTANTS
    Progs,     \* one identity per pid
    First,     \* the process the system starts with
    Chans,
    Vals,
    Nil,
    Alts,      \* the alts the programs contain
    Slots,     \* buffer slots of each channel, 0 if synchronous
    Room,      \* slots csendalt gives to a synchronous channel, TkMaxmsgs
    MaxMsgs    \* bound: complete sends on all channels together

Nothing == [s |-> {}, r |-> {}]
Offers  == [s : SUBSET Chans, r : SUBSET Chans]

\* A channel occurs once in each direction (sets); an alt with a channel in
\* both directions has no other receive: altcomm could then receive from the
\* process itself.
ASSUME DisAssumption ==
    /\ First \in Progs
    /\ Nil \notin Progs \cup Vals
    /\ Vals # {}
    /\ Slots \in [Chans -> Nat]
    /\ Room \in Nat \ {0}
    /\ MaxMsgs \in Nat
    /\ \A a \in Alts :
         /\ a \in Offers
         /\ a # Nothing
         /\ a.s \cap a.r # {} => \E c \in Chans : a.r = {c}

VARIABLES
    state,     \* Prog.state; "none" before newprog, "dead" after delprog
    runq,      \* isched.runhd ... runtl; the head is the running process
    chan,      \* Channel.send, Channel.recv and the values in Channel.buf
    cap,       \* Channel.buf.len, 0 if buf is H
    want,      \* Prog.chan or the Alt in Prog.R.s of a waiting process
    ptr,       \* what Prog.ptr points to while its process waits to send, else Nil
    kill,      \* Prog.kill is set: the process dies when it next executes
    group,     \* Prog.group, named by its first member; Nil if none
    gkilled,   \* groups with Pkilled set
    doing,     \* a release in the middle of exit, kill or killgrp
    reused,    \* history: groups made where a killer knows a group that is gone
    ahead, sent, rcvd   \* history, see Rendezvous

procvars == <<state, runq, want, ptr, kill>>
chanvars == <<chan, cap>>
grpvars  == <<group, gkilled, doing, reused>>
history  == <<ahead, sent, rcvd>>
vars == <<state, runq, chan, cap, want, ptr, kill, group, gkilled, doing,
          reused, ahead, sent, rcvd>>

\* What a process that released the interpreter has still to do: delete
\* victim; for killgrp, clear the flag of g after killing those in todo.
Idle == [op |-> "none", victim |-> Nil, todo |-> {}, g |-> Nil]

Init ==
    /\ state = [p \in Progs |-> IF p = First THEN "ready" ELSE "none"]
    /\ runq = <<First>>
    /\ chan = [c \in Chans |-> [send |-> <<>>, recv |-> <<>>, buf |-> <<>>]]
    /\ cap = Slots
    /\ want = [p \in Progs |-> Nothing]
    /\ ptr = [p \in Progs |-> Nil]
    /\ kill = [p \in Progs |-> FALSE]
    /\ group = [p \in Progs |-> IF p = First THEN First ELSE Nil]
    /\ gkilled = {}
    /\ doing = [p \in Progs |-> Idle]
    /\ reused = {}
    /\ ahead = [p \in Progs |-> {}]
    /\ sent = [c \in Chans |-> <<>>]
    /\ rcvd = [c \in Chans |-> <<>>]

----------------------------------------------------------------------------
(* Queues of processes *)

\* Mutant of altmark: the newest process comes first.
altmark_in_front(ch, a, p) ==
    [c \in Chans |->
       [ch[c] EXCEPT !.recv = IF c \in a.r THEN <<p>> \o @ ELSE @,
                     !.send = IF c \in a.s THEN <<p>> \o @ ELSE @]]

\* altrdy: p joins the queue of every channel of its alt.
altmark(ch, a, p) ==
    [c \in Chans |->
       [ch[c] EXCEPT !.recv = IF c \in a.r THEN Append(@, p) ELSE @,
                     !.send = IF c \in a.s THEN Append(@, p) ELSE @]]

\* Mutant of altdone: the sends of the alt stay marked.
altdone_sends_left(ch, a, p) ==
    [c \in Chans |-> [ch[c] EXCEPT !.recv = IF c \in a.r THEN Without(@, p) ELSE @]]

\* altdone: p leaves those queues; also cqdelp of a plain send or receive.
altdone(ch, a, p) ==
    [c \in Chans |->
       [ch[c] EXCEPT !.recv = IF c \in a.r THEN Without(@, p) ELSE @,
                     !.send = IF c \in a.s THEN Without(@, p) ELSE @]]

\* The running process executes program text.
Running(p) ==
    /\ runq # <<>>
    /\ p = Head(runq)
    /\ ~kill[p]
    /\ doing[p].op = "none"

Waiting == {p \in Progs : want[p] # Nothing}

\* addrun of a process whose wait on a channel is over.
addrun(q) ==
    /\ state' = [state EXCEPT ![q] = "ready"]
    /\ runq' = Append(runq, q)
    /\ want' = [want EXCEPT ![q] = Nothing]
    /\ ptr' = [ptr EXCEPT ![q] = Nil]
    /\ ahead' = [p \in Progs |-> IF p = q THEN {} ELSE ahead[p] \ {q}]

----------------------------------------------------------------------------
(* Channels *)

CanPut(c) == Len(chan[c].buf) < cap[c]
CanGet(c) == chan[c].buf # <<>>

\* Mutant of isend: a waiting receiver is passed over if there is a buffer.
isend_buffer_first(ch, a, p, c, v) ==
    /\ sent' = [sent EXCEPT ![c] = Append(@, v)]
    /\ IF ch[c].recv # <<>> /\ ~CanPut(c)
       THEN LET q == Head(ch[c].recv) IN
              /\ chan' = altdone(altdone(ch, want[q], q), a, p)
              /\ rcvd' = [rcvd EXCEPT ![c] = Append(@, v)]
              /\ addrun(q)
       ELSE /\ chan' = altdone([ch EXCEPT ![c].buf = Append(@, v)], a, p)
            /\ UNCHANGED <<state, runq, want, ptr, ahead, rcvd>>
    /\ UNCHANGED kill

\* isend when it need not wait.  ch is chan with the marks of p's own alt a,
\* which are removed afterwards.
isend(ch, a, p, c, v) ==
    /\ sent' = [sent EXCEPT ![c] = Append(@, v)]
    /\ IF ch[c].recv # <<>>
       THEN LET q == Head(ch[c].recv) IN
              /\ chan' = altdone(altdone(ch, want[q], q), a, p)
              /\ rcvd' = [rcvd EXCEPT ![c] = Append(@, v)]
              /\ addrun(q)
       ELSE /\ chan' = altdone([ch EXCEPT ![c].buf = Append(@, v)], a, p)
            /\ UNCHANGED <<state, runq, want, ptr, ahead, rcvd>>
    /\ UNCHANGED kill

\* irecv when it need not wait: from the sender at the head of the queue,
\* whose value goes through the buffer if there is one, or from the buffer.
irecv(ch, a, p, c) ==
    /\ IF ch[c].send # <<>>
       THEN LET q == Head(ch[c].send)
                b == ch[c].buf
            IN  /\ chan' = altdone(altdone([ch EXCEPT ![c].buf =
                               IF cap[c] > 0 THEN Append(Tail(b), ptr[q]) ELSE b],
                               want[q], q), a, p)
                /\ rcvd' = [rcvd EXCEPT ![c] =
                               Append(@, IF cap[c] > 0 THEN Head(b) ELSE ptr[q])]
                /\ sent' = [sent EXCEPT ![c] = Append(@, ptr[q])]
                /\ addrun(q)
       ELSE /\ chan' = altdone([ch EXCEPT ![c].buf = Tail(@)], a, p)
            /\ rcvd' = [rcvd EXCEPT ![c] = Append(@, Head(ch[c].buf))]
            /\ UNCHANGED <<state, runq, want, ptr, ahead, sent>>
    /\ UNCHANGED kill

\* delrun: the running process waits for a, with the marks in ch.
Block(p, a, ch, how, v) ==
    /\ state' = [state EXCEPT ![p] = how]
    /\ runq' = Tail(runq)
    /\ want' = [want EXCEPT ![p] = a]
    /\ ptr' = [ptr EXCEPT ![p] = IF a.s = {} THEN Nil ELSE v]
    /\ chan' = ch
    /\ ahead' = [ahead EXCEPT ![p] = Waiting]
    /\ UNCHANGED <<kill, sent, rcvd>>

\* The bound on messages, for what p sends and for a send p completes.
Bounded == Cardinality(UNION {{c} \X DOMAIN sent[c] : c \in Chans}) < MaxMsgs

\* The send and recv instructions.
Send(p, c, v) ==
    LET a == [s |-> {c}, r |-> {}] IN
    /\ Running(p)
    /\ Bounded
    /\ IF chan[c].recv # <<>> \/ CanPut(c)
       THEN isend(chan, Nothing, p, c, v)
       ELSE Block(p, a, altmark(chan, a, p), "send", v)
    /\ UNCHANGED <<cap, grpvars>>

Recv(p, c) ==
    LET a == [s |-> {}, r |-> {c}] IN
    /\ Running(p)
    /\ Bounded
    /\ IF chan[c].send # <<>> \/ CanGet(c)
       THEN irecv(chan, Nothing, p, c)
       ELSE Block(p, a, altmark(chan, a, p), "recv", Nil)
    /\ UNCHANGED <<cap, grpvars>>

\* altrdy, pass 1: the channels that can communicate.  The receives of p are
\* marked when its sends are looked at.
Marked(a, p) == altmark(chan, a, p)
ReadyRecvs(a) == {c \in a.r : chan[c].send # <<>> \/ CanGet(c)}
ReadySends(a, p) == {c \in a.s : Marked(a, p)[c].recv # <<>> \/ CanPut(c)}

\* altrdy: p would send to itself (exAlt).
Itself(a, p) == \E c \in a.s : Marked(a, p)[c].recv # <<>> /\ Head(Marked(a, p)[c].recv) = p

\* The alt and nbalt instructions (xecalt).  exAlt is caught, or the process
\* is broken by it.
xecalt(p, a, v, block) ==
    /\ Running(p)
    /\ Bounded
    /\ \/ /\ Itself(a, p)
          /\ chan' = altdone(Marked(a, p), a, p)
          /\ \/ UNCHANGED <<state, runq>>
             \/ /\ state' = [state EXCEPT ![p] = "broken"]
                /\ runq' = Tail(runq)
          /\ UNCHANGED <<want, ptr, kill, history>>
       \/ /\ ~Itself(a, p)
          /\ \/ \E c \in ReadySends(a, p) : isend(Marked(a, p), a, p, c, v)
             \/ \E c \in ReadyRecvs(a) : irecv(Marked(a, p), a, p, c)
       \/ /\ ~Itself(a, p) /\ ReadySends(a, p) = {} /\ ReadyRecvs(a) = {}
          /\ IF block
             THEN Block(p, a, Marked(a, p), "alt", v)
             ELSE /\ chan' = altdone(Marked(a, p), a, p)
                  /\ UNCHANGED <<procvars, history>>
    /\ UNCHANGED <<cap, grpvars>>

\* csendalt, with which Tk sends to a program: it never waits, and gives a
\* synchronous channel a buffer when nobody receives.  A full buffer loses
\* the value.
csendalt(p, c, v) ==
    /\ Running(p)
    /\ Bounded
    /\ \/ /\ chan[c].recv # <<>> \/ CanPut(c)
          /\ isend(chan, Nothing, p, c, v)
          /\ UNCHANGED cap
       \/ /\ chan[c].recv = <<>> /\ cap[c] = 0
          /\ cap' = [cap EXCEPT ![c] = Room]
          /\ isend(chan, Nothing, p, c, v)
       \/ /\ chan[c].recv = <<>> /\ cap[c] > 0 /\ ~CanPut(c)
          /\ UNCHANGED <<procvars, chanvars, history>>
    /\ UNCHANGED grpvars

----------------------------------------------------------------------------
(* Scheduling, groups and kill *)

\* The running process is in the middle of a call that keeps the interpreter.
Busy == runq # <<>> /\ doing[Head(runq)].op # "none"

\* vmachine: the quantum is over and somebody else is ready.
Rotate ==
    /\ ~Busy
    /\ Len(runq) > 1
    /\ runq' = Append(Tail(runq), Head(runq))
    /\ UNCHANGED <<state, chan, cap, want, ptr, kill, grpvars, history>>

\* newprog, addgrp: p spawns n, unless its group is being killed: then p
\* itself gets an error and dies.
newprog(p, n) ==
    /\ Running(p)
    /\ \/ /\ group[p] \in gkilled
          /\ kill' = [kill EXCEPT ![p] = TRUE]
          /\ UNCHANGED <<state, runq, group>>
       \/ /\ group[p] \notin gkilled
          /\ state[n] = "none"
          /\ state' = [state EXCEPT ![n] = "ready"]
          /\ runq' = Append(runq, n)
          /\ group' = [group EXCEPT ![n] = group[p]]
          /\ UNCHANGED kill
    /\ UNCHANGED <<chan, cap, want, ptr, gkilled, doing, reused, history>>

\* delgrp frees a group with its last member.  Known are the groups of killers.
Members(g) == {q \in Progs : group[q] = g}
Freed(g) == Members(g) = {}
Known == {doing[x].g : x \in {y \in Progs : doing[y].op \in {"killgrp", "wait"}}}

\* newgrp, by pctl(NEWPGRP): p leads a group of its own, which malloc may put
\* where a killer still expects a group that delgrp has freed.
newgrp(p) ==
    /\ Running(p)
    /\ group[p] # p
    /\ group' = [group EXCEPT ![p] = p]
    /\ \E old \in {p} \cup {g \in Known : Freed(g)} :
         /\ doing' = [x \in Progs |-> IF doing[x].g = old THEN [doing[x] EXCEPT !.g = p]
                                     ELSE doing[x]]
         /\ gkilled' = gkilled \ {old}
         /\ reused' = IF old = p THEN reused ELSE reused \cup {p}
    /\ UNCHANGED <<procvars, chanvars, history>>

\* release and acquire around a call that blocks.
release(p, d) ==
    /\ state' = [state EXCEPT ![p] = "release"]
    /\ runq' = Tail(runq)
    /\ doing' = [doing EXCEPT ![p] = d]

Syscall(p) ==
    /\ Running(p)
    /\ release(p, [Idle EXCEPT !.op = "call"])
    /\ UNCHANGED <<chan, cap, want, ptr, kill, group, gkilled, reused, history>>

\* progexit: the running process has ended or was killed; delprog releases
\* the interpreter before the process is taken off the lists.
progexit(p) ==
    /\ runq # <<>> /\ p = Head(runq)
    /\ doing[p].op = "none"
    /\ release(p, [Idle EXCEPT !.op = "exit", !.victim = p])
    /\ UNCHANGED <<chan, cap, want, ptr, kill, group, gkilled, reused, history>>

\* acquire: p runs again and completes the deletion it was in.
acquire(p) ==
    /\ state[p] = "release"
    /\ ~Busy
    /\ LET v == doing[p].victim IN
         /\ state' = [q \in Progs |-> IF q = v THEN "dead"
                                      ELSE IF q = p THEN "ready" ELSE state[q]]
         /\ group' = [q \in Progs |-> IF q = v THEN Nil ELSE group[q]]
         /\ runq' = IF v = p THEN runq ELSE <<p>> \o runq
    /\ doing' = [doing EXCEPT ![p] = IF @.op \in {"killgrp", "wait"}
                                     THEN [@ EXCEPT !.victim = Nil] ELSE Idle]
    /\ UNCHANGED <<chan, cap, want, ptr, kill, gkilled, reused, history>>

\* Mutant of killprog: a process without the interpreter is left alone.
killprog_released_spared(p, q, d) ==
    /\ doing' = [doing EXCEPT ![p] = d]
    /\ UNCHANGED <<procvars, chanvars, group, gkilled, reused, history>>

\* killprog of q by the running process p.  A process without the interpreter
\* is told to die; one that waits or is ready is taken out of every queue and
\* deleted, for which the interpreter is released; d is what p does then.
killprog(p, q, d) ==
    \/ /\ q = p \/ state[q] = "release"
       /\ kill' = [kill EXCEPT ![q] = TRUE]
       /\ doing' = [doing EXCEPT ![p] = d]
       /\ UNCHANGED <<state, runq, chan, cap, want, ptr, group, gkilled, reused, history>>
    \/ /\ q # p /\ state[q] \in {"exiting", "dead"}
       /\ doing' = [doing EXCEPT ![p] = d]
       /\ UNCHANGED <<procvars, chanvars, group, gkilled, reused, history>>
    \/ /\ q # p /\ state[q] \in {"ready", "send", "recv", "alt", "broken"}
       /\ chan' = altdone(chan, want[q], q)
       /\ state' = [state EXCEPT ![q] = "exiting", ![p] = "release"]
       /\ runq' = Without(Tail(runq), q)
       /\ want' = [want EXCEPT ![q] = Nothing]
       /\ ptr' = [ptr EXCEPT ![q] = Nil]
       /\ ahead' = [x \in Progs |-> IF x = q THEN {} ELSE ahead[x] \ {q}]
       /\ doing' = [doing EXCEPT ![p] = [d EXCEPT !.victim = q]]
       /\ UNCHANGED <<cap, kill, group, gkilled, reused, sent, rcvd>>

\* A pid names a process until it has been deleted.
Exists(q) == state[q] \notin {"none", "dead"}

Kill(p, q) ==
    /\ Running(p)
    /\ Exists(q)
    /\ killprog(p, q, IF q # p /\ state[q] \in {"ready", "send", "recv", "alt", "broken"}
                      THEN [Idle EXCEPT !.op = "kill"] ELSE Idle)

\* killgrp of q's group g by p, a process or the ctl file of one.  While
\* somebody else kills g, p waits; the pids are those of the moment.
killgrp(p, q) ==
    LET g == group[q] IN
    /\ Running(p)
    /\ g # Nil
    /\ \/ /\ g \notin gkilled
          /\ gkilled' = gkilled \cup {g}
          /\ doing' = [doing EXCEPT ![p] = [Idle EXCEPT !.op = "killgrp", !.g = g,
                                                        !.todo = Members(g) \ {p}]]
          /\ UNCHANGED <<state, runq>>
       \/ /\ g \in gkilled
          /\ release(p, [Idle EXCEPT !.op = "wait", !.g = g])
          /\ UNCHANGED gkilled
    /\ UNCHANGED <<chan, cap, want, ptr, kill, group, reused, history>>

\* A waiting killgrp looks again.  If p is no member the group may have been
\* freed: the flag may then read as anything, and the list is taken as empty.
killgrp_again(p) ==
    LET g == doing[p].g IN
    /\ runq # <<>> /\ p = Head(runq)
    /\ doing[p].op = "wait"
    /\ \/ /\ g \in gkilled \/ Freed(g)
          /\ release(p, doing[p])
          /\ UNCHANGED gkilled
       \/ /\ g \notin gkilled \/ Freed(g)
          /\ gkilled' = gkilled \cup {g}
          /\ doing' = [doing EXCEPT ![p] = [@ EXCEPT !.op = "killgrp",
                                                    !.todo = Members(g) \ {p}]]
          /\ UNCHANGED <<state, runq>>
    /\ UNCHANGED <<chan, cap, want, ptr, kill, group, reused, history>>

\* The loop of killgrp: kill the next pid that still names a process (the
\* order of the group's list is left open), and clear the flag at the end.
killgrp_next(p) ==
    /\ runq # <<>> /\ p = Head(runq)
    /\ doing[p].op = "killgrp"
    /\ \E f \in doing[p].todo :
         LET d == [doing[p] EXCEPT !.todo = @ \ {f}] IN
         IF Exists(f) THEN killprog(p, f, d)
         ELSE /\ doing' = [doing EXCEPT ![p] = d]
              /\ UNCHANGED <<procvars, chanvars, group, gkilled, reused, history>>

killgrp_end(p) ==
    /\ runq # <<>> /\ p = Head(runq)
    /\ doing[p].op = "killgrp" /\ doing[p].todo = {}
    /\ gkilled' = gkilled \ {doing[p].g}
    /\ doing' = [doing EXCEPT ![p] = Idle]
    /\ UNCHANGED <<procvars, chanvars, group, reused, history>>

----------------------------------------------------------------------------
Next ==
    \/ \E p \in Progs, c \in Chans :
         \/ Recv(p, c)
         \/ \E v \in Vals : Send(p, c, v) \/ csendalt(p, c, v)
    \/ \E p \in Progs, a \in Alts, v \in Vals, block \in BOOLEAN : xecalt(p, a, v, block)
    \/ \E p, q \in Progs : newprog(p, q) \/ Kill(p, q) \/ killgrp(p, q)
    \/ \E p \in Progs :
         \/ newgrp(p) \/ Syscall(p) \/ progexit(p) \/ acquire(p)
         \/ killgrp_again(p) \/ killgrp_next(p) \/ killgrp_end(p)
    \/ Rotate

Spec == Init /\ [][Next]_vars

----------------------------------------------------------------------------
(* Properties *)

\* Every variable has its type, and a buffer holds no more than its slots
\* (cputb).
TypeOK ==
    /\ state \in [Progs -> {"none", "ready", "send", "recv", "alt", "release",
                            "broken", "exiting", "dead"}]
    /\ runq \in Seq(Progs)
    /\ chan \in [Chans -> [send : Seq(Progs), recv : Seq(Progs), buf : Seq(Vals)]]
    /\ cap \in [Chans -> Nat]
    /\ \A c \in Chans : Len(chan[c].buf) <= cap[c]
    /\ want \in [Progs -> Offers]
    /\ ptr \in [Progs -> Vals \cup {Nil}]
    /\ kill \in [Progs -> BOOLEAN]
    /\ group \in [Progs -> Progs \cup {Nil}]
    /\ gkilled \in SUBSET Progs
    /\ doing \in [Progs -> [op : {"none", "call", "exit", "kill", "killgrp", "wait"},
                            victim : Progs \cup {Nil}, todo : SUBSET Progs,
                            g : Progs \cup {Nil}]]
    /\ reused \in SUBSET Progs
    /\ ahead \in [Progs -> SUBSET Progs]
    /\ sent \in [Chans -> Seq(Vals)]
    /\ rcvd \in [Chans -> Seq(Vals)]

\* A queue holds the processes of S, each once, in the order they began to
\* wait.
Lists(q, S) ==
    /\ Len(q) = Cardinality(S)
    /\ {q[i] : i \in 1..Len(q)} = S
    /\ \A i, j \in 1..Len(q) : i < j => q[i] \in ahead[q[j]]

\* The queues of a channel hold exactly the processes that wait for it: no
\* alt leaves a mark behind on a channel it did not choose, no killed process
\* stays where a partner would find it, and nobody overtakes (altdone, cqdelp,
\* killprog).
QueuesMatch ==
    \A c \in Chans :
      /\ Lists(chan[c].send, {p \in Progs : c \in want[p].s})
      /\ Lists(chan[c].recv, {p \in Progs : c \in want[p].r})

\* A process is on the run queue, once, exactly if it is ready, and waits for
\* something exactly if it is in one of the blocked states (delrun, addrun,
\* delrunq, release, acquire).
RunqMatches ==
    /\ \A i, j \in 1..Len(runq) : runq[i] = runq[j] => i = j
    /\ {runq[i] : i \in 1..Len(runq)} = {p \in Progs : state[p] = "ready"}
    /\ \A p \in Progs : want[p] # Nothing <=> state[p] \in {"send", "recv", "alt"}

\* Nobody waits for a partner who is there: a channel has not both senders and
\* receivers waiting, none receives while the buffer holds a value, none sends
\* while there is room, unless csendalt gave the channel its buffer after the
\* sender began to wait; then the buffer holds a value at least.
NoMissedRendezvous ==
    \A c \in Chans :
      /\ chan[c].recv # <<>> => chan[c].send = <<>> /\ chan[c].buf = <<>>
      /\ chan[c].send # <<>> /\ cap[c] > 0 =>
           /\ chan[c].buf # <<>>
           /\ Slots[c] > 0 => Len(chan[c].buf) = cap[c]

\* Every value whose send is complete is received, once and in the order of
\* the sends, or is still in the buffer (cputb, cgetb, irecv's exchange with a
\* waiting sender, csendalt's new buffer).
InOrder == \A c \in Chans : sent[c] = rcvd[c] \o chan[c].buf

\* The state between two instructions: types, queues, run queue and buffers.
Consistent == TypeOK /\ QueuesMatch /\ RunqMatches /\ InOrder

\* When killgrp returns, nobody of the group is left who will execute again:
\* not even a process spawned while killgrp waited for the interpreter.  This is
\* not claimed of a group that took the place of one that a killer from outside
\* still knew: that killer clears the flag of the new group, or kills it.
Doomed(q) == kill[q] \/ state[q] \in {"exiting", "dead"} \/ doing[q].op = "exit"
KillgrpComplete ==
    [][\A p \in Progs :
         doing[p].op = "killgrp" /\ doing'[p].op = "none" /\ doing[p].g \notin reused =>
           \A q \in Members(doing[p].g) \ {p} : Doomed(q)]_vars

\* What the processes see of channels is what Limbo promises (Rendezvous).
Abs == INSTANCE Rendezvous
         WITH want <- want, ahead <- ahead, ptr <- ptr, cap <- cap,
              sent <- sent, rcvd <- rcvd
RendezvousSpec == Abs!Spec

=============================================================================
