------------------------------- MODULE DevSrv -------------------------------
(***************************************************************************)
(* A file made by file2chan, on which every server of aimsgui is built: the *)
(* device #s (emu/port/devsrv.c) with csend, crecv and ccom (inferno.c),    *)
(* cblock and killcomm (dis.c).                                             *)
(*                                                                          *)
(* Clients open the file, read and write it and close it; each request goes *)
(* through the buffered channel of its direction to the server, which       *)
(* answers on the channel the request carries, in any order, and may vanish *)
(* at any time.  One action is what a thread does between acquire and       *)
(* release of the interpreter; what is also under dev.l excludes the other  *)
(* sections under dev.l.  A client is one open file, with its own fid.      *)
(***************************************************************************)
EXTENDS Progq, FiniteSets

CONSTANTS
    Clients,
    Slots,     \* buffer slots of the two channels, 16 in Sys_file2chan
    MaxReqs,   \* bound: requests of a client
    Intr,      \* the error of an interrupted request
    File,      \* the head of the waiting list, SrvFile.waitlist
    Nil

Dirs == {"read", "write"}
Nodes == Clients \cup {File}   \* what Pending.next and Pending.prev point to
Hungup == 0   \* the error reply of srvcancelreqs; others carry a request's number

ASSUME DevSrvAssumption ==
    /\ Slots \in Nat \ {0}
    /\ MaxReqs \in Nat
    /\ Nil \notin Nat /\ Intr \notin Nat \cup {Nil}
    /\ IsFiniteSet(Clients) /\ File \notin Clients

VARIABLES
    pc,        \* of a client, see Places
    n,         \* number of its latest request
    ans,       \* what that request got: a number, Hungup, Intr, or Nil
    rcbuf,     \* the buffer of that request's reply channel, one slot
    next,      \* the links of the waiting list: Pending.next and Pending.prev,
    prev,      \* in the head and in each client's call of srvread
    buf,       \* the buffers of SrvFile.read and SrvFile.write
    sendq,     \* clients blocked on them
    isopen,    \* SrvFile.read # H, SrvFile.write # H
    entry,     \* the file is in its directory: ~SREMOVED
    ref,       \* SrvFile.ref
    freed,     \* srvchkref has freed the file
    held,      \* requests the server has received and not answered
    srv,       \* of the server: "run", or how far its channels are destroyed
    passed     \* history: clients that the end of the server passed over

vars == <<pc, n, ans, rcbuf, next, prev, buf, sendq, isopen, entry, ref, freed,
          held, srv, passed>>

filevars == <<isopen, entry, ref, freed>>
links == <<next, prev>>

\* A client has not found the file, has found it, is between requests, blocked in csend
\* (before and in Sleep), taken off the queue but without the interpreter,
\* waiting for the reply, woken by it, or has closed the file.
Places == {"new", "walked", "idle", "block", "blocked", "sent", "await", "answered", "closed"}
Pending == {"block", "blocked", "sent", "await", "answered"}

\* srvf2c: one reference for the directory and one for the channels.
Init ==
    /\ pc = [c \in Clients |-> "new"]
    /\ n = [c \in Clients |-> 0]
    /\ ans = [c \in Clients |-> Nil]
    /\ rcbuf = [c \in Clients |-> Nil]
    /\ next = [x \in Nodes |-> File]
    /\ prev = [x \in Nodes |-> File]
    /\ buf = [d \in Dirs |-> <<>>]
    /\ sendq = [d \in Dirs |-> <<>>]
    /\ isopen = [d \in Dirs |-> TRUE]
    /\ entry = TRUE
    /\ ref = 2
    /\ freed = FALSE
    /\ held = {}
    /\ srv = "run"
    /\ passed = {}

Go(c, l) == pc' = [pc EXCEPT ![c] = l]

\* addwaiting of the source: w goes before the head, that is to the end.
link(w) ==
    /\ next' = [next EXCEPT ![w] = File, ![prev[File]] = w]
    /\ prev' = [prev EXCEPT ![w] = prev[File], ![File] = w]

\* Mutant of unlink: one direction only.
unlink_next(w) == next' = [next EXCEPT ![prev[w]] = next[w]] /\ prev' = prev

\* delwaiting of the source: w's neighbours are joined, w's own links stay.
unlink(w) ==
    /\ prev' = [prev EXCEPT ![next[w]] = prev[w]]
    /\ next' = [next EXCEPT ![prev[w]] = next[w]]

\* The clients srvcancelreqs meets when it follows next from the head.
waitlist ==
    {c \in Clients :
       \A S \in SUBSET Nodes : File \in S /\ (\A x \in S : next[x] \in S) => c \in S}

\* A request carries its reply channel, named by the client and the request;
\* a close notice carries none.
Request(c) == [c |-> c, n |-> n[c] + 1]
Notice(c)  == [c |-> c, n |-> Nil]

----------------------------------------------------------------------------
(* Clients *)

\* srvwalk: a file that is in its directory gets a reference.
srvwalk(c) ==
    /\ pc[c] = "new"
    /\ entry
    /\ Go(c, "walked")
    /\ ref' = ref + 1
    /\ UNCHANGED <<n, ans, rcbuf, links, buf, sendq, isopen, entry, freed,
                   held, srv, passed>>

\* srvopen does not look whether the file is still there.
srvopen(c) ==
    /\ pc[c] = "walked"
    /\ Go(c, "idle")
    /\ UNCHANGED <<n, ans, rcbuf, links, buf, sendq, filevars, held, srv, passed>>

\* srvread, srvwrite: the request is refused, sent, or blocks in ccom.
srvread(c, d) ==
    /\ pc[c] = "idle"
    /\ n[c] < MaxReqs
    /\ n' = [n EXCEPT ![c] = @ + 1]
    /\ rcbuf' = [rcbuf EXCEPT ![c] = Nil]
    /\ \/ /\ ~isopen[d]
          /\ ans' = [ans EXCEPT ![c] = Hungup]
          /\ UNCHANGED <<pc, links, buf, sendq>>
       \/ /\ isopen[d] /\ Len(buf[d]) < Slots
          /\ buf' = [buf EXCEPT ![d] = Append(@, Request(c))]
          /\ link(c)
          /\ ans' = [ans EXCEPT ![c] = Nil]
          /\ Go(c, "await")
          /\ UNCHANGED sendq
       \/ /\ isopen[d] /\ Len(buf[d]) >= Slots
          /\ sendq' = [sendq EXCEPT ![d] = Append(@, c)]
          /\ ans' = [ans EXCEPT ![c] = Nil]
          /\ Go(c, "block")
          /\ UNCHANGED <<links, buf>>
    /\ UNCHANGED <<filevars, held, srv, passed>>

\* cblock: between release and Sleep there is a gap.
Sleep(c) ==
    /\ pc[c] = "block"
    /\ Go(c, "blocked")
    /\ UNCHANGED <<n, ans, rcbuf, links, buf, sendq, filevars, held, srv, passed>>

\* The rest of srvread once csend has returned: addwaiting and crecv, which
\* takes a reply that is already there (and the client leaves the list again).
addwaiting(c) ==
    /\ pc[c] = "sent"
    /\ \/ /\ rcbuf[c] = Nil
          /\ link(c)
          /\ Go(c, "await")
          /\ UNCHANGED <<ans, rcbuf>>
       \/ /\ rcbuf[c] # Nil
          /\ ans' = [ans EXCEPT ![c] = rcbuf[c]]
          /\ rcbuf' = [rcbuf EXCEPT ![c] = Nil]
          /\ Go(c, "idle")
          /\ next' = [next EXCEPT ![prev[File]] = File, ![c] = File]
          /\ prev' = [prev EXCEPT ![c] = prev[File]]
    /\ UNCHANGED <<n, buf, sendq, filevars, held, srv, passed>>

\* crecv returns: delwaiting, also where srvcancelreqs has unlinked the client
\* already.
delwaiting(c) ==
    /\ pc[c] = "answered"
    /\ unlink(c)
    /\ Go(c, "idle")
    /\ UNCHANGED <<n, ans, rcbuf, buf, sendq, filevars, held, srv, passed>>

\* The error path of srvread unlinks the client if csend has returned.
leavelist(c) == IF pc[c] \in {"await", "answered"} THEN unlink(c) ELSE UNCHANGED links

\* Mutant of interrupted: a blocked client stays on the channel's queue.
interrupted_still_queued(c) ==
    /\ pc[c] \in Pending
    /\ leavelist(c)
    /\ ans' = [ans EXCEPT ![c] = Intr]
    /\ Go(c, "idle")
    /\ UNCHANGED <<n, rcbuf, buf, sendq, filevars, held, srv, passed>>

\* The client is interrupted or killed (swiproc): the error paths of ccom and
\* srvread.  A request that was sent stays with the server.
interrupted(c) ==
    /\ pc[c] \in Pending
    /\ sendq' = [d \in Dirs |-> Without(sendq[d], c)]
    /\ leavelist(c)
    /\ ans' = [ans EXCEPT ![c] = Intr]
    /\ Go(c, "idle")
    /\ UNCHANGED <<n, rcbuf, buf, filevars, held, srv, passed>>

\* srvunblock: a notice for each channel that is there; csendalt drops it if
\* the buffer is full.
srvunblock(c) ==
    buf' = [d \in Dirs |-> IF isopen[d] /\ Len(buf[d]) < Slots
                           THEN Append(buf[d], Notice(c)) ELSE buf[d]]

\* srvclunk: the client closes the file, or removes it; the server hears of
\* it if the file was open.
srvclunk(c, remove) ==
    /\ pc[c] \in {"walked", "idle"}
    /\ IF pc[c] = "idle" THEN srvunblock(c) ELSE UNCHANGED buf
    /\ Go(c, "closed")
    /\ entry' = (entry /\ ~remove)
    /\ ref' = IF entry /\ remove THEN ref - 2 ELSE ref - 1
    /\ freed' = (freed \/ ref' = 0)
    /\ UNCHANGED <<n, ans, rcbuf, links, sendq, isopen, held, srv, passed>>

----------------------------------------------------------------------------
(* The server *)

\* The server receives on d.  The first blocked client's request goes into
\* the slot, and the client is woken.
Receive(d) ==
    /\ srv = "run"
    /\ buf[d] # <<>>
    /\ held' = IF Head(buf[d]).n = Nil THEN held ELSE held \cup {Head(buf[d])}
    /\ \/ /\ sendq[d] = <<>>
          /\ buf' = [buf EXCEPT ![d] = Tail(@)]
          /\ UNCHANGED <<sendq, pc>>
       \/ /\ sendq[d] # <<>>
          /\ buf' = [buf EXCEPT ![d] = Append(Tail(@), [c |-> Head(sendq[d]), n |-> n[Head(sendq[d])]])]
          /\ sendq' = [sendq EXCEPT ![d] = Tail(@)]
          /\ Go(Head(sendq[d]), "sent")
    /\ UNCHANGED <<n, ans, rcbuf, links, filevars, srv, passed>>

\* Mutant of ReplyTo: replies find the client by its fid.
ReplyTo_fid(r) == pc[r.c] \in Pending

\* The reply channel of r is the one its client uses now.
ReplyTo(r) == r.n = n[r.c] /\ pc[r.c] \in Pending

\* The server answers r: to the waiting client, or into the buffer of a reply
\* channel whose client is not there yet; nobody is left to read an abandoned
\* one.
Reply(r) ==
    /\ srv = "run"
    /\ r \in held
    /\ held' = held \ {r}
    /\ \/ /\ ReplyTo(r) /\ pc[r.c] = "await"
          /\ ans' = [ans EXCEPT ![r.c] = r.n]
          /\ Go(r.c, "answered")
          /\ UNCHANGED rcbuf
       \/ /\ ReplyTo(r) /\ pc[r.c] # "await"
          /\ rcbuf' = [rcbuf EXCEPT ![r.c] = r.n]
          /\ UNCHANGED <<ans, pc>>
       \/ /\ ~ReplyTo(r)
          /\ UNCHANGED <<ans, pc, rcbuf>>
    /\ UNCHANGED <<n, links, buf, sendq, filevars, srv, passed>>

\* The server's frame is destroyed, and with it the last reference to the
\* channels, the read channel first.
Vanish ==
    /\ srv = "run"
    /\ srv' = "free_read"
    /\ held' = {}
    /\ UNCHANGED <<pc, n, ans, rcbuf, links, buf, sendq, filevars, passed>>

\* srvcancelreqs: the first of the list is unlinked and gets an error, until the
\* list is empty.  Those that were unlinked keep their next, and the head as prev.
\* One that has been answered already does not look at the error any more.
srvcancelreqs ==
    /\ pc' = [c \in Clients |-> IF c \in waitlist THEN "answered" ELSE pc[c]]
    /\ ans' = [c \in Clients |-> IF c \in waitlist /\ pc[c] = "await" THEN Hungup ELSE ans[c]]
    /\ next' = [next EXCEPT ![File] = File]
    /\ prev' = [x \in Nodes |-> IF x \in waitlist \cup {File} THEN File ELSE prev[x]]
    /\ passed' = passed \cup {c \in Clients : pc[c] = "sent" /\ rcbuf[c] = Nil}

\* Mutant of srvfree: every channel gives up a reference.
srvfree_each(d) ==
    /\ isopen' = [isopen EXCEPT ![d] = FALSE]
    /\ entry' = FALSE
    /\ ref' = ref - 1 - (IF entry THEN 1 ELSE 0)
    /\ freed' = (freed \/ ref' = 0)
    /\ IF d = "read" THEN UNCHANGED <<pc, ans, links, passed>> ELSE srvcancelreqs

\* Mutant of srvfree: the requests are not cancelled.
srvfree_no_cancel(d) ==
    /\ isopen' = [isopen EXCEPT ![d] = FALSE]
    /\ IF isopen'["read"] \/ isopen'["write"]
       THEN UNCHANGED <<entry, ref, freed>>
       ELSE /\ entry' = FALSE
            /\ ref' = ref - 1 - (IF entry THEN 1 ELSE 0)
            /\ freed' = (freed \/ ref' = 0)
    /\ UNCHANGED <<pc, ans, links, passed>>

\* srvfree: with its second channel gone the file leaves its directory, the
\* requests are cancelled and the channels' reference is given up.
srvfree(d) ==
    /\ isopen' = [isopen EXCEPT ![d] = FALSE]
    /\ IF isopen'["read"] \/ isopen'["write"]
       THEN UNCHANGED <<entry, ref, freed, pc, ans, links, passed>>
       ELSE /\ entry' = FALSE
            /\ ref' = ref - 1 - (IF entry THEN 1 ELSE 0)
            /\ freed' = (freed \/ ref' = 0)
            /\ srvcancelreqs

\* freerdchan, freewrchan.
freechan(d) ==
    /\ srv = IF d = "read" THEN "free_read" ELSE "free_write"
    /\ srv' = IF d = "read" THEN "kill_read" ELSE "kill_write"
    /\ srvfree(d)
    /\ UNCHANGED <<n, rcbuf, buf, sendq, held>>

\* freechan of libinterp: the buffer is lost and killcomm interrupts the
\* clients that block on the channel.  swiproc does not find one that has not
\* reached Sleep.
killcomm(d) ==
    /\ srv = IF d = "read" THEN "kill_read" ELSE "kill_write"
    /\ srv' = IF d = "read" THEN "free_write" ELSE "gone"
    /\ LET waiting == {c \in Clients : \E i \in DOMAIN sendq[d] : sendq[d][i] = c}
           found == {c \in waiting : pc[c] = "blocked"}
       IN  /\ pc' = [c \in Clients |-> IF c \in found THEN "idle" ELSE pc[c]]
           /\ ans' = [c \in Clients |-> IF c \in found THEN Intr ELSE ans[c]]
           /\ passed' = passed \cup (waiting \ found)
    /\ sendq' = [sendq EXCEPT ![d] = <<>>]
    /\ buf' = [buf EXCEPT ![d] = <<>>]
    /\ UNCHANGED <<n, rcbuf, links, filevars, held>>

----------------------------------------------------------------------------
Next ==
    \/ \E c \in Clients :
         \/ srvwalk(c) \/ srvopen(c) \/ Sleep(c) \/ addwaiting(c) \/ delwaiting(c) \/ interrupted(c)
         \/ \E d \in Dirs : srvread(c, d)
         \/ \E remove \in BOOLEAN : srvclunk(c, remove)
    \/ \E d \in Dirs : Receive(d) \/ freechan(d) \/ killcomm(d)
    \/ \E r \in held : Reply(r)
    \/ Vanish

\* Threads that have the interpreter or wait for it go on.  The server takes
\* the requests of each channel and answers what it has, until it vanishes.
Fairness ==
    /\ \A c \in Clients : WF_vars(Sleep(c)) /\ WF_vars(addwaiting(c)) /\ WF_vars(delwaiting(c))
    /\ \A d \in Dirs : WF_vars(Receive(d)) /\ WF_vars(freechan(d)) /\ WF_vars(killcomm(d))
    /\ \A c \in Clients : WF_vars(\E r \in held : r.c = c /\ Reply(r))

Spec == Init /\ [][Next]_vars
FairSpec == Spec /\ Fairness

----------------------------------------------------------------------------
(* Properties *)

Messages == [c : Clients, n : 1..MaxReqs \cup {Nil}]

\* Every variable has its type, and no buffer holds more than its slots.
TypeOK ==
    /\ pc \in [Clients -> Places]
    /\ n \in [Clients -> 0..MaxReqs]
    /\ ans \in [Clients -> 0..MaxReqs \cup {Intr, Nil}]
    /\ rcbuf \in [Clients -> 1..MaxReqs \cup {Nil}]
    /\ next \in [Nodes -> Nodes] /\ prev \in [Nodes -> Nodes]
    /\ buf \in [Dirs -> Seq(Messages)] /\ \A d \in Dirs : Len(buf[d]) <= Slots
    /\ sendq \in [Dirs -> Seq(Clients)]
    /\ isopen \in [Dirs -> BOOLEAN]
    /\ entry \in BOOLEAN /\ ref \in Nat /\ freed \in BOOLEAN
    /\ held \subseteq Messages
    /\ srv \in {"run", "free_read", "kill_read", "free_write", "kill_write", "gone"}
    /\ passed \subseteq Clients

\* A read or write returns the server's answer to this very request, or an
\* error; the answer to a request that was interrupted never reaches a later
\* one (srvread makes a reply channel for every request).
RightAnswer == \A c \in Clients : ans[c] \in {Nil, Intr, Hungup, n[c]}

\* As long as srvcancelreqs may come, the list of pending requests is a ring in
\* both directions that holds exactly the clients that wait or have just been
\* woken, and none of them has a reply in its channel's one slot: srvcancelreqs,
\* which holds dev.l, comes round and never blocks.  (Every variable has its type.)
CancelNeverBlocks ==
    /\ TypeOK
    /\ (\E d \in Dirs : isopen[d]) =>
         /\ waitlist = {c \in Clients : pc[c] \in {"await", "answered"}}
         /\ \A c \in waitlist : rcbuf[c] = Nil
         /\ \A x \in waitlist \cup {File} : next[prev[x]] = x /\ prev[next[x]] = x

\* The file is freed exactly when nobody can use it: no client has it open and
\* the server's channels and the directory entry are gone (ref, srvchkref).
FreedInTime ==
    freed <=> /\ \A c \in Clients : pc[c] \in {"new", "closed"}
              /\ \A d \in Dirs : ~isopen[d]

\* On each channel the close notice is the last the server hears of a fid,
\* which another client may use afterwards.
LastWord ==
    \A c \in Clients, d \in Dirs :
      pc[c] = "closed" =>
        /\ \A i \in DOMAIN sendq[d] : sendq[d][i] # c
        /\ \A i, j \in DOMAIN buf[d] :
             i < j /\ buf[d][i] = Notice(c) => buf[d][j].c # c

\* Every read or write returns: the server answers it, or vanishes and the
\* client gets an error, unless the end of the server passed it over.
RequestEnds ==
    \A c \in Clients : pc[c] \in Pending ~> (pc[c] \notin Pending \/ c \in passed)
=============================================================================
