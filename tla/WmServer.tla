------------------------------ MODULE WmServer ------------------------------
(***************************************************************************)
(* lib/xwmsrv.b, wm: the process that owns the table of clients, together   *)
(* with the two sides it joins:                                             *)
(*                                                                          *)
(*   a client (wmlib.connect) opens /chan/wmctl, reads its token, sends the *)
(*   token on the wm channel, waits for the reply, and then writes requests *)
(*   until its connection closes;                                           *)
(*   the manager's main loop (rowwm.b) receives joins and requests.  What a *)
(*   request does is in RowWm; here it matters which channels it needs.     *)
(*                                                                          *)
(* Clients are connections, each with one open of the file.  The file has a *)
(* channel for reads and one for writes, each with a buffer (devsrv.c), and *)
(* wm knows a connection by its fid only, which the next connection may     *)
(* have as soon as the old one is closed (chan.c), though wm has yet to     *)
(* take the notice of that from the write channel.  A ref Client is named   *)
(* by the connection whose read made it.                                    *)
(***************************************************************************)
EXTENDS Progq, Integers, FiniteSets

CONSTANTS
    Clients,      \* connections
    Fids,         \* the fids of the Chans they get
    Nil,          \* the nil reference
    Slots,        \* buffer slots of the write channel, 16 in Sys_file2chan
    Grow,         \* by how much the table grows, 4 in the code
    EarlyDeath    \* clients may die before they ask to join

ASSUME ConstantsAssumption ==
    /\ Nil \notin Clients \cup Fids
    /\ Slots \in Nat \ {0}
    /\ Grow \in Nat \ {0}
    /\ EarlyDeath \in BOOLEAN

VARIABLES
    clients,   \* the table of wm
    id,        \* c.id
    fid,       \* of a connection, and so c.fid and c.token of the record it made
    proc,      \* what each client process is doing
    rec,       \* the record with which a client asked to join
    reads,     \* read requests that wm has yet to take, by client
    writes,    \* buffer of the write channel: data and close notices
    blocked,   \* writers that wait for room in it
    wm,        \* wm: [at |-> "alt", "join", "spawn", "req" or "leave", who, writer]
    mgr,       \* main loop: [at |-> "alt", "greet", "request", "image", "leave" or "broken", ..]
    minder,    \* childminders: "none", "reply", "run" or "exited"; c.stop is nil iff "none"
    members,   \* the clients the manager has taken in and not seen leaving
    late,      \* history: clients whose read overtook the notice of an earlier connection
    lost       \* history: records no notice will come for

table == <<clients, id>>
channel == <<reads, writes, blocked>>
history == <<late, lost>>
vars == <<table, fid, proc, rec, channel, wm, mgr, minder, members, history>>

At(where, c, w) == [at |-> where, who |-> c, writer |-> w]
Alt == At("alt", Nil, Nil)

Data(c) == [of |-> c, close |-> FALSE]
Notice(c) == [of |-> c, close |-> TRUE]

\* A connection has its fid until close is done with it.
Open(c) == proc[c] \notin {"new", "gone"}

Init ==
    /\ clients = <<>>
    /\ id = [c \in Clients |-> -1]
    /\ fid = [c \in Clients |-> Nil]
    /\ proc = [c \in Clients |-> "new"]
    /\ rec = [c \in Clients |-> Nil]
    /\ reads = {} /\ writes = <<>> /\ blocked = <<>>
    /\ wm = Alt /\ mgr = Alt
    /\ minder = [c \in Clients |-> "none"]
    /\ members = {}
    /\ late = {} /\ lost = {}

Registered(c) == \E i \in DOMAIN clients : clients[i] = c

\* findfid(clients, f), the only search for a fid and, as c.token = c.fid, a token.
findfid(f) ==
    IF \E c \in Clients : Registered(c) /\ fid[c] = f
    THEN LET first == CHOOSE i \in DOMAIN clients :
                        /\ clients[i] # Nil /\ fid[clients[i]] = f
                        /\ \A j \in 1..(i - 1) : clients[j] # Nil => fid[clients[j]] # f
         IN  clients[first]
    ELSE Nil

\* The notice of a connection with fid f waits to be taken.
Noticed(f) == \E i \in DOMAIN writes : writes[i].close /\ fid[writes[i].of] = f

\* Mutant of addclient: the first slot is always taken.
addclient_first_slot(tab, c) ==
    IF tab = <<>> THEN <<c>> \o [i \in 1..(Grow - 1) |-> Nil]
    ELSE [tab EXCEPT ![1] = c]

\* addclient: the first free slot, or the first one of a longer table.
addclient(tab, c) ==
    LET free == {i \in DOMAIN tab : tab[i] = Nil} IN
    IF free # {}
    THEN [tab EXCEPT ![CHOOSE i \in free : \A j \in free : i <= j] = c]
    ELSE tab \o <<c>> \o [i \in 1..(Grow - 1) |-> Nil]

\* delclient; slots are numbered from 0 in the code.
delclient(tab, i) == [tab EXCEPT ![i + 1] = Nil]

\* A childminder that receives on c.ctl, c.kbd, c.ptr and c.stop.
Listening(c) == minder[c] \in {"reply", "run"}

----------------------------------------------------------------------------
(* Clients *)

\* open: newchan takes any Chan that is free, or a new one.
Connect(c, f) ==
    /\ proc[c] = "new"
    /\ \A d \in Clients : Open(d) => fid[d] # f
    /\ fid' = [fid EXCEPT ![c] = f]
    /\ proc' = [proc EXCEPT ![c] = "open"]
    /\ UNCHANGED <<table, rec, channel, wm, mgr, minder, members, history>>

\* read: the request is on its way to wm.
ReadToken(c) ==
    /\ proc[c] = "open"
    /\ reads' = reads \cup {c}
    /\ proc' = [proc EXCEPT ![c] = "reading"]
    /\ UNCHANGED <<table, fid, rec, writes, blocked, wm, mgr, minder, members, history>>

\* write: into the buffer, or the writer waits for room.
WriteRequest(c) ==
    /\ proc[c] = "running"
    /\ IF Len(writes) < Slots
       THEN writes' = Append(writes, Data(c)) /\ UNCHANGED blocked
       ELSE blocked' = Append(blocked, c) /\ UNCHANGED writes
    /\ proc' = [proc EXCEPT ![c] = "writing"]
    /\ UNCHANGED <<table, fid, rec, reads, wm, mgr, minder, members, history>>

\* childminder answers the client.
Reply(c) ==
    /\ proc[c] = "asking" /\ minder[rec[c]] = "reply"
    /\ minder' = [minder EXCEPT ![rec[c]] = "run"]
    /\ proc' = [proc EXCEPT ![c] = "running"]
    /\ UNCHANGED <<table, fid, rec, channel, wm, mgr, members, history>>

\* The client dies, or gives up after a refusal.  A request that has not got
\* into a buffer dies with it.
Die(c) ==
    /\ \/ proc[c] \in {"asking", "running", "writing", "refused"}
       \/ EarlyDeath /\ proc[c] \in {"open", "reading", "token"}
    /\ proc' = [proc EXCEPT ![c] = "closing"]
    /\ blocked' = Without(blocked, c)
    /\ reads' \in {reads, reads \ {c}}
    /\ UNCHANGED <<table, fid, rec, writes, wm, mgr, minder, members, history>>

\* Its connection is closed: srvunblock's csendalt drops the notice if the
\* buffer is full.  Then chanfree gives the fid back.
Close(c) ==
    /\ proc[c] = "closing"
    /\ proc' = [proc EXCEPT ![c] = "gone"]
    /\ IF Len(writes) < Slots
       THEN writes' = Append(writes, Notice(c)) /\ UNCHANGED lost
       ELSE /\ lost' = lost \cup {r \in Clients : Registered(r) /\ fid[r] = fid[c]}
            /\ UNCHANGED writes
    /\ UNCHANGED <<table, fid, rec, reads, blocked, wm, mgr, minder, members, late>>

----------------------------------------------------------------------------
(* The alt of wm *)

\* <-ctlio.read: an unknown fid is entered in the table; the token is
\* answered to whoever still waits for it.
Read(c) ==
    /\ wm = Alt /\ c \in reads
    /\ reads' = reads \ {c}
    /\ IF findfid(fid[c]) # Nil THEN UNCHANGED <<table, lost>>
       ELSE /\ clients' = addclient(clients, c)
            /\ id' = [id EXCEPT ![c] =
                        (CHOOSE i \in DOMAIN clients' : clients'[i] = c) - 1]
            /\ lost' = IF Noticed(fid[c]) \/ \E d \in Clients : Open(d) /\ fid[d] = fid[c]
                       THEN lost ELSE lost \cup {c}
    /\ proc' = [proc EXCEPT ![c] = IF @ = "reading" THEN "token" ELSE @]
    /\ late' = IF Noticed(fid[c]) THEN late \cup {c} ELSE late
    /\ UNCHANGED <<fid, rec, writes, blocked, wm, mgr, minder, members>>

\* Mutant of Wmreq: a client already started is not refused.
Wmreq_again(c) ==
    /\ wm = Alt /\ proc[c] \in {"token", "running"}
    /\ IF findfid(fid[c]) = Nil
       THEN proc' = [proc EXCEPT ![c] = "refused"] /\ UNCHANGED <<rec, wm>>
       ELSE /\ proc' = [proc EXCEPT ![c] = "asking"]
            /\ rec' = [rec EXCEPT ![c] = findfid(fid[c])]
            /\ wm' = At("join", findfid(fid[c]), Nil)
    /\ UNCHANGED <<table, fid, channel, mgr, minder, members, history>>

\* <-wmreq: an unknown token or a client already started is refused.
Wmreq(c) ==
    /\ wm = Alt /\ proc[c] \in {"token", "running"}
    /\ IF findfid(fid[c]) = Nil \/ minder[findfid(fid[c])] # "none"
       THEN proc' = [proc EXCEPT ![c] = "refused"] /\ UNCHANGED <<rec, wm>>
       ELSE /\ proc' = [proc EXCEPT ![c] = "asking"]
            /\ rec' = [rec EXCEPT ![c] = findfid(fid[c])]
            /\ wm' = At("join", findfid(fid[c]), Nil)
    /\ UNCHANGED <<table, fid, channel, mgr, minder, members, history>>

\* The request of a known client goes to the manager, and its writer waits on
\* for the answer; a close notice has no reply channel.
Take(m, r) ==
    \/ /\ ~m.close /\ r = Nil              \* "must read first"
       /\ proc' = [proc EXCEPT ![m.of] = IF @ = "writing" THEN "running" ELSE @]
       /\ UNCHANGED wm
    \/ /\ ~m.close /\ r # Nil
       /\ wm' = At("req", r, m.of)
       /\ UNCHANGED proc
    \/ /\ m.close
       /\ wm' = IF r = Nil THEN wm ELSE At("leave", r, Nil)
       /\ UNCHANGED proc

\* <-ctlio.write: the first blocked writer gets the slot.
Write ==
    /\ wm = Alt /\ writes # <<>>
    /\ Take(Head(writes), findfid(fid[Head(writes).of]))
    /\ IF blocked = <<>>
       THEN writes' = Tail(writes) /\ UNCHANGED blocked
       ELSE writes' = Append(Tail(writes), Data(Head(blocked))) /\ blocked' = Tail(blocked)
    /\ UNCHANGED <<table, fid, rec, reads, mgr, minder, members, history>>

----------------------------------------------------------------------------
(* wm meets the manager *)

\* join <-= (c, ok); the manager answers nil at once.
Join ==
    /\ wm.at = "join" /\ mgr = Alt
    /\ wm' = At("spawn", wm.who, Nil)
    /\ mgr' = At("greet", wm.who, Nil)
    /\ members' = members \cup {wm.who}
    /\ UNCHANGED <<table, fid, proc, rec, channel, minder, history>>

\* Mutant of Spawn: no childminder is started.
Spawn_forgotten ==
    /\ wm.at = "spawn"
    /\ wm' = Alt
    /\ UNCHANGED <<table, fid, proc, rec, channel, mgr, minder, members, history>>

\* c.stop = chan of int; spawn childminder(c, rc)
Spawn ==
    /\ wm.at = "spawn"
    /\ minder' = [minder EXCEPT ![wm.who] = "reply"]
    /\ wm' = Alt
    /\ UNCHANGED <<table, fid, proc, rec, channel, mgr, members, history>>

\* req <-= (c, data, wc); some requests need c.images.
Req ==
    /\ wm.at = "req" /\ mgr = Alt
    /\ \E kind \in {"request", "image"} : mgr' = At(kind, wm.who, wm.writer)
    /\ wm' = Alt
    /\ UNCHANGED <<table, fid, proc, rec, channel, minder, members, history>>

\* req <-= (c, nil, nil); delclient(clients, c)
Leave ==
    /\ wm.at = "leave" /\ mgr = Alt
    /\ mgr' = At("leave", wm.who, Nil)
    /\ members' = members \ {wm.who}
    /\ clients' = delclient(clients, id[wm.who])
    /\ wm' = Alt
    /\ UNCHANGED <<id, fid, proc, rec, channel, minder, history>>

----------------------------------------------------------------------------
(* The manager's main loop *)

\* c.ctl <-= "rect ...", and an event for the controller.
Greet ==
    /\ mgr.at = "greet" /\ \A c \in members : Listening(c)
    /\ mgr' = Alt
    /\ UNCHANGED <<table, fid, proc, rec, channel, wm, minder, members, history>>

\* A request is refused, or done: a window needs c.images, and the rows are
\* packed again with messages to every client.  Then the writer is answered.
HandleRequest ==
    /\ mgr.at \in {"request", "image"}
    /\ mgr.at = "image" => minder[mgr.who] = "run" /\ \A c \in members : Listening(c)
    /\ mgr' = Alt
    /\ proc' = [proc EXCEPT ![mgr.writer] =
                  IF @ = "writing" THEN "running" ELSE @]
    /\ UNCHANGED <<table, fid, rec, channel, wm, minder, members, history>>

\* Mutant of HandleLeave: the childminder is not stopped.
HandleLeave_minder_left ==
    /\ mgr.at = "leave" /\ \A c \in members : Listening(c)
    /\ mgr' = Alt
    /\ UNCHANGED <<table, fid, proc, rec, channel, wm, minder, members, history>>

\* The remaining clients are packed and told, then c.stop <-= 1.  A send on
\* a nil channel raises an exception that nothing catches.
HandleLeave ==
    /\ mgr.at = "leave" /\ \A c \in members : Listening(c)
    /\ IF minder[mgr.who] = "none"
       THEN mgr' = [mgr EXCEPT !.at = "broken"] /\ UNCHANGED minder
       ELSE mgr' = Alt /\ minder' = [minder EXCEPT ![mgr.who] = "exited"]
    /\ UNCHANGED <<table, fid, proc, rec, channel, wm, members, history>>

\* The manager's main loop has ended, or waits for the images channel of a
\* client that has no childminder, or whose childminder waits for ever to
\* answer somebody who is gone.
Stuck ==
    \/ mgr.at = "broken"
    \/ /\ mgr.at = "image"
       /\ \/ minder[mgr.who] = "none"
          \/ minder[mgr.who] = "reply" /\ \A c \in Clients : proc[c] = "asking" => rec[c] # mgr.who

\* All clients have come and gone, or the manager serves no one any more.
Quiet ==
    /\ \/ Stuck
       \/ \A c \in Clients : ~Open(c) /\ writes = <<>> /\ wm = Alt /\ mgr = Alt
    /\ UNCHANGED vars

Next ==
    \/ \E c \in Clients :
         \/ (\E f \in Fids : Connect(c, f)) \/ ReadToken(c) \/ WriteRequest(c)
         \/ Reply(c) \/ Die(c) \/ Close(c) \/ Read(c) \/ Wmreq(c)
    \/ Write \/ Join \/ Spawn \/ Req \/ Leave
    \/ Greet \/ HandleLeave \/ HandleRequest
    \/ Quiet

Spec == Init /\ [][Next]_vars

\* Both loops go on whenever they can, alt passes no ready channel over for
\* ever, and a client that asked takes its reply unless it dies.
Fairness ==
    /\ WF_vars(Join) /\ WF_vars(Spawn) /\ WF_vars(Req) /\ WF_vars(Leave)
    /\ WF_vars(Greet) /\ WF_vars(HandleLeave) /\ WF_vars(HandleRequest)
    /\ SF_vars(Write)
    /\ \A c \in Clients : WF_vars(Reply(c))

FairSpec == Spec /\ Fairness

----------------------------------------------------------------------------
(* Properties *)

ClientStates == {"new", "open", "reading", "token", "asking", "running", "writing",
                 "refused", "closing", "gone"}
Refs == Clients \cup {Nil}
Messages == [of : Clients, close : BOOLEAN]

\* Every variable has its type.
TypeOK ==
    /\ clients \in Seq(Refs)
    /\ id \in [Clients -> -1..(Len(clients) - 1)]
    /\ fid \in [Clients -> Fids \cup {Nil}]
    /\ proc \in [Clients -> ClientStates]
    /\ rec \in [Clients -> Refs]
    /\ reads \subseteq Clients
    /\ writes \in Seq(Messages) /\ blocked \in Seq(Clients)
    /\ wm \in [at : {"alt", "join", "spawn", "req", "leave"}, who : Refs, writer : Refs]
    /\ mgr \in [at : {"alt", "greet", "request", "image", "leave", "broken"},
                who : Refs, writer : Refs]
    /\ minder \in [Clients -> {"none", "reply", "run", "exited"}]
    /\ members \subseteq Clients /\ late \subseteq Clients /\ lost \subseteq Clients

\* Slots and ids agree, so that delclient frees the leaver's slot and no other.
SlotsMatchIds == \A i \in DOMAIN clients : clients[i] # Nil => id[clients[i]] = i - 1

\* No two clients in the table have one fid.
OnePerFid ==
    \A c, d \in Clients : Registered(c) /\ Registered(d) /\ fid[c] = fid[d] => c = d

\* A client that has read its token has a client in the table under its fid,
\* and after it has joined, the one it joined with.
HoldersFound ==
    \A c \in Clients :
      /\ proc[c] \in {"token", "asking", "running", "writing"} /\ c \notin late
            => findfid(fid[c]) # Nil
      /\ proc[c] \in {"asking", "running", "writing"} /\ c \notin late
            => findfid(fid[c]) = rec[c]

\* A client in the table has a connection open, or it will leave.
NoneForgotten ==
    \A r \in Clients : Registered(r) =>
        \/ \E c \in Clients : Open(c) /\ fid[c] = fid[r]
        \/ Noticed(fid[r])
        \/ wm = At("leave", r, Nil)
        \/ r \in lost

\* The table agrees with the ids and with the connections, though a fid may
\* come back before wm has heard that its last owner closed: only a client
\* whose read overtakes that notice may lose its entry, and only an entry
\* whose notice was dropped, or came before the read, stays for ever.
TableAgrees == SlotsMatchIds /\ OnePerFid /\ HoldersFound /\ NoneForgotten

\* Exactly the members have a childminder: one is started for whoever joins
\* before anything can be lost, never a second one, and none outlives its
\* client's leaving.
MindersMatchMembers ==
    \A c \in Clients :
        /\ Listening(c) => c \in members \/ mgr = At("leave", c, Nil)
        /\ c \in members => Listening(c) \/ wm = At("spawn", c, Nil)
        /\ wm = At("spawn", c, Nil) => ~Listening(c)

\* A client that connects is answered, unless it dies first, it is late, or
\* the manager serves no one any more.
ConnectAnswered ==
    \A c \in Clients : proc[c] = "asking" ~> (proc[c] # "asking" \/ c \in late \/ Stuck)

\* When the notice of a closed connection has got into the channel, its slot
\* is freed and its childminder ends, unless the manager serves no one any more.
LeaverForgotten ==
    \A r \in Clients : (Registered(r) /\ Noticed(fid[r])) ~>
                          ((~Registered(r) /\ ~Listening(r)) \/ Stuck)

\* lib/xwmsrv.b: events are buffered "so that one recalcitrant child can't
\* clog the whole system" -- no client brings the main loop to an end.
MainLoopSurvives == mgr.at # "broken"
=============================================================================
