------------------------------ MODULE AlertWin ------------------------------
(***************************************************************************)
(* The alert window, alertwin2.b, with the engine of Alert behind it.  The  *)
(* window is the caller of ctl and the reader of cout at once: cout is its  *)
(* channel caction, on which Tk also sends the user's actions.              *)
(*                                                                          *)
(* caction is made without a buffer, so a sender of the engine waits on it  *)
(* until the window takes its message.  Tk sends from the window's own       *)
(* process: nobody receives then, and csendalt gives the channel a buffer.   *)
(* From then on a sender goes on while there is room; the senders that       *)
(* already wait stay on the channel until a receive exchanges them.  A       *)
(* sender that finds the window in its alt is one that sends and is taken    *)
(* at once.                                                                  *)
(*                                                                          *)
(* "caller" of Alert is the window inside ctl or ctln; "reader" is not used. *)
(* The registry does not fail here: Alert has that.                         *)
(***************************************************************************)
EXTENDS Alert

CONSTANT Room   \* slots csendalt gives to a channel, TkMaxmsgs

ASSUME WinAssumption == Room \in Nat \ {0} /\ ~RegistryMayFail

VARIABLES
    win,       \* the window: "start", "loop", "closing", "leaving", "broken", "gone"
    room,      \* slots of caction's buffer, 0 if it has none
    buf,       \* what is in it
    sendq,     \* the processes of the engine that wait on it to send, in order
    swallowed  \* history: the kind of the message that started the window

winvars == <<win, room, buf, sendq, swallowed>>
allvars == <<vars, winvars>>

RingMsg   == [kind |-> "ring!", of |-> None]
CtlMsg    == [kind |-> "ctl", of |-> None]
Action(c) == [kind |-> "action", of |-> c]

\* An action that only changes the looks of the window (flash, mute, name field).
LookMsg   == [kind |-> "look", of |-> None]

\* init has spawned run and waits for its first message.
WinInit ==
    /\ ctlproc = "run" /\ todo = <<>>
    /\ \E start \in {"user", "announce"} :
       pc = [p \in Procs |->
               CASE p \in {"heartbeat", "registry", "ctlfile"} -> "spawned"
                 [] p = "run"      -> start
                 [] p = "caller"   -> "serve"
                 [] p \in Watchers -> "unborn"
                 [] OTHER          -> "dead"]
    /\ cmd = [p \in Callers |-> NoCmd]
    /\ wstate = [w \in Watchers |-> -1]
    /\ watchertype = None
    /\ pid = [c \in Cells |-> None]
    /\ view = [registry |-> Msg("none"), reader |-> Msg("none")]
    /\ issued = 0 /\ raced = {}
    /\ win = "start" /\ room = 0 /\ buf = <<>> /\ sendq = <<>>
    /\ swallowed = "none"

\* The window is in the alt of its loop.
AtLoop == win = "loop" /\ pc["caller"] = "serve"

----------------------------------------------------------------------------
(* What the window does with a message *)

\* It calls ctl (wait) or ctln; pcs is pc but for the other party of the step.
Call(c, wait, pcs) ==
    IF c = "on"
    THEN \E w \in Watchers :
           /\ pcs[w] = "unborn"
           /\ cmd' = [cmd EXCEPT !["caller"] = [name |-> c, wait |-> wait, who |-> w]]
           /\ pc' = [pcs EXCEPT !["caller"] = "call", ![w] = "claimed"]
    ELSE /\ cmd' = [cmd EXCEPT !["caller"] = [name |-> c, wait |-> wait, who |-> None]]
         /\ pc' = [pcs EXCEPT !["caller"] = "call"]

\* action(m): a status is shown; a "running" without a watcher's type has no
\* arguments and breaks the window (hd of nil); an exit is passed on to the
\* engine and ends the window; an action calls ctl; the rest does not matter.
action(m, pcs) ==
    \/ /\ m.kind \in Kinds \ {"exit"}
       /\ view' = [view EXCEPT !.reader = m]
       /\ win' = IF m.kind = "nil" \/ (m.kind = "running" /\ m.of = None)
                 THEN "broken" ELSE win
       /\ pc' = pcs
       /\ UNCHANGED <<cmd, issued>>
    \/ /\ m.kind \in {"ctl", "ring!", "look"}
       /\ pc' = pcs
       /\ UNCHANGED <<cmd, view, win, issued>>
    \/ /\ m.kind = "exit" \/ m = Action("exit")
       /\ Call("exit", FALSE, pcs)
       /\ win' = "leaving"
       /\ issued' = IF m.kind = "exit" THEN issued ELSE issued + 1
       /\ UNCHANGED view
    \/ /\ m.kind = "action" /\ m.of # "exit"
       /\ Call(m.of, TRUE, pcs)
       /\ issued' = issued + 1
       /\ UNCHANGED <<view, win>>

\* init's first receive takes the message for run's, whatever it is, and
\* throws it away; then ctln("off") and the loop.
FirstMessage(m, pcs) ==
    /\ win = "start"
    /\ Call("off", FALSE, pcs)
    /\ win' = "loop"
    /\ swallowed' = m.kind
    /\ UNCHANGED <<view, issued>>

----------------------------------------------------------------------------
(* caction *)

\* What a waiting sender sends.
MessageOf(p) ==
    CASE p = "ctlproc" -> Head(todo).msg
      [] p = "run"     -> CtlMsg
      [] OTHER         -> RingMsg

\* The places of the processes once p's send is done, and ctlproc's statements.
SentPc(p) == IF p = "run" THEN [pc EXCEPT !["run"] = "dead"] ELSE pc
SentTodo(p) == IF p = "ctlproc" THEN Tail(todo) ELSE todo

\* isend by a process of the engine: into the buffer if it has room, even
\* past those who wait; otherwise it waits too.
isend(p) ==
    /\ p \notin {sendq[i] : i \in DOMAIN sendq}
    /\ \/ /\ Len(buf) < room
          /\ buf' = Append(buf, MessageOf(p))
          /\ pc' = SentPc(p) /\ todo' = SentTodo(p)
          /\ UNCHANGED sendq
       \/ /\ Len(buf) >= room
          /\ sendq' = Append(sendq, p)
          /\ UNCHANGED <<buf, pc, todo>>
    /\ UNCHANGED <<ctlproc, cmd, wstate, watchertype, pid, view, issued, raced,
                   win, room, swallowed>>

\* The window deals with m, its first message or not.
Deal(m, pcs) ==
    \/ FirstMessage(m, pcs)
    \/ AtLoop /\ action(m, pcs) /\ UNCHANGED swallowed

\* Mutant of irecv: a message of the buffer is taken and nobody is woken.
irecv_no_wakeup ==
    /\ \/ /\ room = 0 /\ sendq # <<>>
          /\ LET p == Head(sendq) IN Deal(MessageOf(p), SentPc(p)) /\ todo' = SentTodo(p)
          /\ sendq' = Tail(sendq)
          /\ UNCHANGED buf
       \/ /\ buf # <<>>
          /\ Deal(Head(buf), pc)
          /\ buf' = Tail(buf)
          /\ UNCHANGED <<todo, sendq>>
    /\ UNCHANGED <<ctlproc, wstate, watchertype, pid, raced, room>>

\* Mutant of Exchange: the sender's message is put first, and lost if the
\* buffer is full.
Exchange_put_first(m) == Tail(IF Len(buf) < room THEN Append(buf, m) ELSE buf)

\* The buffer after the oldest message is taken and a waiting sender's put.
Exchange(m) == Append(Tail(buf), m)

\* irecv by the window: the sender that has waited longest goes on.  With a
\* buffer the window gets the oldest message there and the sender's takes
\* its place at the end.
irecv ==
    /\ \/ /\ sendq # <<>>
          /\ LET p == Head(sendq) IN
               /\ Deal(IF room = 0 THEN MessageOf(p) ELSE Head(buf), SentPc(p))
               /\ todo' = SentTodo(p)
               /\ buf' = IF room = 0 THEN buf ELSE Exchange(MessageOf(p))
          /\ sendq' = Tail(sendq)
       \/ /\ sendq = <<>> /\ buf # <<>>
          /\ Deal(Head(buf), pc)
          /\ buf' = Tail(buf)
          /\ UNCHANGED <<todo, sendq>>
    /\ UNCHANGED <<ctlproc, wstate, watchertype, pid, raced, room>>

\* A process that is killed is taken off the channel.
OffQueue == sendq' = SelectSeq(sendq, LAMBDA p : p = "ctlproc" \/ pc'[p] # "dead")

\* Commands under way to the window, for the bounds on commands and watchers.
Actions(S) == Cardinality({i \in DOMAIN buf : buf[i].kind = "action" /\ buf[i].of \in S})
MayIssue(c) ==
    /\ issued + Actions(Cmds) < MaxCmds
    /\ c = "on" => Cardinality({w \in Watchers : pc[w] = "unborn"}) > Actions({"on"})

\* csendalt on caction by Tk: a full buffer loses the message.
csendalt(m) ==
    /\ room' = Room
    /\ buf' = IF Len(buf) < Room THEN Append(buf, m) ELSE buf
    /\ UNCHANGED <<vars, win, sendq, swallowed>>

\* The user picks a game, a location, a number of players or Remove: Tk sends
\* the action.
TkAction(c) ==
    /\ AtLoop
    /\ MayIssue(c)
    /\ csendalt(Action(c))

TkLook == AtLoop /\ csendalt(LookMsg)

\* The window manager or the title bar says exit: ctl, then wmctl kills the
\* window's group, the engine with it, but not the watcher, which has its own.
Close ==
    /\ AtLoop
    /\ Call("exit", TRUE, pc)
    /\ win' = "closing"
    /\ UNCHANGED <<ctlproc, todo, wstate, watchertype, pid, view, issued, raced,
                   room, buf, sendq, swallowed>>

wmctl ==
    /\ win = "closing" /\ pc["caller"] = "serve"
    /\ win' = "gone"
    /\ ctlproc' = "killed"
    /\ pc' = [p \in Procs |-> IF p \in Watchers THEN pc[p] ELSE "dead"]
    /\ sendq' = <<>>
    /\ UNCHANGED <<todo, cmd, wstate, watchertype, pid, view, issued, raced,
                   room, buf, swallowed>>

----------------------------------------------------------------------------
(* The engine's sends on cout *)

SendAction == Executing("out") /\ isend("ctlproc")
Ring(r)    == pc[r] = "ring" /\ isend(r)
Announce   == pc["run"] = "announce" /\ isend("run")

\* The rest of the engine is as in Alert; commands also come by the control file.
Engine ==
    \/ CtlStatement
    \/ \E p \in Callers : RecvCommand(p)
    \/ \E w \in Watchers : RecvReport(w) \/ watcherproc(w) \/ WatcherScan(w)
    \/ \E r \in Ringers : ringproc(r)
    \/ heartbeatproc \/ registryproc \/ run \/ ctlfileproc
    \/ \E c \in Cmds : MayIssue(c) /\ ctl("ctlfile", c, TRUE)

\* Steps of the engine that do not touch caction.
EngineStep == Engine /\ OffQueue /\ UNCHANGED <<win, room, buf, swallowed>>

WinNext ==
    \/ EngineStep
    \/ SendAction \/ Announce \/ irecv \/ TkLook \/ Close \/ wmctl
    \/ \E r \in Ringers : Ring(r)
    \/ \E c \in Cmds : TkAction(c)

WinSpec == WinInit /\ [][WinNext]_allvars

\* As in Alert; a window in its alt takes what is there.
WinFairness ==
    /\ WF_allvars(CtlStatement /\ EngineStep)
    /\ SF_allvars(SendRegistry /\ EngineStep)
    /\ WF_allvars(SendAction) /\ WF_allvars(Announce)
    /\ WF_allvars(irecv) /\ WF_allvars(wmctl)
    /\ \A p \in Callers : SF_allvars(RecvCommand(p) /\ EngineStep)
    /\ SF_allvars(run /\ EngineStep)
    /\ WF_allvars(registryproc /\ EngineStep)

WinFairSpec == WinSpec /\ WinFairness

----------------------------------------------------------------------------
(* Properties *)

\* ctlproc waits for the window to take a message and the window waits for
\* ctlproc, or is no more: neither will ever go on.
Locked ==
    /\ "ctlproc" \in {sendq[i] : i \in DOMAIN sendq}
    /\ pc["caller"] # "serve" \/ win \in {"leaving", "broken", "gone"}

\* The window calls ctl in the very process that should take the engine's
\* statuses, and still every call is answered, the window's and the control
\* file's, unless the two have locked each other or the engine is gone.
CallsAnswered ==
    \A p \in Callers :
      pc[p] \in {"call", "wait"} ~>
        (pc[p] \notin {"call", "wait"} \/ ctlproc # "run" \/ Locked)

\* A status the registry was told is shown in the window, in spite of Tk's
\* messages in the same buffer, unless the window is closed, hangs as above,
\* was broken by a watcher that a kill had missed, or took the status for
\* run's message when it started ("off" is then sent again, and shown).
StatusShown ==
    \A k \in {"off", "running", "ringing"} :
      view.registry.kind = k ~>
        \/ view.reader.kind = k
        \/ k # "off" /\ swallowed = k
        \/ win \in {"closing", "leaving", "gone", "broken"}
        \/ Locked
=============================================================================
