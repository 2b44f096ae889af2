------------------------------- MODULE Alert -------------------------------
(***************************************************************************)
(* The alert engine, alert.b: a network of Limbo processes joined by        *)
(* synchronous channels.                                                    *)
(*                                                                          *)
(*   ctlproc      serves commands (cctl) and watcher reports                *)
(*                (cwatcherstate) in one alt loop                           *)
(*   registryproc forwards messages (cregistry) to the alert registry       *)
(*   heartbeatproc, ctlfileproc, run: the other processes started by run    *)
(*   watchers     one process per "on" command, reporting 0, 1 or -1        *)
(*   ringers      one process per report 1, sending "ring!" on cout         *)
(*   reader       whoever reads cout (alert.b's own init, or a window)      *)
(*   caller       a thread that calls Malert->ctl or ctln directly          *)
(*                                                                          *)
(* A channel operation is a rendezvous: one action moves the sender and the *)
(* receiver.  ctlproc is its list of remaining statements, todo; between    *)
(* two of them every other process may run.  A process stores its own pid   *)
(* in a global when it first runs, so a kill issued before that misses it.  *)
(* raced records exactly those misses; it is a history variable that no     *)
(* action reads.                                                            *)
(***************************************************************************)
EXTENDS Naturals, Integers, Sequences, FiniteSets

CONSTANTS
    Watchers,          \* one identity per watcherproc ever spawned
    Ringers,           \* identities of ringprocs, reused once free
    None,              \* nil: no process, no watcher type, no reply channel
    Cmds,              \* the commands callers may send
    MaxCmds,           \* bound: commands issued in a behaviour
    RegistryMayFail,   \* opening, writing or acknowledging may fail
    ReaderMayFail      \* printing a status in init may fail

AllCmds == {"exit", "on", "off", "pname", "invalid", "short"}
Callers == {"ctlfile", "caller"}
Static  == {"run", "reader", "heartbeat", "registry"} \cup Callers
Cells   == {"heartbeat", "registry", "ctlfile", "watcher", "ring"}

ASSUME ConstantsAssumption ==
    /\ Cmds \subseteq AllCmds
    /\ MaxCmds \in Nat
    /\ RegistryMayFail \in BOOLEAN
    /\ ReaderMayFail \in BOOLEAN
    /\ None \notin Static \cup Watchers \cup Ringers
    /\ Watchers \cap Static = {}
    /\ Ringers \cap Static = {}
    /\ Watchers \cap Ringers = {}

Procs == Static \cup Watchers \cup Ringers

VARIABLES
    ctlproc,   \* "run", "exited", or "broken" by an uncaught exception
    todo,      \* the statements ctlproc has still to execute; <<>> in its alt
    pc,        \* where every other process is
    cmd,       \* the command a caller is passing, and whether it wants a reply
    wstate,    \* the variable state of each watcher (rotc.B)
    watchertype,
    pid,       \* the global pid variables
    view,      \* last message of ctlproc the registry and the reader received
    issued,    \* commands issued so far
    raced      \* history: processes a kill missed because they had not started

vars == <<ctlproc, todo, pc, cmd, wstate, watchertype, pid, view, issued, raced>>

----------------------------------------------------------------------------
(* Messages and the statements of ctlproc *)

Kinds == {"none", "off", "running", "ringing", "pname", "exit", "nil"}
Message == [kind : Kinds, of : Watchers \cup {None}]
Msg(k) == [kind |-> k, of |-> None]
Status(k) == [kind |-> k, of |-> watchertype]

KillOp(c)     == [op |-> "kill", cell |-> c]
ClearOp(c)    == [op |-> "clear", cell |-> c]
SpawnOp(w)    == [op |-> "watch", who |-> w]
RingOp        == [op |-> "ring"]
RegOp(m)      == [op |-> "reg", msg |-> m]
OutOp(m)      == [op |-> "out", msg |-> m]
ReplyOp(p)    == [op |-> "reply", to |-> p]
ExitOp        == [op |-> "exit"]

Ops == [op : {"kill", "clear"}, cell : Cells]
         \cup [op : {"watch"}, who : Watchers]
         \cup [op : {"ring", "exit"}]
         \cup [op : {"reg", "out"}, msg : Message]
         \cup [op : {"reply"}, to : Callers]

\* if(cerror != nil) cerror <-= ...
Reply(to) == IF to = None THEN <<>> ELSE <<ReplyOp(to)>>

\* Mutants of status: the reader first; the reader forgotten.
status_swapped(m) == <<OutOp(m), RegOp(m)>>
status_registry_only(m) == <<RegOp(m)>>

\* status: the registry first, then the reader.
status(m) == <<RegOp(m), OutOp(m)>>

ringproc_kill == <<KillOp("ring"), ClearOp("ring")>>

\* Mutant of watcher_kill: the bell is left ringing.
watcher_kill_bell_left == <<KillOp("watcher"), ClearOp("watcher")>>

watcher_kill == ringproc_kill \o <<KillOp("watcher"), ClearOp("watcher")>>

\* Mutant of watcher_spawn: the previous watcher is left running.
watcher_spawn_no_kill(w) == <<SpawnOp(w)>>

watcher_spawn(w) == watcher_kill \o <<SpawnOp(w)>>

\* Mutant of ExitOps: the bell is forgotten.
ExitOps_bell_left(to) ==
    Reply(to)
    \o <<KillOp("heartbeat"), KillOp("registry"), KillOp("ctlfile"),
         KillOp("watcher"),
         OutOp(Msg("exit")), OutOp(Msg("nil")), ExitOp>>

\* The kills of the exit branch of ctlproc, in the order of the code.
ExitKills == <<KillOp("heartbeat"), KillOp("registry"), KillOp("ctlfile"),
               KillOp("watcher"), KillOp("ring")>>

\* The exit branch of ctlproc.
ExitOps(to) ==
    Reply(to) \o ExitKills \o <<OutOp(Msg("exit")), OutOp(Msg("nil")), ExitOp>>

\* What ctlproc does with a command; w is the identity claimed for a watcher.
CommandOps(c, to, w) ==
    CASE c = "exit"  -> ExitOps(to)
      [] c = "on"    -> watcher_spawn(w) \o Reply(to)
      [] c = "off"   -> watcher_kill \o status(Msg("off")) \o Reply(to)
      [] c = "pname" -> status(Msg("pname")) \o Reply(to)
      [] OTHER       -> Reply(to)

\* What ctlproc does with a report of a watcher.
ReportOps(state) ==
    CASE state = -1 -> watcher_kill \o status(Msg("off"))
      [] state = 0  -> ringproc_kill \o status(Status("running"))
      [] state = 1  -> <<RingOp>> \o status(Status("ringing"))

----------------------------------------------------------------------------
(* Initial state: run has created the channels and spawned its processes. *)

NoCmd == [name |-> "none", wait |-> FALSE, who |-> None]

Init ==
    /\ ctlproc = "run"
    /\ todo = <<>>
    /\ \E start \in {"user", "announce"} : \* is there a /tmp/playername?
       pc = [p \in Procs |->
               CASE p \in {"heartbeat", "registry", "ctlfile"} -> "spawned"
                 [] p = "run"    -> start
                 [] p = "reader" -> "recv"
                 [] p = "caller" -> "serve"
                 [] p \in Watchers -> "unborn"
                 [] OTHER        -> "dead"]
    /\ cmd = [p \in Callers |-> NoCmd]
    /\ wstate = [w \in Watchers |-> -1]
    /\ watchertype = None
    /\ pid = [c \in Cells |-> None]
    /\ view = [registry |-> Msg("none"), reader |-> Msg("none")]
    /\ issued = 0
    /\ raced = {}

\* ctlproc is in its alt.
AtAlt == ctlproc = "run" /\ todo = <<>>

\* ctlproc is about to execute a statement of kind k.
Executing(k) == ctlproc = "run" /\ todo # <<>> /\ Head(todo).op = k

ProcsOf(c) ==
    CASE c = "watcher" -> Watchers
      [] c = "ring"    -> Ringers
      [] OTHER         -> {c}

\* registryproc after it received a message: it is written and acknowledged,
\* or die is called.  The others only see that it is not yet receiving.
RegistryNext == {"recv"} \cup (IF RegistryMayFail THEN {"die"} ELSE {})

\* init after it received a status: it is printed, or die is called.
ReaderNext == {"recv"} \cup (IF ReaderMayFail THEN {"die"} ELSE {})

----------------------------------------------------------------------------
(* Statements of ctlproc *)

\* postnote on the pid in a global; a zero pid is no one.
Kill ==
    /\ Executing("kill")
    /\ LET c == Head(todo).cell IN
         /\ pc' = [p \in Procs |-> IF p = pid[c] THEN "dead" ELSE pc[p]]
         /\ raced' = raced \cup {p \in ProcsOf(c) : pc[p] = "spawned"}
    /\ todo' = Tail(todo)
    /\ UNCHANGED <<ctlproc, cmd, wstate, watchertype, pid, view, issued>>

\* ringpid = 0; or watcherpid = 0; watchertype = nil; watcherargs = nil
Clear ==
    /\ Executing("clear")
    /\ LET c == Head(todo).cell IN
         /\ pid' = [pid EXCEPT ![c] = None]
         /\ watchertype' = IF c = "watcher" THEN None ELSE watchertype
    /\ todo' = Tail(todo)
    /\ UNCHANGED <<ctlproc, pc, cmd, wstate, view, issued, raced>>

\* watchertype = wtype; spawn watcherproc
SpawnWatcher ==
    /\ Executing("watch")
    /\ LET w == Head(todo).who IN
         /\ watchertype' = w
         /\ pc' = [pc EXCEPT ![w] = "spawned"]
    /\ todo' = Tail(todo)
    /\ UNCHANGED <<ctlproc, cmd, wstate, pid, view, issued, raced>>

\* ringproc_spawn.  A report 1 is only taken while an identity is free.
ringproc_spawn ==
    /\ Executing("ring")
    /\ \E r \in Ringers :
         /\ pc[r] = "dead"
         /\ r # pid["ring"]
         /\ pc' = [pc EXCEPT ![r] = "spawned"]
    /\ todo' = Tail(todo)
    /\ UNCHANGED <<ctlproc, cmd, wstate, watchertype, pid, view, issued, raced>>

\* cregistry <-= msg
SendRegistry ==
    /\ Executing("reg")
    /\ pc["registry"] = "recv"
    /\ \E next \in RegistryNext : pc' = [pc EXCEPT !["registry"] = next]
    /\ view' = [view EXCEPT !.registry = Head(todo).msg]
    /\ todo' = Tail(todo)
    /\ UNCHANGED <<ctlproc, cmd, wstate, watchertype, pid, issued, raced>>

\* cout <-= msg; the reader leaves its loop on nil.
SendOut ==
    /\ Executing("out")
    /\ pc["reader"] = "recv"
    /\ \E next \in IF Head(todo).msg.kind = "nil" THEN {"dead"} ELSE ReaderNext :
         pc' = [pc EXCEPT !["reader"] = next]
    /\ view' = [view EXCEPT !.reader = Head(todo).msg]
    /\ todo' = Tail(todo)
    /\ UNCHANGED <<ctlproc, cmd, wstate, watchertype, pid, issued, raced>>

\* cerror <-= ...: the caller is receiving on it.
SendReply ==
    /\ Executing("reply")
    /\ LET p == Head(todo).to IN
         /\ pc[p] = "wait"
         /\ pc' = [pc EXCEPT ![p] = IF p = "ctlfile" THEN "answer" ELSE "serve"]
    /\ todo' = Tail(todo)
    /\ UNCHANGED <<ctlproc, cmd, wstate, watchertype, pid, view, issued, raced>>

Exit ==
    /\ Executing("exit")
    /\ ctlproc' = "exited"
    /\ todo' = Tail(todo)
    /\ UNCHANGED <<pc, cmd, wstate, watchertype, pid, view, issued, raced>>

----------------------------------------------------------------------------
(* The alt of ctlproc *)

\* A caller's command arrives.  A command line with too few words raises an
\* exception in ctlproc, which then stays broken.
RecvCommand(p) ==
    /\ AtAlt
    /\ pc[p] = "call"
    /\ LET to == IF cmd[p].wait THEN p ELSE None IN
         \/ /\ cmd[p].name = "short"
            /\ ctlproc' = "broken"
            /\ todo' = todo
         \/ /\ cmd[p].name # "short"
            /\ todo' = CommandOps(cmd[p].name, to, cmd[p].who)
            /\ ctlproc' = ctlproc
    /\ pc' = [pc EXCEPT ![p] = IF cmd[p].wait THEN "wait" ELSE "serve"]
    /\ cmd' = [cmd EXCEPT ![p] = NoCmd]
    /\ UNCHANGED <<wstate, watchertype, pid, view, issued, raced>>

\* A free identity for a ringproc: the named bound on ringers.
FreeRinger == \E r \in Ringers : pc[r] = "dead" /\ r # pid["ring"]

\* A watcher's report arrives; an error is followed by a second one when
\* watcherproc regains control, after which the watcher is gone.
RecvReport(w) ==
    /\ AtAlt
    /\ \/ /\ pc[w] = "report"
          /\ wstate[w] = 1 => FreeRinger
          /\ todo' = ReportOps(wstate[w])
          /\ pc' = [pc EXCEPT ![w] = "watch"]
       \/ /\ pc[w] = "error"
          /\ todo' = ReportOps(-1)
          /\ pc' = [pc EXCEPT ![w] = "return"]
       \/ /\ pc[w] = "return"
          /\ todo' = ReportOps(-1)
          /\ pc' = [pc EXCEPT ![w] = "dead"]
    /\ UNCHANGED <<ctlproc, cmd, wstate, watchertype, pid, view, issued, raced>>

\* die: the exit command of a process whose output failed.  Afterwards the
\* process goes on, until it is killed, with what follows its failure; the
\* registry may fail again before it next receives.
RecvDie(p) ==
    /\ AtAlt
    /\ pc[p] = "die"
    /\ todo' = ExitOps(None)
    /\ \E next \in IF p = "registry" THEN RegistryNext ELSE {"recv"} :
         pc' = [pc EXCEPT ![p] = next]
    /\ UNCHANGED <<ctlproc, cmd, wstate, watchertype, pid, view, issued, raced>>

----------------------------------------------------------------------------
(* Watchers: watcherproc and run of watcher/rotc.B *)

\* watcherproc first runs: its module may fail to load, its arguments may
\* be wrong, or it reports state 0.
watcherproc(w) ==
    /\ pc[w] = "spawned"
    /\ pid' = [pid EXCEPT !["watcher"] = w]
    /\ \/ /\ pc' = [pc EXCEPT ![w] = "return"]
          /\ UNCHANGED wstate
       \/ /\ pc' = [pc EXCEPT ![w] = "error"]
          /\ UNCHANGED wstate
       \/ /\ pc' = [pc EXCEPT ![w] = "report"]
          /\ wstate' = [wstate EXCEPT ![w] = 0]
    /\ UNCHANGED <<ctlproc, todo, cmd, watchertype, view, issued, raced>>

\* One pass over the server list: the file cannot be opened, or the list
\* calls for the other state and set_state reports it.
WatcherScan(w) ==
    /\ pc[w] = "watch"
    /\ \/ /\ pc' = [pc EXCEPT ![w] = "error"]
          /\ UNCHANGED wstate
       \/ /\ pc' = [pc EXCEPT ![w] = "report"]
          /\ wstate' = [wstate EXCEPT ![w] = 1 - wstate[w]]
    /\ UNCHANGED <<ctlproc, todo, cmd, watchertype, pid, view, issued, raced>>

----------------------------------------------------------------------------
(* The other processes *)

\* ringproc: store the pid, then cout <-= "ring!" now and then.
ringproc(r) ==
    \/ /\ pc[r] = "spawned"
       /\ pid' = [pid EXCEPT !["ring"] = r]
       /\ pc' = [pc EXCEPT ![r] = "ring"]
       /\ UNCHANGED <<ctlproc, todo, cmd, wstate, watchertype, view, issued, raced>>
    \/ /\ pc[r] = "ring"
       /\ pc["reader"] = "recv"
       /\ \E next \in ReaderNext : pc' = [pc EXCEPT !["reader"] = next]
       /\ UNCHANGED <<ctlproc, todo, cmd, wstate, watchertype, pid, view, issued, raced>>

\* heartbeatproc: store the pid, then cregistry <-= "heartbeat" now and then.
heartbeatproc ==
    \/ /\ pc["heartbeat"] = "spawned"
       /\ pid' = [pid EXCEPT !["heartbeat"] = "heartbeat"]
       /\ pc' = [pc EXCEPT !["heartbeat"] = "beat"]
       /\ UNCHANGED <<ctlproc, todo, cmd, wstate, watchertype, view, issued, raced>>
    \/ /\ pc["heartbeat"] = "beat"
       /\ pc["registry"] = "recv"
       /\ \E next \in RegistryNext : pc' = [pc EXCEPT !["registry"] = next]
       /\ UNCHANGED <<ctlproc, todo, cmd, wstate, watchertype, pid, view, issued, raced>>

\* registryproc: store the pid and open the registry, or call die.
registryproc ==
    /\ pc["registry"] = "spawned"
    /\ pid' = [pid EXCEPT !["registry"] = "registry"]
    /\ \E next \in RegistryNext : pc' = [pc EXCEPT !["registry"] = next]
    /\ UNCHANGED <<ctlproc, todo, cmd, wstate, watchertype, view, issued, raced>>

\* run, after spawning: register the player name if there is one, then
\* announce the control file.
run ==
    \/ /\ pc["run"] = "user"
       /\ pc["registry"] = "recv"
       /\ \E next \in RegistryNext :
            pc' = [pc EXCEPT !["run"] = "announce", !["registry"] = next]
       /\ UNCHANGED <<ctlproc, todo, cmd, wstate, watchertype, pid, view, issued, raced>>
    \/ /\ pc["run"] = "announce"
       /\ pc["reader"] = "recv"
       /\ \E next \in ReaderNext :
            pc' = [pc EXCEPT !["run"] = "dead", !["reader"] = next]
       /\ UNCHANGED <<ctlproc, todo, cmd, wstate, watchertype, pid, view, issued, raced>>

\* A client writes the control file, or a thread calls ctl or ctln: the
\* caller is now at cctl <-= (cmdline, cerror).  An "on" claims the identity
\* its watcher will get: a fresh one, the named bound on watchers.
ctl(p, c, wait) ==
    /\ pc[p] = "serve"
    /\ p = "ctlfile" => wait
    /\ issued < MaxCmds
    /\ issued' = issued + 1
    /\ IF c = "on"
       THEN \E w \in Watchers :
              /\ pc[w] = "unborn"
              /\ cmd' = [cmd EXCEPT ![p] = [name |-> c, wait |-> wait, who |-> w]]
              /\ pc' = [pc EXCEPT ![p] = "call", ![w] = "claimed"]
       ELSE /\ cmd' = [cmd EXCEPT ![p] = [name |-> c, wait |-> wait, who |-> None]]
            /\ pc' = [pc EXCEPT ![p] = "call"]
    /\ UNCHANGED <<ctlproc, todo, wstate, watchertype, pid, view, raced>>

\* ctlfileproc: store the pid; answer the writer with ctl's result.
ctlfileproc ==
    \/ /\ pc["ctlfile"] = "spawned"
       /\ pid' = [pid EXCEPT !["ctlfile"] = "ctlfile"]
       /\ pc' = [pc EXCEPT !["ctlfile"] = "serve"]
       /\ UNCHANGED <<ctlproc, todo, cmd, wstate, watchertype, view, issued, raced>>
    \/ /\ pc["ctlfile"] = "answer"
       /\ pc' = [pc EXCEPT !["ctlfile"] = "serve"]
       /\ UNCHANGED <<ctlproc, todo, cmd, wstate, watchertype, pid, view, issued, raced>>

----------------------------------------------------------------------------

CtlStatement ==
    \/ Kill \/ Clear \/ SpawnWatcher \/ ringproc_spawn
    \/ SendRegistry \/ SendOut \/ SendReply \/ Exit

\* The engine has been shut down, or has lost ctlproc: nothing else is due.
Stopped == ctlproc # "run" /\ UNCHANGED vars

Next ==
    \/ CtlStatement
    \/ \E p \in Callers : RecvCommand(p)
    \/ \E w \in Watchers : RecvReport(w)
    \/ \E p \in {"registry", "reader"} : RecvDie(p)
    \/ \E w \in Watchers : watcherproc(w) \/ WatcherScan(w)
    \/ \E r \in Ringers : ringproc(r)
    \/ heartbeatproc \/ registryproc \/ run \/ ctlfileproc
    \/ \E p \in Callers, c \in Cmds, wait \in BOOLEAN : ctl(p, c, wait)
    \/ Stopped

\* Every process runs when it can, and no blocked sender is passed over for
\* ever: channel queues are first come first served and alt chooses at
\* random.  Heartbeats, scans, commands and failures are never forced.
Fairness ==
    /\ WF_vars(CtlStatement)
    /\ SF_vars(SendRegistry) /\ SF_vars(SendOut)
    /\ \A p \in Callers : SF_vars(RecvCommand(p))
    /\ \A w \in Watchers : SF_vars(RecvReport(w))
    /\ \A p \in {"registry", "reader"} : SF_vars(RecvDie(p))
    /\ \A w \in Watchers : WF_vars(watcherproc(w))
    /\ \A r \in Ringers : WF_vars(ringproc(r) /\ pc[r] = "spawned")
    /\ WF_vars(registryproc) /\ WF_vars(ctlfileproc)
    /\ SF_vars(run)

Spec == Init /\ [][Next]_vars

FairSpec == Spec /\ Fairness

----------------------------------------------------------------------------
(* Properties *)

\* Where a process can be.
Places == {"unborn", "claimed", "dead", "spawned", "user", "announce", "recv", "die",
           "serve", "call", "wait", "answer", "ring", "beat", "watch", "report",
           "error", "return"}

\* Every variable has its type: the globals of alert.b hold a process of
\* their own kind or nil, and ctlproc's remaining statements are well formed.
TypeOK ==
    /\ ctlproc \in {"run", "exited", "broken"}
    /\ todo \in Seq(Ops)
    /\ pc \in [Procs -> Places]
    /\ cmd \in [Callers -> [name : AllCmds \cup {"none"}, wait : BOOLEAN,
                         who : Watchers \cup {None}]]
    /\ wstate \in [Watchers -> {-1, 0, 1}]
    /\ watchertype \in Watchers \cup {None}
    /\ pid \in [Cells -> Procs \cup {None}]
    /\ \A c \in Cells : pid[c] \in ProcsOf(c) \cup {None}
    /\ view \in [registry : Message, reader : Message]
    /\ issued \in 0..MaxCmds
    /\ raced \subseteq Procs

Alive(p) == pc[p] \notin {"unborn", "claimed", "dead"}

\* What the reader shows has been entered in the registry first, and between
\* two commands or reports both have seen the same last message.
RegistryFirst ==
    /\ Executing("out") /\ Head(todo).msg.kind \notin {"exit", "nil"} =>
          view.registry = Head(todo).msg
    /\ AtAlt => view.reader = view.registry

\* Without a kill that came too early, at most one watcher runs, it is the
\* one watchertype names, and only it can have its reports attributed.
OneWatcher ==
    raced = {} /\ AtAlt =>
        \A w \in Watchers : Alive(w) => w = watchertype

\* Without such a race the reader is told the truth about the bell.  "off"
\* and "running" mean that nobody rings; "ringing" means that exactly one
\* ringer is alive, unless a newer watcher has yet to report for the first
\* time ("on" silences the bell without a status of its own).
BellMatchesStatus ==
    raced = {} /\ AtAlt =>
        LET ringing == {r \in Ringers : Alive(r)} IN
        /\ view.reader.kind \in {"none", "off", "running"} => ringing = {}
        /\ Cardinality(ringing) <= 1
        /\ view.reader.kind = "ringing" /\ view.reader.of = watchertype =>
              Cardinality(ringing) = 1

\* Once ctlproc has exited, the reader has got nil after "exit" and no
\* process of the engine is left, unless one had not started when it was
\* to be killed.
ExitIsComplete ==
    ctlproc = "exited" =>
        /\ view.reader.kind = "nil"
        /\ pc["reader"] = "dead"
        /\ raced = {} =>
              \A p \in {"heartbeat", "registry", "ctlfile"} \cup Watchers \cup Ringers :
                  ~Alive(p)

\* alert.b, die: "alert: ...; exiting..." -- a process that calls die brings
\* the engine down.
DieExits ==
    pc["registry"] = "die" ~> ctlproc = "exited"

=============================================================================
