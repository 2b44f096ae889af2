---------------------------- MODULE SoundDaemon -----------------------------
(***************************************************************************)
(* sound-daemon.b: three processes and two synchronous channels.            *)
(*                                                                          *)
(*   filesrvproc   answers a writer of /chan/sound, then passes the sound   *)
(*                 to soundlistproc (csoundlistadd)                         *)
(*   soundlistproc keeps the pending sounds, newest first, or the channel   *)
(*                 of a player that found none (drainer)                    *)
(*   playerproc    asks for a sound (csoundlistnext) and plays it           *)
(*                                                                          *)
(* A sound is the string that names it; nil and "" are the same string.     *)
(***************************************************************************)
EXTENDS Naturals, Sequences, FiniteSets

CONSTANTS
    Sounds,      \* names of sounds
    Nil,         \* the nil string
    MaxWrites    \* bound: writes to /chan/sound

ASSUME SoundsAssumption == Nil \notin Sounds /\ MaxWrites \in Nat

VARIABLES
    filesrv,     \* the sound filesrvproc has still to pass on, or Nil
    soundlist, lastadded, drainer,
    player,      \* "ask", "wait" or "play"
    playing,     \* the sound being played, or Nil
    writes,      \* writes so far
    since        \* history: sounds given to the player or queued since it last found none

vars == <<filesrv, soundlist, lastadded, drainer, player, playing, writes, since>>

Init ==
    /\ filesrv = Nil
    /\ soundlist = <<>> /\ lastadded = Nil /\ drainer = FALSE
    /\ player = "ask" /\ playing = Nil
    /\ writes = 0 /\ since = {}

\* filesrvproc receives a write and answers it at once.
Write(s) ==
    /\ filesrv = Nil
    /\ writes < MaxWrites
    /\ writes' = writes + 1
    /\ filesrv' = s
    /\ UNCHANGED <<soundlist, lastadded, drainer, player, playing, since>>

\* Mutant of AddSound: a waiting player is not remembered as served.
AddSound_drainer_kept ==
    /\ filesrv # Nil
    /\ filesrv' = Nil
    /\ IF filesrv = lastadded
       THEN UNCHANGED <<soundlist, lastadded, player, playing, since>>
       ELSE /\ lastadded' = filesrv
            /\ since' = since \cup {filesrv}
            /\ IF drainer
               THEN player = "wait" /\ player' = "play" /\ playing' = filesrv /\ UNCHANGED soundlist
               ELSE soundlist' = <<filesrv>> \o soundlist /\ UNCHANGED <<player, playing>>
    /\ UNCHANGED <<drainer, writes>>

\* Mutant of AddSound: a waiting player is overlooked.
AddSound_no_handoff ==
    /\ filesrv # Nil
    /\ filesrv' = Nil
    /\ soundlist' = IF filesrv = lastadded THEN soundlist ELSE <<filesrv>> \o soundlist
    /\ since' = since \cup {filesrv}
    /\ lastadded' = filesrv
    /\ UNCHANGED <<drainer, player, playing, writes>>

\* <-csoundlistadd: a repetition is dropped, a waiting player is served,
\* otherwise the sound goes to the head of the list.
AddSound ==
    /\ filesrv # Nil
    /\ filesrv' = Nil
    /\ IF filesrv = lastadded
       THEN UNCHANGED <<soundlist, lastadded, drainer, player, playing, since>>
       ELSE /\ lastadded' = filesrv
            /\ since' = since \cup {filesrv}
            /\ IF drainer
               THEN /\ player = "wait"
                    /\ player' = "play" /\ playing' = filesrv
                    /\ drainer' = FALSE
                    /\ UNCHANGED soundlist
               ELSE /\ soundlist' = <<filesrv>> \o soundlist
                    /\ UNCHANGED <<drainer, player, playing>>
    /\ UNCHANGED writes

\* Mutant of NextSound: lastadded survives an idle player.
NextSound_lastadded_kept ==
    /\ player = "ask"
    /\ IF soundlist # <<>>
       THEN /\ playing' = Head(soundlist) /\ player' = "play"
            /\ soundlist' = Tail(soundlist)
            /\ UNCHANGED <<lastadded, drainer, since>>
       ELSE /\ drainer' = TRUE /\ player' = "wait" /\ since' = {}
            /\ UNCHANGED <<soundlist, playing, lastadded>>
    /\ UNCHANGED <<filesrv, writes>>

\* <-csoundlistnext: the newest sound is handed out, or the player becomes
\* the drainer and repetitions count afresh.
NextSound ==
    /\ player = "ask"
    /\ IF soundlist # <<>>
       THEN /\ playing' = Head(soundlist) /\ player' = "play"
            /\ soundlist' = Tail(soundlist)
            /\ UNCHANGED <<lastadded, drainer, since>>
       ELSE /\ drainer' = TRUE /\ player' = "wait"
            /\ lastadded' = Nil /\ since' = {}
            /\ UNCHANGED <<soundlist, playing>>
    /\ UNCHANGED <<filesrv, writes>>

\* sp->play returns.
Played ==
    /\ player = "play"
    /\ player' = "ask" /\ playing' = Nil
    /\ UNCHANGED <<filesrv, soundlist, lastadded, drainer, writes, since>>

\* Nothing is pending and the player waits for the next write.
Idle == player = "wait" /\ filesrv = Nil /\ UNCHANGED vars

Next == (\E s \in Sounds : Write(s)) \/ AddSound \/ NextSound \/ Played \/ Idle

Spec == Init /\ [][Next]_vars

\* soundlistproc's alt takes whichever channel is ready and play returns.
FairSpec == Spec /\ SF_vars(AddSound) /\ SF_vars(NextSound) /\ WF_vars(Played)

----------------------------------------------------------------------------
(* Properties *)

\* Every variable has its type.
TypeOK ==
    /\ filesrv \in Sounds \cup {Nil}
    /\ soundlist \in Seq(Sounds)
    /\ lastadded \in Sounds \cup {Nil}
    /\ drainer \in BOOLEAN
    /\ player \in {"ask", "wait", "play"}
    /\ playing \in Sounds \cup {Nil}
    /\ writes \in 0..MaxWrites
    /\ since \subseteq Sounds

\* The drainer is a player that really waits, and it never waits while a
\* sound is pending: no wake-up is lost and none goes to a busy player.
DrainerWaits ==
    /\ drainer <=> player = "wait"
    /\ drainer => soundlist = <<>>

\* A repetition is dropped only if the same sound was handed out or queued
\* since the player last ran dry: the first sound after silence is heard.
DropIsRepetition ==
    [][AddSound /\ soundlist' = soundlist /\ playing' = playing => filesrv \in since]_vars

\* A sound that is pending is played once the writers pause: the list runs
\* empty and the player waits.
ListDrains == soundlist # <<>> ~> (soundlist = <<>> /\ player = "wait")
=============================================================================
