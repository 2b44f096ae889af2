------------------------- MODULE SoundDaemon_proofs -------------------------
(***************************************************************************)
(* Proofs about SoundDaemon, for every set of sounds and every number of    *)
(* writes.                                                                  *)
(***************************************************************************)
EXTENDS SoundDaemon, TLAPS

\* The inductive invariant: besides the properties, lastadded is one of the
\* sounds accepted since silence, and playing is set only while playing.
IInv ==
    /\ TypeOK
    /\ DrainerWaits
    /\ lastadded \in since \cup {Nil}
    /\ player # "play" => playing = Nil

\* The initial state, with an empty list and nobody waiting, satisfies it.
LEMMA InitIInv == Init => IInv
<1> SUFFICES ASSUME Init PROVE IInv
  OBVIOUS
<1> USE SoundsAssumption DEF Init
<1>1. TypeOK
  <2>1. soundlist \in Seq(Sounds) /\ writes \in 0..MaxWrites
    OBVIOUS
  <2> QED BY <2>1, Zenon DEF TypeOK
<1>2. DrainerWaits
  <2>1. ~drainer
    BY Zenon
  <2>2. player # "wait"
    OBVIOUS
  <2> QED BY <2>1, <2>2 DEF DrainerWaits
<1>3. lastadded \in since \cup {Nil} /\ (player # "play" => playing = Nil)
  OBVIOUS
<1> QED BY <1>1, <1>2, <1>3 DEF IInv

\* Consing a sound on the list gives another list of sounds.
LEMMA ConsSounds ==
    ASSUME NEW s \in Sounds, NEW l \in Seq(Sounds)
    PROVE  <<s>> \o l \in Seq(Sounds) /\ <<s>> \o l # l
<1>1. <<s>> \in Seq(Sounds)
  OBVIOUS
<1>2. Len(<<s>> \o l) = 1 + Len(l)
  BY <1>1
<1>3. Len(l) \in Nat
  OBVIOUS
<1> QED BY <1>1, <1>2, <1>3

\* Every step of sound-daemon.b preserves the invariant.
LEMMA NextIInv == IInv /\ [Next]_vars => IInv'
<1> SUFFICES ASSUME IInv, [Next]_vars PROVE IInv'
  OBVIOUS
<1> USE SoundsAssumption DEF IInv, TypeOK, DrainerWaits
<1>1. ASSUME NEW s \in Sounds, Write(s) PROVE IInv'
  BY <1>1 DEF Write
<1>2. CASE AddSound
  <2>1. CASE filesrv = lastadded
    BY <1>2, <2>1 DEF AddSound
  <2>2. CASE filesrv # lastadded /\ drainer
    BY <1>2, <2>2 DEF AddSound
  <2>3. CASE filesrv # lastadded /\ ~drainer
    <3>1. filesrv \in Sounds
      BY <1>2 DEF AddSound
    <3>2. soundlist' \in Seq(Sounds)
      BY <1>2, <2>3, <3>1, ConsSounds DEF AddSound
    <3> QED BY <1>2, <2>3, <3>1, <3>2 DEF AddSound
  <2> QED BY <2>1, <2>2, <2>3
<1>3. CASE NextSound
  <2>1. CASE soundlist # <<>>
    BY <1>3, <2>1 DEF NextSound
  <2>2. CASE soundlist = <<>>
    BY <1>3, <2>2 DEF NextSound
  <2> QED BY <2>1, <2>2
<1>4. CASE Played
  BY <1>4 DEF Played
<1>5. CASE Idle
  BY <1>5 DEF Idle, vars
<1>6. CASE UNCHANGED vars
  BY <1>6 DEF vars
<1> QED BY <1>1, <1>2, <1>3, <1>4, <1>5, <1>6 DEF Next

\* Type correctness of sound-daemon.b.
THEOREM TypeCorrect == Spec => []TypeOK
<1>1. IInv => TypeOK
  BY DEF IInv
<1> QED BY InitIInv, NextIInv, <1>1, PTL DEF Spec

\* soundlistproc: the drainer is a waiting player and no sound is pending
\* while one waits.
THEOREM DrainerAlwaysWaits == Spec => []DrainerWaits
<1>1. IInv => DrainerWaits
  BY DEF IInv
<1> QED BY InitIInv, NextIInv, <1>1, PTL DEF Spec

\* soundlistproc: a sound is dropped only as a repetition since silence.
THEOREM DropsOnlyRepetitions == Spec => DropIsRepetition
<1>1. IInv /\ [Next]_vars =>
        [AddSound /\ soundlist' = soundlist /\ playing' = playing => filesrv \in since]_vars
  <2> SUFFICES ASSUME IInv, AddSound, soundlist' = soundlist, playing' = playing
               PROVE  filesrv \in since
    OBVIOUS
  <2> USE SoundsAssumption DEF IInv, TypeOK, DrainerWaits
  <2>1. filesrv \in Sounds
    BY DEF AddSound
  <2>2. CASE filesrv = lastadded
    BY <2>1, <2>2
  <2>3. CASE filesrv # lastadded /\ drainer
    BY <2>1, <2>3 DEF AddSound
  <2>4. CASE filesrv # lastadded /\ ~drainer
    BY <2>1, <2>4, ConsSounds DEF AddSound
  <2> QED BY <2>2, <2>3, <2>4
<1> QED BY InitIInv, NextIInv, <1>1, PTL DEF Spec, DropIsRepetition
=============================================================================
