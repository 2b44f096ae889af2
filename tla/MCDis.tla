------------------------------- MODULE MCDis -------------------------------
(* Three processes, a synchronous channel and one with a slot. *)
EXTENDS Dis, TLC

CONSTANTS p1, p2, p3, sync, slot, v1, v2

\* The first process is not interchangeable with the others.
Symmetric ==
    {f @@ g : f \in Permutations(Progs \ {First}), g \in Permutations(Vals)}

MCSlots == [c \in Chans |-> IF c = slot THEN 1 ELSE 0]

\* An alt that sends on one channel and receives on another, one that receives
\* on both, and one that offers both directions of the same channel.
MCAlts == {[s |-> {sync}, r |-> {slot}],
           [s |-> {}, r |-> {sync, slot}],
           [s |-> {sync}, r |-> {sync}]}

=============================================================================
