------------------------------- MODULE Progq --------------------------------
(***************************************************************************)
(* Queues of processes (Progq of libinterp): an element joins at the end    *)
(* (cqadd), the head is served first (cqdel), and an element that no longer *)
(* waits is taken out wherever it stands.                                   *)
(***************************************************************************)
EXTENDS Naturals, Sequences

\* cqdelp and delrunq: q without p, which is in it once at most.
Without(q, p) ==
    LET at == {i \in 1..Len(q) : q[i] = p} IN
    IF at = {} THEN q
    ELSE LET k == CHOOSE i \in at : TRUE
         IN  [j \in 1..(Len(q) - 1) |-> IF j < k THEN q[j] ELSE q[j + 1]]

=============================================================================
