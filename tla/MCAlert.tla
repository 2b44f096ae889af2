------------------------------ MODULE MCAlert ------------------------------
(***************************************************************************)
(* Small instances of Alert for TLC.                                        *)
(***************************************************************************)
EXTENDS Alert, TLC

\* Watchers are chosen by freshness and ringers by availability only.
Symmetry == Permutations(Watchers) \cup Permutations(Ringers)
=============================================================================
