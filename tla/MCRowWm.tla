------------------------------ MODULE MCRowWm ------------------------------
(***************************************************************************)
(* Small instances of RowWm for TLC.                                        *)
(***************************************************************************)
EXTENDS RowWm, TLC

\* Clients differ only in whether they are interactive.
Symmetry == Permutations(Interactive) \cup Permutations(Clients \ Interactive)
=============================================================================
