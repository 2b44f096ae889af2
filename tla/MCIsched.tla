----------------------------- MODULE MCIsched -----------------------------
(* Small instances of Isched for TLC. *)
EXTENDS Isched
===========================================================================
