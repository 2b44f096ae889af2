--------------------------- MODULE MCChildminder ---------------------------
(***************************************************************************)
(* Small instances of Childminder for TLC.                                  *)
(***************************************************************************)
EXTENDS Childminder, TLC
=============================================================================
