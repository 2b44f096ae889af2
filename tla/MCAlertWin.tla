---------------------------- MODULE MCAlertWin ----------------------------
(* A small instance of AlertWin for TLC. *)
EXTENDS AlertWin
===========================================================================
