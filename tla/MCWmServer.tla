----------------------------- MODULE MCWmServer -----------------------------
(***************************************************************************)
(* Small instances of WmServer for TLC.                                     *)
(***************************************************************************)
EXTENDS WmServer, TLC
=============================================================================
