----------------------------- MODULE MCDevSrv -----------------------------
(* Small instances of DevSrv for TLC. *)
EXTENDS DevSrv
===========================================================================
