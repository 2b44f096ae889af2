--------------------------- MODULE MCSoundDaemon ---------------------------
(***************************************************************************)
(* A small instance of SoundDaemon for TLC.                                 *)
(***************************************************************************)
EXTENDS SoundDaemon, TLC
=============================================================================
