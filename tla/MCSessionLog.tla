---------------------------- MODULE MCSessionLog ----------------------------
(* Instance of SessionLog for TLC. *)
EXTENDS SessionLog
=============================================================================
