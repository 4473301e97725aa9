---------------------------- MODULE MCReconnect ----------------------------
(***************************************************************************)
(* Instances of Reconnect for TLC.                                         *)
(***************************************************************************)
EXTENDS Reconnect

CONSTANTS r1, r2, q1, q2
=============================================================================
