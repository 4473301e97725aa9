---------------------------- MODULE MCH3sHandler ----------------------------
(***************************************************************************)
(* Instances of H3sHandler for TLC.                                        *)
(***************************************************************************)
EXTENDS H3sHandler

CONSTANTS r1, r2, t1, t2
=============================================================================
