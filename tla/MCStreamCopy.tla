---------------------------- MODULE MCStreamCopy ----------------------------
(***************************************************************************)
(* Instances of StreamCopy for TLC.                                        *)
(***************************************************************************)
EXTENDS StreamCopy

CONSTANTS t1
=============================================================================
