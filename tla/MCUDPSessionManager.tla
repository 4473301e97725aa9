------------------------ MODULE MCUDPSessionManager ------------------------
(***************************************************************************)
(* Instances of UDPSessionManager for TLC.                                 *)
(***************************************************************************)
EXTENDS UDPSessionManager, TLC

CONSTANTS s1, s2, e1, e2, e3

MCSymmetry == Permutations({s1, s2}) \cup Permutations({e1, e2, e3})
=============================================================================
