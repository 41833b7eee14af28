---------------------------- MODULE MCPreKeyServer ----------------------------
(* Small instances of PreKeyServer for TLC.                                *)
EXTENDS PreKeyServer

CONSTANTS p1, p2, g1, g2, g3
=============================================================================
