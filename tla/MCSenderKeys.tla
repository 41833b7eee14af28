----------------------------- MODULE MCSenderKeys -----------------------------
(* Small instances of SenderKeys for TLC.                                  *)
EXTENDS SenderKeys

CONSTANT m1
===============================================================================
