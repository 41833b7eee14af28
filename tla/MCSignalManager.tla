---------------------------- MODULE MCSignalManager ----------------------------
(* A small instance of SignalManager for TLC.                              *)
EXTENDS SignalManager

CONSTANTS peer, group, me, old, new
================================================================================
