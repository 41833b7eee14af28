---------------------------- MODULE MCSignalSession ----------------------------
(* Small instances of SignalSession for TLC.                               *)
EXTENDS SignalSession

Way(faults, posts, reloads) == [faults |-> faults, posts |-> posts, reloads |-> reloads]

Reliable == Way({}, 3, 0)
Reloading == Way({"lose"}, 2, 2)
LossyDamaging == Way({"lose", "damage"}, 3, 0)
Replaying == Way({"reorder", "duplicate"}, 2, 1)

AllWays == {Reliable, Reloading, LossyDamaging, Replaying}
ReliableWay == {Way({}, 2, 0)}
UnorderedWay == {Way({"reorder"}, 2, 0)}
================================================================================
