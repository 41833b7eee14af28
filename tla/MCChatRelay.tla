------------------------------ MODULE MCChatRelay ------------------------------
(* Small instances of ChatRelay for TLC.                                   *)
EXTENDS ChatRelay, TLC

CONSTANTS a1, a2, b1

OnePageEach == a1 :> "alice" @@ b1 :> "bob"
TwoPagesOfAlice == a1 :> "alice" @@ a2 :> "alice" @@ b1 :> "bob"
================================================================================
