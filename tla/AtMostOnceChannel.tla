-------------------------- MODULE AtMostOnceChannel --------------------------
(***************************************************************************)
(* What a session promises to the application above it: two parties post   *)
(* messages to each other; each message is handed to its addressee at most *)
(* once, in any order or never, and nothing is handed over that was not    *)
(* posted.  A message is named by its place among its sender's messages.   *)
(***************************************************************************)
EXTENDS Naturals, Sequences, SequencesExt

VARIABLES posted,    \* posted[p]: how many messages p has posted
          handed     \* handed[p]: the peer's messages handed to p, in order

Party == {"alice", "bob"}
Peer(p) == IF p = "alice" THEN "bob" ELSE "alice"

vars == <<posted, handed>>

Init ==
    /\ posted = [p \in Party |-> 0]
    /\ handed = [p \in Party |-> <<>>]

Post(p) ==
    /\ posted' = [posted EXCEPT ![p] = @ + 1]
    /\ UNCHANGED handed

HandOver(p) ==
    /\ \E i \in 1 .. posted[Peer(p)] :
        /\ \A j \in 1 .. Len(handed[p]) : handed[p][j] # i
        /\ handed' = [handed EXCEPT ![p] = Append(@, i)]
    /\ UNCHANGED posted

Next == \E p \in Party : Post(p) \/ HandOver(p)

Spec == Init /\ [][Next]_vars
=============================================================================
