------------------------------- MODULE OneAtATime -------------------------------
(***************************************************************************)
(* What SignalProtocolManager promises of its operations on records:       *)
(* "serializing per peer removes the interleaving" (signal/index.ts:92-99).*)
(* The operations of one queue happen one at a time, in the order in which *)
(* they are called, and each starts from what the one before it left.      *)
(***************************************************************************)
EXTENDS Naturals, Sequences

CONSTANTS Queues, Cells     \* the queues, and the stored records

VARIABLES calls,            \* calls[i]: the queue and the record of call i
          done,             \* the calls that have settled
          record            \* record[c]: the calls that made record c what it is

Init ==
    /\ calls = <<>>
    /\ done = {}
    /\ record = [c \in Cells |-> <<>>]

Call ==
    /\ \E q \in Queues, c \in Cells :
          calls' = Append(calls, [queue |-> q, cell |-> c])
    /\ UNCHANGED <<done, record>>

(* Failed; advanced from what is there; made anew; made and advanced.      *)
Outcomes(r, i) == {r, Append(r, i), <<i>>, <<i, i>>}

Perform(i) ==
    /\ i \notin done
    /\ \A j \in 1 .. i - 1 : calls[j].queue = calls[i].queue => j \in done
    /\ done' = done \cup {i}
    /\ \E r \in Outcomes(record[calls[i].cell], i) :
          record' = [record EXCEPT ![calls[i].cell] = r]
    /\ UNCHANGED calls

Next == Call \/ \E i \in 1 .. Len(calls) : Perform(i)

Spec == Init /\ [][Next]_<<calls, done, record>>
=============================================================================
