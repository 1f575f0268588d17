--------------------------- MODULE PriorityQueue ---------------------------
(***************************************************************************)
(* What the gossip queue of a node promises about scheduling, without the  *)
(* messages: how many wait in each class, how many may wait in all, and    *)
(* which class is served next.  Gossip implements this specification for   *)
(* each of its senders.                                                    *)
(***************************************************************************)
EXTENDS Naturals

CONSTANT Capacity       \* GossipQueue::max_queue_size

VARIABLE waiting        \* class -> number of messages waiting

Class == {"Critical", "High", "Normal", "Low"}

Waiting == waiting["Critical"] + waiting["High"] + waiting["Normal"] + waiting["Low"]

\* The classes served before class c.
Before(c) == CASE c = "Critical" -> {}
               [] c = "High"     -> {"Critical"}
               [] c = "Normal"   -> {"Critical", "High"}
               [] c = "Low"      -> {"Critical", "High", "Normal"}

PQInit == waiting = [c \in Class |-> 0]

Arrive(c) ==
    /\ Waiting < Capacity
    /\ waiting' = [waiting EXCEPT ![c] = @ + 1]

Serve(c) ==
    /\ waiting[c] > 0
    /\ \A d \in Before(c) : waiting[d] = 0
    /\ waiting' = [waiting EXCEPT ![c] = @ - 1]

PQNext == \E c \in Class : Arrive(c) \/ Serve(c)

PQSpec == PQInit /\ [][PQNext]_waiting
=============================================================================
