------------------------------- MODULE Gossip -------------------------------
(***************************************************************************)
(* Gossip between nodes (p2p/src/gossip.rs, P2pNode::send_gossip in        *)
(* p2p/src/node.rs): each sender numbers its messages and queues them by   *)
(* priority, the network carries what is dequeued, and a receiver filters  *)
(* what it has seen already.                                               *)
(*                                                                         *)
(* The network is external: a message on it may be delivered late, out of  *)
(* order, several times or never.  The receiver's filter works on the      *)
(* sequence number alone (check_and_mark takes nothing else).              *)
(***************************************************************************)
EXTENDS Naturals, Sequences, FiniteSets, Functions

CONSTANTS
    Sender,
    Kinds,              \* variants of P2pMessage that are sent
    Tiers,              \* subscription tiers of the callers; send_gossip: archive
    max_queue_size,     \* GossipQueue
    Limits,             \* what SeenMessages::new may be given
    MaxSequence         \* bound: messages per sender

ASSUME SizesAssumption ==
    max_queue_size \in Nat /\ Limits \subseteq Nat /\ MaxSequence \in Nat
ASSUME SenderAssumption == IsFiniteSet(Sender) /\ Sender # {}
ASSUME MessageAssumption ==
    /\ Tiers \subseteq {"archive", "standard", "premium"}
    /\ Kinds \subseteq {"HeartbeatAck", "Heartbeat", "NodeJoin", "ChunkAnnounce",
                        "ChunkRequest", "LedgerSync", "LedgerRequest",
                        "ChallengeRequest", "ChallengeResponse",
                        "ReplicationRequest", "ChunkResponse"}

VARIABLES
    queues,             \* GossipQueue::queues of each sender
    sequence_counter,   \* GossipQueue::sequence_counter of each sender
    network,            \* external: messages dequeued and broadcast
    seen,               \* SeenMessages::seen of the receiver
    max_size,           \* SeenMessages::max_size, for good
    accepted, rejected  \* history: messages the filter let through, or not

senderVars == <<queues, sequence_counter, network>>
receiverVars == <<seen, max_size, accepted, rejected>>
gossipVars == <<queues, sequence_counter, network, seen, max_size, accepted, rejected>>

MessagePriority == {"Critical", "High", "Normal", "Low"}

subscription_weight_from_tier(tier) ==
    CASE tier = "premium" -> 3 [] tier = "standard" -> 2 [] OTHER -> 1

\* The priority of a message of the given kind for a subscriber of weight w.
get_message_priority(kind, w) ==
    CASE kind = "HeartbeatAck" -> "Low"
      [] kind \in {"Heartbeat", "NodeJoin"} -> "Normal"
      [] kind \in {"ChunkAnnounce", "ChunkRequest"} ->
            IF w >= 3 THEN "High" ELSE "Normal"
      [] kind \in {"LedgerSync", "LedgerRequest", "ChallengeRequest",
                   "ChallengeResponse"} -> "High"
      [] kind = "ReplicationRequest" -> IF w >= 3 THEN "Critical" ELSE "High"
      [] kind = "ChunkResponse" -> IF w >= 2 THEN "High" ELSE "Normal"

GossipInit ==
    /\ queues = [n \in Sender |-> [q \in MessagePriority |-> <<>>]]
    /\ sequence_counter = [n \in Sender |-> 0]
    /\ network = {}
    /\ seen = {} /\ max_size \in Limits
    /\ accepted = {} /\ rejected = {}

-----------------------------------------------------------------------------
(* GossipQueue *)

Queued(n) == Len(queues[n]["Critical"]) + Len(queues[n]["High"])
             + Len(queues[n]["Normal"]) + Len(queues[n]["Low"])

\* Mistake: a refused message uses a number up.
enqueue_counts_refused(n, priority) ==
    /\ sequence_counter[n] < MaxSequence
    /\ queues' = IF Queued(n) >= max_queue_size THEN queues
                 ELSE [queues EXCEPT ![n][priority] =
                         Append(@, [sender |-> n, sequence |-> sequence_counter[n]])]
    /\ sequence_counter' = [sequence_counter EXCEPT ![n] = @ + 1]

\* A full queue is an error, and uses no number up.
enqueue(n, priority) ==
    /\ Queued(n) < max_queue_size
    /\ sequence_counter[n] < MaxSequence
    /\ queues' = [queues EXCEPT ![n][priority] =
                    Append(@, [sender |-> n, sequence |-> sequence_counter[n]])]
    /\ sequence_counter' = [sequence_counter EXCEPT ![n] = @ + 1]

\* The classes that are looked at before class q.
Higher(q) == CASE q = "Critical" -> {}
               [] q = "High"     -> {"Critical"}
               [] q = "Normal"   -> {"Critical", "High"}
               [] q = "Low"      -> {"Critical", "High", "Normal"}

\* Mistake: the lowest class that has a message is served.
dequeue_lowest(n) ==
    \E q \in MessagePriority :
        /\ queues[n][q] # <<>>
        /\ \A h \in MessagePriority : q \in Higher(h) => queues[n][h] = <<>>
        /\ queues' = [queues EXCEPT ![n][q] = Tail(@)]
        /\ network' = network \cup {Head(queues[n][q])}
        /\ UNCHANGED <<sequence_counter, receiverVars>>

\* The first message of the highest class that has one goes out.
dequeue(n) ==
    \E q \in MessagePriority :
        /\ queues[n][q] # <<>>
        /\ \A h \in Higher(q) : queues[n][h] = <<>>
        /\ queues' = [queues EXCEPT ![n][q] = Tail(@)]
        /\ network' = network \cup {Head(queues[n][q])}
        /\ UNCHANGED <<sequence_counter, receiverVars>>

\* P2pNode::send_gossip; callers of the queue itself may use other tiers.
send_gossip(n, kind, tier) ==
    /\ enqueue(n, get_message_priority(kind, subscription_weight_from_tier(tier)))
    /\ UNCHANGED <<network, receiverVars>>

-----------------------------------------------------------------------------
(* SeenMessages *)

\* HashSet::retain drops the first max_size / 2 numbers of an unspecified order,
\* none where the limit is less than two.
Survivors ==
    IF Cardinality(seen) >= max_size
    THEN {keep \in SUBSET seen :
            Cardinality(keep) = Cardinality(seen) - max_size \div 2}
    ELSE {seen}

\* Mistake: a full filter makes no room.
check_and_mark_unbounded(m) ==
    IF m.sequence \in seen
    THEN /\ rejected' = rejected \cup {m}
         /\ UNCHANGED <<seen, accepted>>
    ELSE /\ seen' = seen \cup {m.sequence}
         /\ accepted' = accepted \cup {m}
         /\ UNCHANGED rejected

check_and_mark(m) ==
    IF m.sequence \in seen
    THEN /\ rejected' = rejected \cup {m}
         /\ UNCHANGED <<seen, accepted>>
    ELSE /\ \E keep \in Survivors : seen' = keep \cup {m.sequence}
         /\ accepted' = accepted \cup {m}
         /\ UNCHANGED rejected

Receive ==
    /\ \E m \in network : check_and_mark(m)
    /\ UNCHANGED <<senderVars, max_size>>

GossipNext ==
    \/ \E n \in Sender, kind \in Kinds, tier \in Tiers : send_gossip(n, kind, tier)
    \/ \E n \in Sender : dequeue(n)
    \/ Receive

GossipSpec == GossipInit /\ [][GossipNext]_gossipVars

-----------------------------------------------------------------------------
(* Properties *)

Message == [sender : Sender, sequence : 0..(MaxSequence - 1)]

\* The type invariant.
GossipTypeOK ==
    /\ queues \in [Sender -> [MessagePriority -> Seq(Message)]]
    /\ sequence_counter \in [Sender -> 0..MaxSequence]
    /\ network \subseteq Message
    /\ seen \subseteq 0..(MaxSequence - 1)
    /\ max_size \in Limits
    /\ accepted \subseteq network /\ rejected \subseteq network

\* Sequence numbers of sender n that wait in its queues.
Pending(n) == UNION {{m.sequence : m \in Range(queues[n][q])} : q \in MessagePriority}
Broadcast(n) == {m.sequence : m \in {x \in network : x.sender = n}}

\* No message is lost, duplicated or renumbered on its way through the queue:
\* the numbers given out are exactly those waiting and those broadcast, no
\* number is both, none waits twice, and within a class messages wait in the
\* order in which they were queued.
NothingLost ==
    \A n \in Sender :
        /\ Pending(n) \cup Broadcast(n) = 0..(sequence_counter[n] - 1)
        /\ Pending(n) \cap Broadcast(n) = {}
        /\ Cardinality(Pending(n)) = Queued(n)
        /\ \A q \in MessagePriority : \A i, j \in 1..Len(queues[n][q]) :
             i < j => queues[n][q][i].sequence < queues[n][q][j].sequence

\* The filter forgets no sooner than it must and only as much as it must: until
\* more than max_size different numbers were let through it remembers every one
\* of them, so no message passes twice; afterwards it holds at most max_size of
\* them and more than half as many.  A limit of less than two halves to zero:
\* then nothing is ever forgotten, and the limit limits nothing.  A message is
\* rejected only where it was let through before, or another sender's message
\* of the same number was.
FilterSound ==
    LET numbers == {m.sequence : m \in accepted} IN
    /\ seen \subseteq numbers
    /\ max_size < 2 \/ Cardinality(numbers) <= max_size => seen = numbers
    /\ max_size >= 2 /\ Cardinality(numbers) > max_size =>
         Cardinality(seen) \in (max_size - max_size \div 2 + 1)..max_size
    /\ \A m \in rejected \ accepted :
         \E x \in accepted : x.sequence = m.sequence /\ x.sender # m.sender

\* What check_and_mark says of its answer, "true if the message is new (not seen
\* before)": a message that is turned away has been let through before.  It does
\* not hold with two senders, who number their messages alike.
NewIsAccepted == rejected \subseteq accepted

\* A sender's queue implements the priority queue: what waits in each class
\* changes by arrivals within the capacity and by serving the highest class.
\* Senders are independent and alike, so any one of them may be watched.
Watched == CHOOSE n \in Sender : TRUE
Scheduling == INSTANCE PriorityQueue
    WITH Capacity <- max_queue_size,
         waiting <- [q \in MessagePriority |-> Len(queues[Watched][q])]
SchedulingSpec == Scheduling!PQSpec
=============================================================================
