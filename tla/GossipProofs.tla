---------------------------- MODULE GossipProofs ----------------------------
(* Proofs about Gossip, for any senders, message kinds, capacities of the   *)
(* queue and of the filter, and any number of messages.                    *)
EXTENDS Gossip, SequenceTheorems, FiniteSetTheorems, TLAPS

USE SizesAssumption, SenderAssumption, MessageAssumption

\* The table of priorities covers every kind of message and every weight.
LEMMA PriorityTyped ==
    ASSUME NEW kind \in Kinds, NEW w
    PROVE  get_message_priority(kind, w) \in MessagePriority
BY DEF get_message_priority, MessagePriority

-----------------------------------------------------------------------------
(* The inductive invariant *)

\* A waiting message carries its sender's name and a number given out.
Owned ==
    \A n \in Sender, q \in MessagePriority : \A i \in 1..Len(queues[n][q]) :
        /\ queues[n][q][i].sender = n
        /\ queues[n][q][i].sequence < sequence_counter[n]

\* So does a message on the wire, and it waits no longer.
Sent ==
    /\ \A m \in network : m.sequence < sequence_counter[m.sender]
    /\ \A n \in Sender, q \in MessagePriority : \A i \in 1..Len(queues[n][q]) :
         queues[n][q][i] \notin network

\* Within a class the numbers increase.
Ordered ==
    \A n \in Sender, q \in MessagePriority : \A i, j \in 1..Len(queues[n][q]) :
        i < j => queues[n][q][i].sequence < queues[n][q][j].sequence

\* No number waits in two classes.
Apart ==
    \A n \in Sender, q, r \in MessagePriority :
        \A i \in 1..Len(queues[n][q]), j \in 1..Len(queues[n][r]) :
            q # r => queues[n][q][i].sequence # queues[n][r][j].sequence

\* Every number given out waits or has been sent.
Complete ==
    \A n \in Sender : \A k \in 0..(sequence_counter[n] - 1) :
        \/ [sender |-> n, sequence |-> k] \in network
        \/ \E q \in MessagePriority : \E i \in 1..Len(queues[n][q]) :
             queues[n][q][i].sequence = k

\* As many numbers wait as there are messages.
Counted ==
    \A n \in Sender : /\ IsFiniteSet(Pending(n))
                      /\ Cardinality(Pending(n)) = Queued(n)

IInv == /\ GossipTypeOK /\ Owned /\ Sent /\ Ordered /\ Apart /\ Complete /\ Counted

\* What waits, position by position.
LEMMA NumbersWaiting ==
    ASSUME NEW Q \in [MessagePriority -> Seq(Message)]
    PROVE  \A k : k \in UNION {{m.sequence : m \in Range(Q[q])} : q \in MessagePriority} <=>
               \E q \in MessagePriority : \E i \in 1..Len(Q[q]) : Q[q][i].sequence = k
<1>1. \A q \in MessagePriority : DOMAIN Q[q] = 1..Len(Q[q])
  BY LenProperties
<1> QED BY <1>1 DEF Range

LEMMA PendingMember ==
    ASSUME GossipTypeOK, NEW n \in Sender
    PROVE  \A k : k \in Pending(n) <=>
               \E q \in MessagePriority : \E i \in 1..Len(queues[n][q]) :
                   queues[n][q][i].sequence = k
<1>1. queues[n] \in [MessagePriority -> Seq(Message)]
  BY DEF GossipTypeOK
<1> QED BY <1>1, NumbersWaiting DEF Pending

\* The sum that Queued is made of, and how it changes with one class.
Total(Q) == Len(Q["Critical"]) + Len(Q["High"]) + Len(Q["Normal"]) + Len(Q["Low"])

LEMMA TotalStep ==
    ASSUME NEW Q, NEW R, NEW p \in MessagePriority, NEW d \in Int,
           \A q \in MessagePriority : Len(Q[q]) \in Nat,
           \A q \in MessagePriority :
               Len(R[q]) = IF q = p THEN Len(Q[q]) + d ELSE Len(Q[q])
    PROVE  Total(R) = Total(Q) + d /\ Total(Q) \in Nat
<1> DEFINE a == [q \in MessagePriority |-> Len(Q[q])]
           b == [q \in MessagePriority |-> Len(R[q])]
<1>1. a \in [MessagePriority -> Int] /\ b \in [MessagePriority -> Int]
  OBVIOUS
<1>2. b = [a EXCEPT ![p] = @ + d]
  OBVIOUS
<1>3. b["Critical"] + b["High"] + b["Normal"] + b["Low"]
      = a["Critical"] + a["High"] + a["Normal"] + a["Low"] + d
  <2> HIDE DEF a, b
  <2> QED BY <1>1, <1>2 DEF MessagePriority
<1>4. Total(R) = b["Critical"] + b["High"] + b["Normal"] + b["Low"]
  BY DEF Total, MessagePriority
<1>5. Total(Q) = a["Critical"] + a["High"] + a["Normal"] + a["Low"]
  BY DEF Total, MessagePriority
<1>6. /\ a["Critical"] \in Nat /\ a["High"] \in Nat
      /\ a["Normal"] \in Nat /\ a["Low"] \in Nat
  BY DEF MessagePriority
<1> QED
  <2> HIDE DEF a, b
  <2> QED BY <1>3, <1>4, <1>5, <1>6

LEMMA BroadcastMember ==
    ASSUME GossipTypeOK, NEW n \in Sender
    PROVE  \A k : k \in Broadcast(n) <=> [sender |-> n, sequence |-> k] \in network
<1>1. ASSUME NEW k, k \in Broadcast(n) PROVE [sender |-> n, sequence |-> k] \in network
  <2>1. PICK m \in network : m.sender = n /\ m.sequence = k
    BY <1>1 DEF Broadcast
  <2>2. m = [sender |-> n, sequence |-> k]
    BY <2>1 DEF GossipTypeOK, Message
  <2> QED BY <2>1, <2>2
<1>2. ASSUME NEW k, [sender |-> n, sequence |-> k] \in network PROVE k \in Broadcast(n)
  BY <1>2 DEF Broadcast
<1> QED BY <1>1, <1>2

\* The invariant says what NothingLost says.
LEMMA InvImpliesNothingLost == IInv => NothingLost
<1> SUFFICES ASSUME IInv, NEW n \in Sender
             PROVE  /\ Pending(n) \cup Broadcast(n) = 0..(sequence_counter[n] - 1)
                    /\ Pending(n) \cap Broadcast(n) = {}
                    /\ Cardinality(Pending(n)) = Queued(n)
                    /\ \A q \in MessagePriority : \A i, j \in 1..Len(queues[n][q]) :
                         i < j => queues[n][q][i].sequence < queues[n][q][j].sequence
  BY DEF NothingLost
<1> USE DEF IInv
<1>t. sequence_counter[n] \in Nat
  BY DEF GossipTypeOK
<1>1. ASSUME NEW q \in MessagePriority, NEW i \in 1..Len(queues[n][q])
      PROVE  /\ queues[n][q][i] \in Message
             /\ queues[n][q][i] = [sender |-> n, sequence |-> queues[n][q][i].sequence]
  <2>1. queues[n][q][i] \in Message
    BY ElementOfSeq DEF GossipTypeOK
  <2> QED BY <2>1 DEF Owned, Message
<1>2. Pending(n) \subseteq 0..(sequence_counter[n] - 1)
  <2> SUFFICES ASSUME NEW k \in Pending(n) PROVE k \in 0..(sequence_counter[n] - 1)
    OBVIOUS
  <2>1. PICK q \in MessagePriority :
               \E i \in 1..Len(queues[n][q]) : queues[n][q][i].sequence = k
    BY PendingMember
  <2>i. PICK i \in 1..Len(queues[n][q]) : queues[n][q][i].sequence = k
    BY <2>1
  <2>m. queues[n][q][i] \in Message
    BY <1>1
  <2>2. k \in Nat
    BY <2>i, <2>m DEF Message
  <2> QED BY <2>i, <2>2, <1>t DEF Owned
<1>3. Broadcast(n) \subseteq 0..(sequence_counter[n] - 1)
  <2> SUFFICES ASSUME NEW k \in Broadcast(n) PROVE k \in 0..(sequence_counter[n] - 1)
    OBVIOUS
  <2>1. [sender |-> n, sequence |-> k] \in network
    BY BroadcastMember
  <2>2. k \in Nat
    BY <2>1 DEF GossipTypeOK, Message
  <2>3. k < sequence_counter[n]
    BY <2>1 DEF Sent
  <2> QED BY <2>2, <2>3, <1>t
<1>4. 0..(sequence_counter[n] - 1) \subseteq Pending(n) \cup Broadcast(n)
  BY PendingMember, BroadcastMember DEF Complete
<1>5. Pending(n) \cap Broadcast(n) = {}
  <2> SUFFICES ASSUME NEW k \in Pending(n), k \in Broadcast(n) PROVE FALSE
    OBVIOUS
  <2>1. PICK q \in MessagePriority :
               \E i \in 1..Len(queues[n][q]) : queues[n][q][i].sequence = k
    BY PendingMember
  <2>i. PICK i \in 1..Len(queues[n][q]) : queues[n][q][i].sequence = k
    BY <2>1
  <2>2. queues[n][q][i] \in network
    BY <2>i, <1>1, BroadcastMember
  <2> QED BY <2>2 DEF Sent
<1> QED BY <1>2, <1>3, <1>4, <1>5 DEF Counted, Ordered

-----------------------------------------------------------------------------
(* Init *)

LEMMA InitInv == GossipInit => IInv
<1> SUFFICES ASSUME GossipInit PROVE IInv
  OBVIOUS
<1> USE DEF GossipInit
<1>1. GossipTypeOK
  BY DEF GossipTypeOK
<1>2. \A n \in Sender, q \in MessagePriority : Len(queues[n][q]) = 0
  OBVIOUS
<1>3. Owned /\ Sent /\ Ordered /\ Apart
  BY <1>2 DEF Owned, Sent, Ordered, Apart
<1>4. Complete
  BY DEF Complete
<1>5. ASSUME NEW n \in Sender PROVE Pending(n) = {} /\ Queued(n) = 0
  <2>1. Pending(n) = {}
    BY <1>1, <1>2, PendingMember
  <2>2. Queued(n) = 0
    BY <1>2 DEF Queued, MessagePriority
  <2> QED BY <2>1, <2>2
<1>6. Counted
  BY <1>5, FS_EmptySet DEF Counted
<1> QED BY <1>1, <1>3, <1>4, <1>6 DEF IInv

-----------------------------------------------------------------------------
(* enqueue *)

\* The queues after a message was appended, position by position.
LEMMA EnqueueStep ==
    ASSUME IInv, NEW n \in Sender, NEW p \in MessagePriority,
           enqueue(n, p), UNCHANGED <<network, receiverVars>>
    PROVE  IInv'
<1> USE DEF IInv
<1> DEFINE c == sequence_counter[n]
           m == [sender |-> n, sequence |-> c]
<1>t. /\ queues \in [Sender -> [MessagePriority -> Seq(Message)]]
      /\ sequence_counter \in [Sender -> 0..MaxSequence]
      /\ network \subseteq Message
  BY DEF GossipTypeOK
<1>w. /\ network' = network /\ seen' = seen /\ max_size' = max_size
      /\ accepted' = accepted /\ rejected' = rejected
  BY DEF receiverVars
<1>c. c \in Nat /\ c < MaxSequence
  BY <1>t DEF enqueue
<1>m. m \in Message
  BY <1>c DEF Message
<1>1. sequence_counter' = [sequence_counter EXCEPT ![n] = c + 1]
  BY DEF enqueue
<1>2. queues' = [queues EXCEPT ![n] = [queues[n] EXCEPT ![p] = Append(queues[n][p], m)]]
  BY <1>t DEF enqueue
<1>3. \A a \in Sender, q \in MessagePriority :
        queues'[a][q] = IF a = n /\ q = p THEN Append(queues[n][p], m) ELSE queues[a][q]
  BY <1>2, <1>t
<1>4. /\ Append(queues[n][p], m) \in Seq(Message)
      /\ Len(Append(queues[n][p], m)) = Len(queues[n][p]) + 1
      /\ \A i \in 1..Len(queues[n][p]) : Append(queues[n][p], m)[i] = queues[n][p][i]
      /\ Append(queues[n][p], m)[Len(queues[n][p]) + 1] = m
  <2>1. queues[n][p] \in Seq(Message)
    BY <1>t
  <2> QED BY <2>1, <1>m, AppendProperties
<1>l. \A a \in Sender, q \in MessagePriority : Len(queues[a][q]) \in Nat
  BY <1>t, LenProperties
<1>5. GossipTypeOK'
  <2>1. queues' \in [Sender -> [MessagePriority -> Seq(Message)]]
    BY <1>2, <1>4, <1>t
  <2>2. sequence_counter' \in [Sender -> 0..MaxSequence]
    BY <1>1, <1>c, <1>t
  <2> QED BY <2>1, <2>2, <1>w DEF GossipTypeOK, Message
\* Where a message of the new queues comes from.
<1>6. ASSUME NEW a \in Sender, NEW q \in MessagePriority
      PROVE  /\ \A i \in 1..Len(queues'[a][q]) :
                  \/ i \in 1..Len(queues[a][q]) /\ queues'[a][q][i] = queues[a][q][i]
                  \/ a = n /\ q = p /\ i = Len(queues[n][p]) + 1 /\ queues'[a][q][i] = m
             /\ \A i \in 1..Len(queues[a][q]) :
                  i \in 1..Len(queues'[a][q]) /\ queues'[a][q][i] = queues[a][q][i]
  <2>1. CASE a = n /\ q = p
    <3>1. queues'[a][q] = Append(queues[n][p], m)
      BY <2>1, <1>3
    <3> HIDE DEF m
    <3> QED BY <3>1, <2>1, <1>4, <1>l
  <2>2. CASE ~(a = n /\ q = p)
    <3>1. queues'[a][q] = queues[a][q]
      BY <2>2, <1>3
    <3> QED BY <3>1
  <2> QED BY <2>1, <2>2
<1>7. /\ Len(queues'[n][p]) = Len(queues[n][p]) + 1
      /\ Len(queues[n][p]) + 1 \in 1..Len(queues'[n][p])
      /\ queues'[n][p][Len(queues[n][p]) + 1] = m
  <2>1. queues'[n][p] = Append(queues[n][p], m)
    BY <1>3
  <2> HIDE DEF m
  <2> QED BY <2>1, <1>4, <1>l
<1>n. m.sender = n /\ m.sequence = c
  OBVIOUS
<1> HIDE DEF m
<1>s. \A a \in Sender, q \in MessagePriority : \A i \in 1..Len(queues[a][q]) :
        /\ queues[a][q][i].sequence \in Nat
        /\ queues[a][q][i].sequence < sequence_counter[a]
        /\ queues[a][q][i].sender = a
  <2> SUFFICES ASSUME NEW a \in Sender, NEW q \in MessagePriority, NEW i \in 1..Len(queues[a][q])
               PROVE  queues[a][q][i].sequence \in Nat
    BY DEF Owned
  <2>1. queues[a][q][i] \in Message
    BY <1>t, ElementOfSeq
  <2> QED BY <2>1 DEF Message
<1>g. \A a \in Sender : /\ sequence_counter[a] \in Nat
                        /\ sequence_counter'[a] = IF a = n THEN c + 1 ELSE sequence_counter[a]
  BY <1>1, <1>t
<1>8. Owned'
  <2> SUFFICES ASSUME NEW a \in Sender, NEW q \in MessagePriority,
                      NEW i \in 1..Len(queues'[a][q])
               PROVE  /\ queues'[a][q][i].sender = a
                      /\ queues'[a][q][i].sequence < sequence_counter'[a]
    BY DEF Owned
  <2>1. CASE i \in 1..Len(queues[a][q]) /\ queues'[a][q][i] = queues[a][q][i]
    <3>1. /\ queues[a][q][i].sequence \in Nat
          /\ queues[a][q][i].sequence < sequence_counter[a]
          /\ queues[a][q][i].sender = a
      BY <2>1, <1>s
    <3> QED BY <2>1, <3>1, <1>g, <1>c
  <2>2. CASE a = n /\ queues'[a][q][i] = m
    BY <2>2, <1>n, <1>g, <1>c
  <2> QED BY <2>1, <2>2, <1>6
<1>9. Sent'
  <2>1. ASSUME NEW x \in network PROVE x.sequence < sequence_counter'[x.sender]
    <3>1. x.sender \in Sender /\ x.sequence \in Nat
      BY <1>t DEF Message
    <3>2. x.sequence < sequence_counter[x.sender]
      BY DEF Sent
    <3> QED BY <3>1, <3>2, <1>g, <1>c
  <2>2. m \notin network
    BY <1>n, <1>c DEF Sent
  <2>3. ASSUME NEW a \in Sender, NEW q \in MessagePriority, NEW i \in 1..Len(queues'[a][q])
        PROVE  queues'[a][q][i] \notin network
    <3>1. CASE i \in 1..Len(queues[a][q]) /\ queues'[a][q][i] = queues[a][q][i]
      BY <3>1 DEF Sent
    <3>2. CASE queues'[a][q][i] = m
      BY <3>2, <2>2
    <3> QED BY <3>1, <3>2, <1>6
  <2> QED BY <2>1, <2>3, <1>w DEF Sent
<1>10. Ordered'
  <2> SUFFICES ASSUME NEW a \in Sender, NEW q \in MessagePriority,
                      NEW i \in 1..Len(queues'[a][q]), NEW j \in 1..Len(queues'[a][q]), i < j
               PROVE  queues'[a][q][i].sequence < queues'[a][q][j].sequence
    BY DEF Ordered
  <2>1. i \in 1..Len(queues[a][q]) /\ queues'[a][q][i] = queues[a][q][i]
    BY <1>3, <1>4, <1>6, <1>l
  <2>2. CASE j \in 1..Len(queues[a][q]) /\ queues'[a][q][j] = queues[a][q][j]
    BY <2>1, <2>2 DEF Ordered
  <2>3. CASE a = n /\ queues'[a][q][j] = m
    BY <2>1, <2>3, <1>n, <1>s, <1>c
  <2> QED BY <2>2, <2>3, <1>6
<1>11. Apart'
  <2> SUFFICES ASSUME NEW a \in Sender, NEW q \in MessagePriority, NEW r \in MessagePriority,
                      NEW i \in 1..Len(queues'[a][q]), NEW j \in 1..Len(queues'[a][r]), q # r
               PROVE  queues'[a][q][i].sequence # queues'[a][r][j].sequence
    BY DEF Apart
  <2>1. CASE /\ i \in 1..Len(queues[a][q]) /\ queues'[a][q][i] = queues[a][q][i]
             /\ j \in 1..Len(queues[a][r]) /\ queues'[a][r][j] = queues[a][r][j]
    BY <2>1 DEF Apart
  <2>2. CASE /\ i \in 1..Len(queues[a][q]) /\ queues'[a][q][i] = queues[a][q][i]
             /\ a = n /\ queues'[a][r][j] = m
    BY <2>2, <1>n, <1>s, <1>c
  <2>3. CASE /\ j \in 1..Len(queues[a][r]) /\ queues'[a][r][j] = queues[a][r][j]
             /\ a = n /\ queues'[a][q][i] = m
    BY <2>3, <1>n, <1>s, <1>c
  <2>4. \/ i \in 1..Len(queues[a][q]) /\ queues'[a][q][i] = queues[a][q][i]
        \/ a = n /\ q = p /\ queues'[a][q][i] = m
    BY <1>6
  <2>5. \/ j \in 1..Len(queues[a][r]) /\ queues'[a][r][j] = queues[a][r][j]
        \/ a = n /\ r = p /\ queues'[a][r][j] = m
    BY <1>6
  <2> QED BY <2>1, <2>2, <2>3, <2>4, <2>5
<1>12. Complete'
  <2> SUFFICES ASSUME NEW a \in Sender, NEW k \in 0..(sequence_counter'[a] - 1),
                      [sender |-> a, sequence |-> k] \notin network
               PROVE  \E q \in MessagePriority : \E i \in 1..Len(queues'[a][q]) :
                        queues'[a][q][i].sequence = k
    BY <1>w DEF Complete
  <2>1. CASE a = n /\ k = c
    BY <2>1, <1>7, <1>n
  <2>2. CASE ~(a = n /\ k = c)
    <3>1. k \in 0..(sequence_counter[a] - 1)
      BY <2>2, <1>g, <1>c
    <3>2. PICK q \in MessagePriority :
                 \E i \in 1..Len(queues[a][q]) : queues[a][q][i].sequence = k
      BY <3>1 DEF Complete
    <3>3. PICK i \in 1..Len(queues[a][q]) : queues[a][q][i].sequence = k
      BY <3>2
    <3>4. i \in 1..Len(queues'[a][q]) /\ queues'[a][q][i] = queues[a][q][i]
      BY <1>6
    <3> QED BY <3>3, <3>4
  <2> QED BY <2>1, <2>2
<1>13. Counted'
  <2> SUFFICES ASSUME NEW a \in Sender
               PROVE  IsFiniteSet(Pending(a)') /\ Cardinality(Pending(a)') = Queued(a)'
    BY DEF Counted
  <2>1. IsFiniteSet(Pending(a)) /\ Cardinality(Pending(a)) = Queued(a)
    BY DEF Counted
  <2>2. \A k : k \in Pending(a)' <=>
          \E q \in MessagePriority : \E i \in 1..Len(queues'[a][q]) :
            queues'[a][q][i].sequence = k
    <3>1. queues'[a] \in [MessagePriority -> Seq(Message)]
      BY <1>5 DEF GossipTypeOK
    <3> QED BY <3>1, NumbersWaiting DEF Pending
  <2>3. CASE a # n
    <3>1. Pending(a)' = Pending(a) /\ Queued(a)' = Queued(a)
      BY <2>3, <1>2, <1>t DEF Pending, Queued
    <3> QED BY <3>1, <2>1
  <2>4. CASE a = n
    <3>1. c \notin Pending(n)
      BY PendingMember, <1>s, <1>c
    <3>2. \A k : k \in Pending(n)' <=> k \in Pending(n) \cup {c}
      <4>1. ASSUME NEW k, k \in Pending(n)' PROVE k \in Pending(n) \cup {c}
        <5>1. PICK q \in MessagePriority : \E i \in 1..Len(queues'[n][q]) :
                     queues'[n][q][i].sequence = k
          BY <4>1, <2>2, <2>4
        <5>2. PICK i \in 1..Len(queues'[n][q]) : queues'[n][q][i].sequence = k
          BY <5>1
        <5>3. CASE i \in 1..Len(queues[n][q]) /\ queues'[n][q][i] = queues[n][q][i]
          BY <5>2, <5>3, PendingMember
        <5>4. CASE queues'[n][q][i] = m
          BY <5>2, <5>4, <1>n
        <5> QED BY <5>3, <5>4, <1>6
      <4>2. ASSUME NEW k \in Pending(n) PROVE k \in Pending(n)'
        <5>1. PICK q \in MessagePriority : \E i \in 1..Len(queues[n][q]) :
                     queues[n][q][i].sequence = k
          BY PendingMember
        <5>2. PICK i \in 1..Len(queues[n][q]) : queues[n][q][i].sequence = k
          BY <5>1
        <5>3. i \in 1..Len(queues'[n][q]) /\ queues'[n][q][i] = queues[n][q][i]
          BY <1>6
        <5> QED BY <5>2, <5>3, <2>2, <2>4
      <4>3. c \in Pending(n)'
        BY <1>7, <1>n, <2>2, <2>4
      <4> QED BY <4>1, <4>2, <4>3
    <3>3. Pending(n)' = Pending(n) \cup {c}
      BY <3>2
    <3>4. Queued(n)' = Queued(n) + 1
      <4>1. \A q \in MessagePriority :
              Len(queues'[n][q]) = IF q = p THEN Len(queues[n][q]) + 1 ELSE Len(queues[n][q])
        BY <1>3, <1>7
      <4>2. Total(queues'[n]) = Total(queues[n]) + 1
        <5> DEFINE Q == queues[n]
                   R == queues'[n]
        <5>1. \A q \in MessagePriority : Len(Q[q]) \in Nat
          BY <1>l
        <5>2. \A q \in MessagePriority :
                Len(R[q]) = IF q = p THEN Len(Q[q]) + 1 ELSE Len(Q[q])
          BY <4>1
        <5> HIDE DEF Q, R
        <5>3. Total(R) = Total(Q) + 1
          BY <5>1, <5>2, TotalStep
        <5> QED BY <5>3 DEF Q, R
      <4> QED BY <4>2 DEF Queued, Total
    <3> QED BY <3>1, <3>3, <3>4, <2>1, <2>4, FS_AddElement
  <2> QED BY <2>3, <2>4
<1> QED BY <1>5, <1>8, <1>9, <1>10, <1>11, <1>12, <1>13

-----------------------------------------------------------------------------
(* dequeue *)

LEMMA DequeueStep ==
    ASSUME IInv, NEW n \in Sender, dequeue(n)
    PROVE  IInv'
<1> USE DEF IInv
<1>p. PICK p \in MessagePriority :
        /\ queues[n][p] # <<>>
        /\ queues' = [queues EXCEPT ![n][p] = Tail(@)]
        /\ network' = network \cup {Head(queues[n][p])}
        /\ UNCHANGED <<sequence_counter, receiverVars>>
  BY DEF dequeue
<1> DEFINE s == queues[n][p]
           m == Head(s)
<1>t. /\ queues \in [Sender -> [MessagePriority -> Seq(Message)]]
      /\ sequence_counter \in [Sender -> 0..MaxSequence]
      /\ network \subseteq Message
  BY DEF GossipTypeOK
<1>w. /\ sequence_counter' = sequence_counter
      /\ seen' = seen /\ max_size' = max_size
      /\ accepted' = accepted /\ rejected' = rejected
  BY <1>p DEF receiverVars
<1>1. s \in Seq(Message) /\ s # <<>>
  BY <1>p, <1>t
<1>2. /\ m \in Message /\ m = s[1] /\ 1 \in 1..Len(s)
      /\ Tail(s) \in Seq(Message)
      /\ Len(Tail(s)) = Len(s) - 1
      /\ \A i \in 1..Len(Tail(s)) : Tail(s)[i] = s[i + 1]
  <2>1. Len(s) \in Nat \ {0}
    BY <1>1, EmptySeq
  <2>2. m = s[1]
    BY <1>1
  <2> QED BY <1>1, <2>1, <2>2, HeadTailProperties
<1>3. \A a \in Sender, q \in MessagePriority :
        queues'[a][q] = IF a = n /\ q = p THEN Tail(s) ELSE queues[a][q]
  BY <1>p, <1>t
<1>l. \A a \in Sender, q \in MessagePriority : Len(queues[a][q]) \in Nat
  BY <1>t, LenProperties
<1>5. GossipTypeOK'
  <2>1. queues' \in [Sender -> [MessagePriority -> Seq(Message)]]
    BY <1>p, <1>2, <1>t
  <2>2. network' \subseteq Message
    BY <1>p, <1>2, <1>t
  <2>3. accepted' \subseteq network' /\ rejected' \subseteq network'
    BY <1>p, <1>w DEF GossipTypeOK
  <2> QED BY <2>1, <2>2, <2>3, <1>w DEF GossipTypeOK, Message
<1>s. \A a \in Sender, q \in MessagePriority : \A i \in 1..Len(queues[a][q]) :
        /\ queues[a][q][i].sequence \in Nat
        /\ queues[a][q][i].sequence < sequence_counter[a]
        /\ queues[a][q][i].sender = a
  <2> SUFFICES ASSUME NEW a \in Sender, NEW q \in MessagePriority,
                      NEW i \in 1..Len(queues[a][q])
               PROVE  queues[a][q][i].sequence \in Nat
    BY DEF Owned
  <2>1. queues[a][q][i] \in Message
    BY <1>t, ElementOfSeq
  <2> QED BY <2>1 DEF Message
<1>n. /\ m.sender = n
      /\ m.sequence \in Nat /\ m.sequence < sequence_counter[n]
  BY <1>2, <1>s
\* Where a message of the new queues was: one place further back in its class,
\* or where it is.
<1>6. ASSUME NEW a \in Sender, NEW q \in MessagePriority, NEW i \in 1..Len(queues'[a][q])
      PROVE  LET j == IF a = n /\ q = p THEN i + 1 ELSE i
             IN  j \in 1..Len(queues[a][q]) /\ queues'[a][q][i] = queues[a][q][j]
  <2>1. CASE a = n /\ q = p
    <3>1. queues'[a][q] = Tail(s) /\ queues[a][q] = s
      BY <2>1, <1>3
    <3> HIDE DEF s
    <3>2. i \in 1..Len(Tail(s)) /\ Len(s) \in Nat
      BY <3>1, <1>l, <2>1
    <3> QED BY <3>1, <3>2, <2>1, <1>2
  <2>2. CASE ~(a = n /\ q = p)
    <3>1. queues'[a][q] = queues[a][q]
      BY <2>2, <1>3
    <3> QED BY <3>1, <2>2
  <2> QED BY <2>1, <2>2
\* Every other message waits on.
<1>7. ASSUME NEW a \in Sender, NEW q \in MessagePriority, NEW i \in 1..Len(queues[a][q]),
             ~(a = n /\ q = p /\ i = 1)
      PROVE  \E j \in 1..Len(queues'[a][q]) : queues'[a][q][j] = queues[a][q][i]
  <2>1. CASE a = n /\ q = p
    <3>1. queues'[a][q] = Tail(s) /\ queues[a][q] = s
      BY <2>1, <1>3
    <3> HIDE DEF s
    <3>2. Len(s) \in Nat
      BY <3>1, <1>l, <2>1
    <3>3. i - 1 \in 1..Len(Tail(s)) /\ Tail(s)[i - 1] = s[i]
      BY <3>1, <3>2, <2>1, <1>7, <1>2
    <3> QED BY <3>1, <3>3
  <2>2. CASE ~(a = n /\ q = p)
    <3>1. queues'[a][q] = queues[a][q]
      BY <2>2, <1>3
    <3> QED BY <3>1
  <2> QED BY <2>1, <2>2
\* The number that leaves waits nowhere else.
<1>o. ASSUME NEW q \in MessagePriority, NEW i \in 1..Len(queues[n][q]),
             ~(q = p /\ i = 1)
      PROVE  queues[n][q][i].sequence # m.sequence
  <2>1. CASE q = p
    <3>1. i \in 1..Len(queues[n][p]) /\ 1 \in 1..Len(queues[n][p]) /\ 1 < i
      BY <2>1, <1>o, <1>2, <1>l
    <3>2. queues[n][p][1].sequence < queues[n][p][i].sequence
      BY <3>1 DEF Ordered
    <3>3. m = queues[n][p][1]
      BY <1>2
    <3> HIDE DEF m, s
    <3> QED BY <2>1, <3>1, <3>2, <3>3, <1>s
  <2>2. CASE q # p
    <3>1. 1 \in 1..Len(queues[n][p]) /\ m = queues[n][p][1]
      BY <1>2
    <3> HIDE DEF m, s
    <3> QED BY <2>2, <3>1 DEF Apart
  <2> QED BY <2>1, <2>2
<1>q. m = queues[n][p][1] /\ 1 \in 1..Len(queues[n][p]) /\ m \in Message
  BY <1>2
<1>v. network' = network \cup {m}
  BY <1>p
<1> HIDE DEF m, s
<1>8. Owned'
  <2> SUFFICES ASSUME NEW a \in Sender, NEW q \in MessagePriority,
                      NEW i \in 1..Len(queues'[a][q])
               PROVE  /\ queues'[a][q][i].sender = a
                      /\ queues'[a][q][i].sequence < sequence_counter[a]
    BY <1>w DEF Owned
  <2>1. PICK j \in 1..Len(queues[a][q]) :
               queues'[a][q][i] = queues[a][q][j] /\ ~(q = p /\ a = n /\ j = 1)
    BY <1>6, SMTT(40)
  <2> QED BY <2>1, <1>s
<1>9. Sent'
  <2>1. ASSUME NEW x \in network' PROVE x.sequence < sequence_counter[x.sender]
    BY <1>v, <1>n DEF Sent
  <2>2. ASSUME NEW a \in Sender, NEW q \in MessagePriority, NEW i \in 1..Len(queues'[a][q])
        PROVE  queues'[a][q][i] \notin network'
    <3>1. PICK j \in 1..Len(queues[a][q]) :
             /\ queues'[a][q][i] = queues[a][q][j]
             /\ ~(a = n /\ q = p /\ j = 1)
      BY <1>6
    <3>2. queues[a][q][j] \notin network
      BY DEF Sent
    <3>3. queues[a][q][j] # m
      <4>1. CASE a = n
        BY <4>1, <3>1, <1>o
      <4>2. CASE a # n
        BY <4>2, <1>s, <1>n
      <4> QED BY <4>1, <4>2
    <3> QED BY <3>1, <3>2, <3>3, <1>v
  <2> QED BY <2>1, <2>2, <1>w DEF Sent
<1>10. Ordered'
  <2> SUFFICES ASSUME NEW a \in Sender, NEW q \in MessagePriority,
                      NEW i \in 1..Len(queues'[a][q]), NEW j \in 1..Len(queues'[a][q]), i < j
               PROVE  queues'[a][q][i].sequence < queues'[a][q][j].sequence
    BY DEF Ordered
  <2> DEFINE d == IF a = n /\ q = p THEN 1 ELSE 0
  <2>1. /\ i + d \in 1..Len(queues[a][q]) /\ queues'[a][q][i] = queues[a][q][i + d]
        /\ j + d \in 1..Len(queues[a][q]) /\ queues'[a][q][j] = queues[a][q][j + d]
    BY <1>6
  <2>2. i + d < j + d
    OBVIOUS
  <2> HIDE DEF d
  <2> QED BY <2>1, <2>2 DEF Ordered
<1>11. Apart'
  <2> SUFFICES ASSUME NEW a \in Sender, NEW q \in MessagePriority, NEW r \in MessagePriority,
                      NEW i \in 1..Len(queues'[a][q]), NEW j \in 1..Len(queues'[a][r]), q # r
               PROVE  queues'[a][q][i].sequence # queues'[a][r][j].sequence
    BY DEF Apart
  <2>0. ASSUME NEW c \in MessagePriority, NEW x \in 1..Len(queues'[a][c])
        PROVE  \E k \in 1..Len(queues[a][c]) : queues'[a][c][x] = queues[a][c][k]
    <3> DEFINE y == IF a = n /\ c = p THEN x + 1 ELSE x
    <3>1. y \in 1..Len(queues[a][c]) /\ queues'[a][c][x] = queues[a][c][y]
      BY <1>6
    <3> HIDE DEF y
    <3> QED BY <3>1
  <2>1. PICK k \in 1..Len(queues[a][q]) : queues'[a][q][i] = queues[a][q][k]
    BY <2>0
  <2>2. PICK l \in 1..Len(queues[a][r]) : queues'[a][r][j] = queues[a][r][l]
    BY <2>0
  <2> QED BY <2>1, <2>2 DEF Apart
<1>12. Complete'
  <2> SUFFICES ASSUME NEW a \in Sender, NEW k \in 0..(sequence_counter[a] - 1),
                      [sender |-> a, sequence |-> k] \notin network'
               PROVE  \E q \in MessagePriority : \E i \in 1..Len(queues'[a][q]) :
                        queues'[a][q][i].sequence = k
    BY <1>w DEF Complete
  <2>1. PICK q \in MessagePriority :
               \E i \in 1..Len(queues[a][q]) : queues[a][q][i].sequence = k
    BY <1>v DEF Complete
  <2>2. PICK i \in 1..Len(queues[a][q]) : queues[a][q][i].sequence = k
    BY <2>1
  <2>3. CASE a = n /\ q = p /\ i = 1
    <3>1. m.sender = a /\ m.sequence = k
      BY <2>2, <2>3, <1>q, <1>n
    <3>2. m = [sender |-> a, sequence |-> k]
      BY <3>1, <1>q DEF Message
    <3> QED BY <3>2, <1>v
  <2>4. CASE ~(a = n /\ q = p /\ i = 1)
    <3>1. PICK j \in 1..Len(queues'[a][q]) : queues'[a][q][j] = queues[a][q][i]
      BY <2>4, <1>7
    <3> QED BY <3>1, <2>2
  <2> QED BY <2>3, <2>4
<1>13. Counted'
  <2> SUFFICES ASSUME NEW a \in Sender
               PROVE  IsFiniteSet(Pending(a)') /\ Cardinality(Pending(a)') = Queued(a)'
    BY DEF Counted
  <2>1. IsFiniteSet(Pending(a)) /\ Cardinality(Pending(a)) = Queued(a)
    BY DEF Counted
  <2>2. \A k : k \in Pending(a)' <=>
          \E q \in MessagePriority : \E i \in 1..Len(queues'[a][q]) :
            queues'[a][q][i].sequence = k
    <3>1. queues'[a] \in [MessagePriority -> Seq(Message)]
      BY <1>5 DEF GossipTypeOK
    <3> QED BY <3>1, NumbersWaiting DEF Pending
  <2>3. CASE a # n
    <3>1. queues'[a] = queues[a]
      BY <2>3, <1>p, <1>t
    <3>2. Pending(a)' = Pending(a) /\ Queued(a)' = Queued(a)
      BY <3>1 DEF Pending, Queued
    <3> QED BY <3>2, <2>1
  <2>4. CASE a = n
    <3>1. m.sequence \in Pending(n)
      BY PendingMember, <1>q
    <3>2. ASSUME NEW k, k \in Pending(n)' PROVE k \in Pending(n) /\ k # m.sequence
      <4>1. PICK q \in MessagePriority : \E i \in 1..Len(queues'[n][q]) :
                   queues'[n][q][i].sequence = k
        BY <3>2, <2>2, <2>4
      <4>2. PICK i \in 1..Len(queues'[n][q]) : queues'[n][q][i].sequence = k
        BY <4>1
      <4>3. PICK j \in 1..Len(queues[n][q]) :
               queues'[n][q][i] = queues[n][q][j] /\ ~(q = p /\ j = 1)
        BY <1>6
      <4>4. k \in Pending(n)
        BY <4>2, <4>3, PendingMember
      <4> QED BY <4>2, <4>3, <4>4, <1>o
    <3>3. ASSUME NEW k \in Pending(n), k # m.sequence PROVE k \in Pending(n)'
      <4>1. PICK q \in MessagePriority : \E i \in 1..Len(queues[n][q]) :
                   queues[n][q][i].sequence = k
        BY PendingMember
      <4>2. PICK i \in 1..Len(queues[n][q]) : queues[n][q][i].sequence = k
        BY <4>1
      <4>3. ~(q = p /\ i = 1)
        BY <4>2, <3>3, <1>q
      <4> QED BY <4>2, <4>3, <1>7, <2>2, <2>4
    <3>4. Pending(n)' = Pending(n) \ {m.sequence}
      BY <3>2, <3>3
    <3>5. Queued(n)' = Queued(n) - 1
      <4> DEFINE Q == queues[n]
                 R == queues'[n]
      <4>1. \A q \in MessagePriority : Len(Q[q]) \in Nat
        BY <1>l
      <4>2. \A q \in MessagePriority :
              Len(R[q]) = IF q = p THEN Len(Q[q]) + (-1) ELSE Len(Q[q])
        BY <1>3, <1>2, <1>l DEF s
      <4> HIDE DEF Q, R
      <4>3. Total(R) = Total(Q) + (-1) /\ Total(Q) \in Nat
        BY <4>1, <4>2, TotalStep
      <4> QED BY <4>3 DEF Q, R, Queued, Total
    <3> QED BY <3>1, <3>4, <3>5, <2>1, <2>4, FS_RemoveElement
  <2> QED BY <2>3, <2>4
<1> QED BY <1>5, <1>8, <1>9, <1>10, <1>11, <1>12, <1>13

-----------------------------------------------------------------------------
(* The receiver, and the theorems about the queue *)

\* The receiver touches neither the queues nor the wire.
LEMMA SenderVarsKeep ==
    ASSUME IInv, UNCHANGED senderVars, GossipTypeOK'
    PROVE  IInv'
<1>1. UNCHANGED <<queues, sequence_counter, network>>
  BY DEF senderVars
<1>2. Owned' /\ Sent'
  BY <1>1 DEF IInv, Owned, Sent
<1>3. Ordered'
  BY <1>1 DEF IInv, Ordered
<1>4. Apart'
  BY <1>1 DEF IInv, Apart
<1>5. Complete'
  <2> SUFFICES ASSUME NEW n \in Sender, NEW k \in 0..(sequence_counter'[n] - 1),
                      [sender |-> n, sequence |-> k] \notin network'
               PROVE  \E q \in MessagePriority : \E i \in 1..Len(queues'[n][q]) :
                        queues'[n][q][i].sequence = k
    BY DEF Complete
  <2>1. \E q \in MessagePriority : \E i \in 1..Len(queues[n][q]) :
          queues[n][q][i].sequence = k
    BY <1>1 DEF IInv, Complete
  <2> QED BY <1>1, <2>1
<1>6. Counted'
  BY <1>1 DEF IInv, Counted, Pending, Queued
<1> QED BY <1>2, <1>3, <1>4, <1>5, <1>6 DEF IInv

LEMMA ReceiveTyped ==
    ASSUME GossipTypeOK, Receive
    PROVE  GossipTypeOK'
<1>1. PICK m \in network : check_and_mark(m)
  BY DEF Receive
<1>2. UNCHANGED <<queues, sequence_counter, network, max_size>>
  BY DEF Receive, senderVars
<1>3. m.sequence \in 0..(MaxSequence - 1)
  BY DEF GossipTypeOK, Message
<1>4. CASE m.sequence \in seen
  BY <1>1, <1>2, <1>4 DEF GossipTypeOK, check_and_mark
<1>5. CASE m.sequence \notin seen
  <2>1. PICK keep \in Survivors : seen' = keep \cup {m.sequence}
    BY <1>1, <1>5 DEF check_and_mark
  <2>2. keep \subseteq seen
    BY DEF Survivors
  <2>3. accepted' = accepted \cup {m} /\ rejected' = rejected
    BY <1>1, <1>5 DEF check_and_mark
  <2> QED BY <1>2, <1>3, <2>1, <2>2, <2>3 DEF GossipTypeOK
<1> QED BY <1>4, <1>5

\* The inductive invariant of the queues: what waits and what was sent, number
\* by number.
THEOREM InductiveInvariant == GossipSpec => []IInv
<1>1. IInv /\ [GossipNext]_gossipVars => IInv'
  <2> SUFFICES ASSUME IInv, [GossipNext]_gossipVars PROVE IInv'
    OBVIOUS
  <2>1. ASSUME NEW n \in Sender, NEW kind \in Kinds, NEW tier \in Tiers,
               send_gossip(n, kind, tier)
        PROVE  IInv'
    BY <2>1, PriorityTyped, EnqueueStep DEF send_gossip
  <2>2. ASSUME NEW n \in Sender, dequeue(n) PROVE IInv'
    BY <2>2, DequeueStep
  <2>3. CASE Receive
    BY <2>3, ReceiveTyped, SenderVarsKeep DEF IInv, Receive
  <2>4. CASE UNCHANGED gossipVars
    <3>1. UNCHANGED senderVars /\ GossipTypeOK'
      BY <2>4 DEF gossipVars, senderVars, IInv, GossipTypeOK
    <3> QED BY <3>1, SenderVarsKeep
  <2> QED BY <2>1, <2>2, <2>3, <2>4 DEF GossipNext
<1> QED BY InitInv, <1>1, PTL DEF GossipSpec

\* Type correctness: enqueue, dequeue and check_and_mark keep the queues, the
\* counters and the filter well typed.
THEOREM TypeCorrect == GossipSpec => []GossipTypeOK
<1>1. IInv => GossipTypeOK
  BY DEF IInv
<1> QED BY InductiveInvariant, <1>1, PTL

\* No message is lost, duplicated or renumbered between enqueue and dequeue.
THEOREM QueueCorrect == GossipSpec => []NothingLost
BY InductiveInvariant, InvImpliesNothingLost, PTL

-----------------------------------------------------------------------------
(* The filter *)

\* The numbers of the messages that were let through.
Numbers == {x.sequence : x \in accepted}

\* FilterSound is inductive with the fact that these numbers are finitely many.
FilterInv ==
    /\ IsFiniteSet(Numbers)
    /\ FilterSound

LEMMA SoundParts ==
    FilterSound <=>
        /\ seen \subseteq Numbers
        /\ max_size < 2 \/ Cardinality(Numbers) <= max_size => seen = Numbers
        /\ max_size >= 2 /\ Cardinality(Numbers) > max_size =>
             Cardinality(seen) \in (max_size - max_size \div 2 + 1)..max_size
        /\ \A r \in rejected \ accepted :
             \E x \in accepted : x.sequence = r.sequence /\ x.sender # r.sender
BY DEF FilterSound, Numbers

\* Two messages of the same number are the same message, or of two senders.
LEMMA SameNumber ==
    ASSUME NEW a \in Message, NEW b \in Message, a.sequence = b.sequence, a # b
    PROVE  a.sender # b.sender
BY DEF Message

\* What the filter remembers after letting a new number k through.
LEMMA RememberStep ==
    ASSUME NEW S, NEW N, IsFiniteSet(N), S \subseteq N, NEW k, k \notin S,
           NEW max \in Nat, NEW keep \in SUBSET S,
           max < 2 \/ Cardinality(N) <= max => S = N,
           max >= 2 /\ Cardinality(N) > max =>
               Cardinality(S) \in (max - max \div 2 + 1)..max,
           Cardinality(S) < max => keep = S,
           Cardinality(S) >= max => Cardinality(keep) = Cardinality(S) - max \div 2
    PROVE  /\ IsFiniteSet(N \cup {k}) /\ keep \cup {k} \subseteq N \cup {k}
           /\ max < 2 \/ Cardinality(N \cup {k}) <= max => keep \cup {k} = N \cup {k}
           /\ max >= 2 /\ Cardinality(N \cup {k}) > max =>
                Cardinality(keep \cup {k}) \in (max - max \div 2 + 1)..max
<1>1. /\ IsFiniteSet(S) /\ IsFiniteSet(keep)
      /\ Cardinality(S) \in Nat /\ Cardinality(keep) \in Nat /\ Cardinality(N) \in Nat
  <2>1. IsFiniteSet(S)
    BY FS_Subset
  <2>2. IsFiniteSet(keep)
    BY <2>1, FS_Subset
  <2> QED BY <2>1, <2>2, FS_CardinalityType
<1>2. /\ IsFiniteSet(N \cup {k})
      /\ Cardinality(N \cup {k}) = IF k \in N THEN Cardinality(N) ELSE Cardinality(N) + 1
  BY FS_AddElement
<1>3. Cardinality(keep \cup {k}) = Cardinality(keep) + 1
  BY <1>1, FS_AddElement
<1>4. max \div 2 \in Nat /\ (max >= 2 => max \div 2 >= 1 /\ max \div 2 < max)
      /\ (max < 2 => max \div 2 = 0)
  OBVIOUS
<1>5. CASE Cardinality(S) < max
  <2>1. keep = S
    BY <1>5
  <2>2. max < 2 \/ Cardinality(N \cup {k}) <= max => keep \cup {k} = N \cup {k}
    BY <1>1, <1>2, <2>1
  <2>3. ASSUME max >= 2, Cardinality(N \cup {k}) > max
        PROVE  Cardinality(keep \cup {k}) \in (max - max \div 2 + 1)..max
    <3>1. Cardinality(N) > max
      <4> SUFFICES ASSUME Cardinality(N) <= max PROVE FALSE
        BY <1>1
      <4>1. S = N
        OBVIOUS
      <4>2. Cardinality(N \cup {k}) = Cardinality(S) + 1
        BY <4>1, <1>2
      <4> QED BY <4>2, <1>5, <1>1, <2>3
    <3>2. Cardinality(S) \in (max - max \div 2 + 1)..max
      BY <3>1, <2>3
    <3>3. Cardinality(keep \cup {k}) = Cardinality(S) + 1
      BY <1>3, <2>1
    <3> QED BY <3>2, <3>3, <1>5, <1>1, <1>4
  <2> QED BY <1>2, <2>2, <2>3
<1>6. CASE ~(Cardinality(S) < max)
  <2>0. Cardinality(keep) = Cardinality(S) - max \div 2
    BY <1>6, <1>1
  <2>1. CASE max < 2
    <3>1. Cardinality(keep) = Cardinality(S)
      BY <2>0, <2>1, <1>4, <1>1
    <3>2. keep = S
      BY <3>1, <1>1, FS_Subset
    <3> QED BY <3>2, <2>1, <1>2
  <2>2. CASE max >= 2
    <3>1. Cardinality(S) = max /\ Cardinality(N \cup {k}) > max
      <4>1. CASE Cardinality(N) <= max
        <5>1. S = N
          BY <4>1
        <5> QED BY <5>1, <1>2, <1>1, <1>6, <4>1
      <4>2. CASE Cardinality(N) > max
        BY <4>2, <2>2, <1>1, <1>2, <1>6, <1>4
      <4> QED BY <4>1, <4>2, <1>1
    <3>2. Cardinality(keep \cup {k}) = max - max \div 2 + 1
      BY <3>1, <2>0, <1>3, <1>4
    <3>3. Cardinality(keep \cup {k}) \in (max - max \div 2 + 1)..max
      BY <3>2, <1>4, <2>2
    <3>4. Cardinality(N \cup {k}) \in Nat
      BY <1>1, <1>2
    <3> QED BY <3>1, <3>3, <3>4, <2>2, <1>2
  <2> QED BY <2>1, <2>2
<1> QED BY <1>5, <1>6

LEMMA FilterStep ==
    ASSUME GossipTypeOK, FilterInv, NEW m \in network, check_and_mark(m),
           UNCHANGED max_size
    PROVE  FilterInv'
<1> DEFINE k == m.sequence
<1>f. /\ IsFiniteSet(Numbers) /\ seen \subseteq Numbers /\ max_size \in Nat
      /\ max_size < 2 \/ Cardinality(Numbers) <= max_size => seen = Numbers
      /\ max_size >= 2 /\ Cardinality(Numbers) > max_size =>
           Cardinality(seen) \in (max_size - max_size \div 2 + 1)..max_size
      /\ \A r \in rejected \ accepted :
           \E x \in accepted : x.sequence = r.sequence /\ x.sender # r.sender
  BY SoundParts DEF FilterInv, GossipTypeOK
<1>g. IsFiniteSet(Numbers)' /\ FilterSound' => FilterInv'
  BY DEF FilterInv
<1>1. CASE k \in seen
  <2>1. seen' = seen /\ accepted' = accepted /\ rejected' = rejected \cup {m}
    BY <1>1 DEF check_and_mark
  <2>2. PICK x \in accepted : x.sequence = k
    BY <1>1, <1>f DEF Numbers
  <2>3. x \in Message /\ m \in Message
    BY DEF GossipTypeOK
  <2>4. m \notin accepted => x.sender # m.sender
    BY <2>2, <2>3, SameNumber
  <2>5. \A r \in rejected' \ accepted' :
          \E y \in accepted' : y.sequence = r.sequence /\ y.sender # r.sender
    BY <2>1, <2>2, <2>4, <1>f
  <2>6. Numbers' = Numbers
    BY <2>1 DEF Numbers
  <2> QED BY <2>1, <2>5, <2>6, <1>f, <1>g DEF FilterSound, Numbers
<1>2. CASE k \notin seen
  <2>1. PICK keep \in Survivors : seen' = keep \cup {k}
    BY <1>2 DEF check_and_mark
  <2>2. accepted' = accepted \cup {m} /\ rejected' = rejected
    BY <1>2 DEF check_and_mark
  <2>3. Numbers' = Numbers \cup {k}
    BY <2>2 DEF Numbers
  <2>4. /\ keep \in SUBSET seen
        /\ Cardinality(seen) < max_size => keep = seen
        /\ Cardinality(seen) >= max_size =>
             Cardinality(keep) = Cardinality(seen) - max_size \div 2
    <3>1. Cardinality(seen) \in Nat
      BY <1>f, FS_Subset, FS_CardinalityType
    <3> QED BY <2>1, <3>1, <1>f DEF Survivors
  <2>5. /\ IsFiniteSet(Numbers \cup {k}) /\ keep \cup {k} \subseteq Numbers \cup {k}
        /\ max_size < 2 \/ Cardinality(Numbers \cup {k}) <= max_size
             => keep \cup {k} = Numbers \cup {k}
        /\ max_size >= 2 /\ Cardinality(Numbers \cup {k}) > max_size =>
             Cardinality(keep \cup {k}) \in (max_size - max_size \div 2 + 1)..max_size
    <3> HIDE DEF k
    <3> QED BY <1>f, <1>2, <2>4, RememberStep
  <2>6. \A r \in rejected' \ accepted' :
          \E x \in accepted' : x.sequence = r.sequence /\ x.sender # r.sender
    BY <2>2, <1>f
  <2>7. FilterSound'
    <3> HIDE DEF k
    <3>1. {x.sequence : x \in accepted'} = Numbers \cup {k}
      BY <2>3 DEF Numbers
    <3> QED BY <2>1, <2>5, <2>6, <3>1 DEF FilterSound
  <2> QED BY <2>3, <2>5, <2>7, <1>g
<1> QED BY <1>1, <1>2

\* The filter forgets no sooner than its limit makes it, stays bounded from a
\* limit of two on, and rejects only numbers it let through, for any limit, any
\* order, repetition and loss on the network and any choice of what it drops.
THEOREM FilterCorrect == GossipSpec => []FilterSound
<1>1. GossipInit => FilterInv
  <2> SUFFICES ASSUME GossipInit PROVE FilterInv
    OBVIOUS
  <2>1. Numbers = {} /\ seen = {} /\ rejected = {} /\ max_size \in Nat
    BY DEF GossipInit, Numbers
  <2>2. IsFiniteSet(Numbers) /\ Cardinality(Numbers) = 0
    BY <2>1, FS_EmptySet
  <2> QED BY <2>1, <2>2, SoundParts DEF FilterInv
<1>2. GossipTypeOK /\ GossipTypeOK' /\ FilterInv /\ [GossipNext]_gossipVars => FilterInv'
  <2> SUFFICES ASSUME GossipTypeOK, GossipTypeOK', FilterInv, [GossipNext]_gossipVars PROVE FilterInv'
    OBVIOUS
  <2>1. CASE UNCHANGED receiverVars
    BY <2>1 DEF receiverVars, FilterInv, FilterSound, Numbers
  <2>2. CASE Receive
    BY <2>2, FilterStep DEF Receive
  <2>3. ASSUME NEW n \in Sender, NEW kind \in Kinds, NEW tier \in Tiers,
               send_gossip(n, kind, tier)
        PROVE  UNCHANGED receiverVars
    BY <2>3 DEF send_gossip
  <2>4. ASSUME NEW n \in Sender, dequeue(n) PROVE UNCHANGED receiverVars
    BY <2>4 DEF dequeue
  <2>5. CASE UNCHANGED gossipVars
    BY <2>5, <2>1 DEF gossipVars, receiverVars
  <2> QED BY <2>1, <2>2, <2>3, <2>4, <2>5 DEF GossipNext
<1>3. FilterInv => FilterSound
  BY DEF FilterInv
<1> QED BY TypeCorrect, <1>1, <1>2, <1>3, PTL DEF GossipSpec

-----------------------------------------------------------------------------
(* The refinement of the priority queue *)

LEMMA WatchedSender == Watched \in Sender
BY DEF Watched

\* The classes of the abstract queue and their order are those of the code.
LEMMA SameClasses ==
    /\ Scheduling!Class = MessagePriority
    /\ \A q \in MessagePriority : Scheduling!Before(q) = Higher(q)
BY DEF Scheduling!Class, Scheduling!Before, MessagePriority, Higher

\* What waits with a sender, as the abstract queue sees it.
Abstract == [q \in MessagePriority |-> Len(queues[Watched][q])]

LEMMA ArriveStep ==
    ASSUME GossipTypeOK, NEW n \in Sender, NEW p \in MessagePriority, enqueue(n, p)
    PROVE  (\E c \in MessagePriority : Scheduling!Arrive(c)) \/ Abstract' = Abstract
<1>t. queues \in [Sender -> [MessagePriority -> Seq(Message)]]
  BY DEF GossipTypeOK
<1> DEFINE m == [sender |-> n, sequence |-> sequence_counter[n]]
<1>m. m \in Message
  BY DEF GossipTypeOK, Message, enqueue
<1>1. queues' = [queues EXCEPT ![n] = [queues[n] EXCEPT ![p] = Append(queues[n][p], m)]]
  BY <1>t DEF enqueue
<1>2. CASE n # Watched
  BY <1>1, <1>2, <1>t, WatchedSender DEF Abstract
<1>3. CASE n = Watched
  <2>1. Len(Append(queues[n][p], m)) = Len(queues[n][p]) + 1
    <3>1. queues[n][p] \in Seq(Message)
      BY <1>t
    <3> QED BY <3>1, <1>m, AppendProperties
  <2> HIDE DEF m
  <2>2. \A q \in MessagePriority :
          Len(queues'[n][q]) = IF q = p THEN Len(queues[n][q]) + 1 ELSE Len(queues[n][q])
    BY <1>1, <1>t, <2>1
  <2>3. Abstract' = [Abstract EXCEPT ![p] = @ + 1]
    BY <2>2, <1>3 DEF Abstract
  <2>4. Scheduling!Waiting = Queued(n)
    BY <1>3 DEF Scheduling!Waiting, Queued, MessagePriority
  <2>5. Scheduling!Arrive(p)
    BY <2>3, <2>4 DEF Scheduling!Arrive, Abstract, enqueue
  <2> QED BY <2>5
<1> QED BY <1>2, <1>3

LEMMA ServeStep ==
    ASSUME GossipTypeOK, NEW n \in Sender, dequeue(n)
    PROVE  (\E c \in MessagePriority : Scheduling!Serve(c)) \/ Abstract' = Abstract
<1>t. queues \in [Sender -> [MessagePriority -> Seq(Message)]]
  BY DEF GossipTypeOK
<1>p. PICK p \in MessagePriority :
        /\ queues[n][p] # <<>>
        /\ \A h \in Higher(p) : queues[n][h] = <<>>
        /\ queues' = [queues EXCEPT ![n][p] = Tail(@)]
  BY DEF dequeue
<1>2. CASE n # Watched
  BY <1>p, <1>2, <1>t, WatchedSender DEF Abstract
<1>3. CASE n = Watched
  <2>1. Len(Tail(queues[n][p])) = Len(queues[n][p]) - 1 /\ Len(queues[n][p]) > 0
    <3>1. queues[n][p] \in Seq(Message)
      BY <1>t
    <3>2. Len(queues[n][p]) \in Nat \ {0}
      BY <3>1, <1>p, EmptySeq
    <3> QED BY <3>1, <3>2, <1>p, HeadTailProperties
  <2>2. \A q \in MessagePriority :
          Len(queues'[n][q]) = IF q = p THEN Len(queues[n][q]) - 1 ELSE Len(queues[n][q])
    BY <1>p, <1>t, <2>1
  <2>3. Abstract' = [Abstract EXCEPT ![p] = @ - 1]
    BY <2>2, <1>3 DEF Abstract
  <2>4. \A h \in Higher(p) : h \in MessagePriority /\ Abstract[h] = 0
    BY <1>p, <1>3 DEF Higher, MessagePriority, Abstract
  <2>5. Abstract[p] > 0
    BY <2>1, <1>3 DEF Abstract
  <2>6. Scheduling!Serve(p)
    BY <2>3, <2>4, <2>5, SameClasses DEF Scheduling!Serve, Abstract
  <2> QED BY <2>6
<1> QED BY <1>2, <1>3

\* The queue of a node implements the priority queue: capacity, and the order in
\* which enqueue and dequeue serve the classes.
THEOREM ImplementsPriorityQueue == GossipSpec => SchedulingSpec
<1>1. GossipInit => Scheduling!PQInit
  BY SameClasses, WatchedSender DEF GossipInit, Scheduling!PQInit
<1>2. GossipTypeOK /\ [GossipNext]_gossipVars => [Scheduling!PQNext]_Abstract
  <2> SUFFICES ASSUME GossipTypeOK, [GossipNext]_gossipVars PROVE Scheduling!PQNext \/ Abstract' = Abstract
    OBVIOUS
  <2>1. ASSUME NEW n \in Sender, NEW kind \in Kinds, NEW tier \in Tiers,
               send_gossip(n, kind, tier)
        PROVE  Scheduling!PQNext \/ Abstract' = Abstract
    BY <2>1, PriorityTyped, ArriveStep, SameClasses DEF send_gossip, Scheduling!PQNext
  <2>2. ASSUME NEW n \in Sender, dequeue(n)
        PROVE  Scheduling!PQNext \/ Abstract' = Abstract
    BY <2>2, ServeStep, SameClasses DEF Scheduling!PQNext
  <2>3. CASE Receive
    BY <2>3 DEF Receive, senderVars, Abstract
  <2>4. CASE UNCHANGED gossipVars
    BY <2>4 DEF gossipVars, Abstract
  <2> QED BY <2>1, <2>2, <2>3, <2>4 DEF GossipNext
<1> QED BY TypeCorrect, <1>1, <1>2, PTL
        DEF GossipSpec, SchedulingSpec, Scheduling!PQSpec, Abstract
=============================================================================
