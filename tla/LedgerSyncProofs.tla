-------------------------- MODULE LedgerSyncProofs --------------------------
(* Proofs about LedgerSync, for any nodes, clocks, limits and numbers of    *)
(* rows and messages.                                                      *)
EXTENDS LedgerSync, FunctionTheorems, SequenceTheorems, FiniteSetTheorems, TLAPS

USE TimestampAssumption, SyncLimitAssumption, BoundsAssumption

-----------------------------------------------------------------------------
(* Entries as they are hashed and sent *)

Item == [seq : Nat, id : 1..MaxRows, timestamp : Timestamp]

\* The first k rows of a ledger.
View(s, k) == [i \in 1..k |-> [seq |-> i, id |-> s[i].id, timestamp |-> s[i].timestamp]]

LEMMA ViewProperties ==
    ASSUME NEW s \in Seq(Entry), NEW k \in 0..Len(s)
    PROVE  /\ View(s, k) \in Seq(Item)
           /\ Len(View(s, k)) = k
           /\ \A i \in 1..k : View(s, k)[i] = [seq |-> i, id |-> s[i].id,
                                               timestamp |-> s[i].timestamp]
<1>1. \A i \in 1..k : s[i] \in Entry
  BY ElementOfSeq, LenProperties
<1>2. \A i \in 1..k : [seq |-> i, id |-> s[i].id, timestamp |-> s[i].timestamp] \in Item
  BY <1>1 DEF Entry, Item
<1>3. View(s, k) \in [1..k -> Item]
  BY <1>2 DEF View
<1>4. k \in Nat
  BY LenProperties
<1>5. View(s, k) \in Seq(Item) /\ Len(View(s, k)) = k
  BY <1>3, <1>4
<1> QED BY <1>5 DEF View

\* A row that is added leaves the earlier ones as they are.
LEMMA ViewOfAppend ==
    ASSUME NEW s \in Seq(Entry), NEW e \in Entry, NEW k \in 0..Len(s)
    PROVE  View(Append(s, e), k) = View(s, k)
<1>1. Len(s) \in Nat
  BY LenProperties
<1>2. \A i \in 1..k : Append(s, e)[i] = s[i]
  BY <1>1, AppendProperties
<1> QED BY <1>2 DEF View

\* What get_entries_from returns: rows, and the first ones when asked from 0.
LEMMA EntriesTyped ==
    ASSUME NEW n \in Node, ledger[n] \in Seq(Entry), NEW from \in Nat, NEW limit \in Nat
    PROVE  get_entries_from(n, from, limit) \in Seq(Item)
<1> DEFINE last == Smaller(Len(ledger[n]), from + limit)
           k == Larger(0, last - from)
<1>1. Len(ledger[n]) \in Nat
  BY LenProperties
<1>2. last \in Nat /\ last <= Len(ledger[n]) /\ k \in Nat /\ from + k <= Larger(last, from)
  BY <1>1 DEF Smaller, Larger
<1>3. ASSUME NEW i \in 1..k
      PROVE  [seq |-> from + i, id |-> ledger[n][from + i].id,
              timestamp |-> ledger[n][from + i].timestamp] \in Item
  <2>1. from + i \in 1..Len(ledger[n])
    BY <1>1, <1>2 DEF Smaller, Larger
  <2>2. ledger[n][from + i] \in Entry
    BY <2>1, ElementOfSeq
  <2> QED BY <2>1, <2>2 DEF Entry, Item
<1>4. get_entries_from(n, from, limit) \in [1..k -> Item]
  BY <1>3 DEF get_entries_from
<1> HIDE DEF k, last
<1> QED BY <1>2, <1>4

LEMMA EntriesFromZero ==
    ASSUME NEW n \in Node, ledger[n] \in Seq(Entry), NEW limit \in Nat
    PROVE  get_entries_from(n, 0, limit)
             = View(ledger[n], Smaller(Len(ledger[n]), limit))
<1>1. Len(ledger[n]) \in Nat
  BY LenProperties
<1>2. /\ Larger(0, Smaller(Len(ledger[n]), 0 + limit) - 0)
           = Smaller(Len(ledger[n]), limit)
      /\ Smaller(Len(ledger[n]), limit) \in Nat
  BY <1>1 DEF Smaller, Larger
<1>3. \A i \in 1..Smaller(Len(ledger[n]), limit) : 0 + i = i
  OBVIOUS
<1> QED BY <1>2, <1>3 DEF get_entries_from, View

-----------------------------------------------------------------------------
(* The inductive invariant *)

Roots == [known : BOOLEAN, entries : Seq(Item)]

Adverts == [type : {"StateAdvert"}, from : Node, root : Roots, covers : Nat, seq : Nat]
EntryRequests == [type : {"EntryRequest"}, from : Node, request_id : Nat, from_seq : Nat,
                  peer : Node, wanted : Nat]
EntryResponses == [type : {"EntryResponse"}, from : Node, to : Node, request_id : Nat,
                   peer : Node, wanted : Nat, entries : Seq(Item)]

Outcome == [request_id : Nat,
            result : [local : Item, remote : Item, use_remote : BOOLEAN]]

\* The types of everything but the ledgers, the managers' view included.
Typed ==
    /\ local_state \in [Node -> [root : Roots, covers : Nat, seq : Nat]]
    /\ peers \in [Node -> [Node -> [root : Roots, covers : Nat, seq : Int]]]
    /\ pending_requests \in [Node -> SUBSET Nat]
    /\ stats \in [Node -> [resolved_count : Nat, remote_wins : Nat]]
    /\ wire \subseteq Adverts \cup EntryRequests \cup EntryResponses
    /\ requests \in Nat
    /\ outcomes \in [Node -> SUBSET Outcome]

\* The ledgers: an id occurs once in each.
LedgersOK ==
    /\ ledger \in [Node -> Seq(Entry)]
    /\ \A n \in Node : \A i, j \in 1..Len(ledger[n]) :
         ledger[n][i].id = ledger[n][j].id => i = j
    /\ IsFiniteSet(Rows)

\* A root of the first entries of the ledger of n, and a length it had.
Describes(root, covers, seq, n) ==
    /\ seq \in 0..Len(ledger[n]) /\ covers \in 0..Len(ledger[n])
    /\ \/ root = NoRoot /\ covers = 0
       \/ root = Root(View(ledger[n], covers))

\* What a manager knows of its own ledger, what adverts say, and what managers
\* know of each other's ledgers, was true of a prefix.
Described ==
    /\ \A n \in Node : Describes(local_state[n].root, local_state[n].covers, local_state[n].seq, n)
    /\ \A m \in wire : m.type = "StateAdvert" => Describes(m.root, m.covers, m.seq, m.from)
    /\ \A n, p \in Node : \/ peers[n][p] = NoAdvert
                          \/ Describes(peers[n][p].root, peers[n][p].covers, peers[n][p].seq, p)

\* A request that wants something wants what its peer has, from the start; an
\* answer of that peer holds it.
Covered ==
    /\ \A m \in wire : m.type \in {"EntryRequest", "EntryResponse"} =>
         m.wanted \in 0..Len(ledger[m.peer])
    /\ \A m \in wire : m.type = "EntryRequest" /\ m.wanted > 0 => m.from_seq = 0
    /\ AnswerCoversAdvert

\* Request ids are given out once, each with a message of its own.
RequestsOK ==
    /\ \A n \in Node : pending_requests[n] \subseteq 1..requests
    /\ \A n, p \in Node : n # p => pending_requests[n] \cap pending_requests[p] = {}
    /\ \A m \in wire : m.type = "EntryRequest" => m.request_id <= requests
    /\ IsFiniteSet(wire)
    /\ requests <= Cardinality(wire) /\ Cardinality(wire) <= MaxMessages

\* The outcomes of a node are of requests that it waits for no longer, there
\* are finitely many, and each was decided by the timestamps.
OutcomesOK ==
    \A n \in Node :
        /\ IsFiniteSet(outcomes[n])
        /\ \A o \in outcomes[n] :
             /\ o.request_id <= requests /\ o.request_id \notin pending_requests[n]
             /\ o.result.use_remote
                  <=> o.result.remote.timestamp > o.result.local.timestamp

IInv == Typed /\ LedgersOK /\ Described /\ Covered /\ RequestsOK /\ OutcomesOK /\ CountedOnce

-----------------------------------------------------------------------------
(* SyncInit *)

LEMMA InitInv == SyncInit => IInv
<1> SUFFICES ASSUME SyncInit PROVE IInv
  OBVIOUS
<1>r. NoRoot \in Roots
  BY DEF NoRoot, Roots
<1>1. Typed
  BY <1>r DEF SyncInit, Typed, NoAdvert
<1>2. LedgersOK
  <2>1. \A n \in Node : ledger[n] = <<>> /\ DOMAIN ledger[n] = {}
    BY DEF SyncInit
  <2>2. Rows = {}
    BY <2>1 DEF Rows
  <2>3. ledger \in [Node -> Seq(Entry)]
    BY DEF SyncInit
  <2> QED BY <2>1, <2>2, <2>3, FS_EmptySet DEF LedgersOK
<1>3. Described
  BY DEF SyncInit, Described, Describes
<1>4. Covered
  BY DEF SyncInit, Covered, AnswerCoversAdvert
<1>5. RequestsOK
  BY FS_EmptySet DEF SyncInit, RequestsOK
<1>6. OutcomesOK
  BY FS_EmptySet DEF SyncInit, OutcomesOK
<1>7. CountedOnce
  <2> SUFFICES ASSUME NEW n \in Node
               PROVE  /\ stats[n].resolved_count = Cardinality(outcomes[n])
                      /\ stats[n].remote_wins
                           = Cardinality({o \in outcomes[n] : o.result.use_remote})
    BY DEF CountedOnce
  <2>1. outcomes[n] = {} /\ {o \in outcomes[n] : o.result.use_remote} = {}
    BY DEF SyncInit
  <2>2. stats[n].resolved_count = 0 /\ stats[n].remote_wins = 0
    BY DEF SyncInit
  <2> QED BY <2>1, <2>2, FS_EmptySet
<1> QED BY <1>1, <1>2, <1>3, <1>4, <1>5, <1>6, <1>7 DEF IInv

-----------------------------------------------------------------------------
(* Recording and importing entries *)

LEMMA IdsMember ==
    ASSUME LedgersOK, NEW n \in Node
    PROVE  \A id : id \in IdsOf(n) <=> \E i \in 1..Len(ledger[n]) : ledger[n][i].id = id
<1>1. DOMAIN ledger[n] = 1..Len(ledger[n])
  BY LenProperties DEF LedgersOK
<1> QED BY <1>1 DEF IdsOf, Range

\* There are no more ids than rows.
LEMMA FewIds ==
    ASSUME LedgersOK
    PROVE  /\ IsFiniteSet(AllIds)
           /\ Cardinality(AllIds) \in Nat
           /\ Cardinality(AllIds) <= Cardinality(Rows)
<1>d. \A n \in Node : DOMAIN ledger[n] = 1..Len(ledger[n])
  BY LenProperties DEF LedgersOK
<1> DEFINE f == [r \in Rows |-> ledger[r[1]][r[2]].id]
<1>1. \A r : r \in Rows <=> \E n \in Node : \E i \in 1..Len(ledger[n]) : r = <<n, i>>
  BY <1>d DEF Rows
<1>2. ASSUME NEW r \in Rows PROVE f[r] \in AllIds
  <2>1. PICK n \in Node : \E i \in 1..Len(ledger[n]) : r = <<n, i>>
    BY <1>1
  <2>2. PICK i \in 1..Len(ledger[n]) : r = <<n, i>>
    BY <2>1
  <2>3. f[r] = ledger[n][i].id
    BY <2>2
  <2>4. f[r] \in IdsOf(n)
    BY <2>3, IdsMember
  <2> QED BY <2>4 DEF AllIds
<1>3. ASSUME NEW id \in AllIds PROVE \E r \in Rows : f[r] = id
  <2>1. PICK n \in Node : id \in IdsOf(n)
    BY DEF AllIds
  <2>2. PICK i \in 1..Len(ledger[n]) : ledger[n][i].id = id
    BY <2>1, IdsMember
  <2>3. <<n, i>> \in Rows
    BY <1>1
  <2>4. f[<<n, i>>] = id
    BY <2>2, <2>3
  <2> QED BY <2>3, <2>4
<1>4. f \in [Rows -> AllIds]
  BY <1>2
<1> HIDE DEF f
<1>5. f \in Surjection(Rows, AllIds)
  BY <1>3, <1>4, Fun_IsSurj
<1>6. IsFiniteSet(Rows)
  BY DEF LedgersOK
<1>7. IsFiniteSet(AllIds) /\ Cardinality(AllIds) <= Cardinality(Rows)
  BY <1>5, <1>6, FS_Surjection
<1> QED BY <1>7, FS_CardinalityType

\* What was true of a prefix stays true when a row is added.
LEMMA DescribesKept ==
    ASSUME LedgersOK, NEW n \in Node, NEW e \in Entry,
           ledger' = [ledger EXCEPT ![n] = Append(ledger[n], e)],
           NEW root, NEW covers, NEW seq, NEW a \in Node, Describes(root, covers, seq, a)
    PROVE  Describes(root, covers, seq, a)'
<1>1. ledger[a] \in Seq(Entry) /\ Len(ledger[a]) \in Nat
  BY LenProperties DEF LedgersOK
<1>2. seq \in 0..Len(ledger[a]) /\ covers \in 0..Len(ledger[a])
  BY DEF Describes
<1>3. CASE a # n
  <2>1. ledger'[a] = ledger[a]
    BY <1>3 DEF LedgersOK
  <2> QED BY <2>1 DEF Describes
<1>4. CASE a = n
  <2>1. ledger'[a] = Append(ledger[a], e)
    BY <1>4 DEF LedgersOK
  <2>2. Len(ledger'[a]) = Len(ledger[a]) + 1
    BY <2>1, <1>1, AppendProperties
  <2>3. View(ledger'[a], covers) = View(ledger[a], covers)
    BY <2>1, <1>1, <1>2, ViewOfAppend
  <2>4. seq \in 0..Len(ledger'[a]) /\ covers \in 0..Len(ledger'[a])
    BY <2>2, <1>1, <1>2
  <2> QED BY <2>3, <2>4 DEF Describes
<1> QED BY <1>3, <1>4

LEMMA InsertStep ==
    ASSUME IInv, NEW n \in Node, NEW id \in 1..MaxRows, NEW t \in Timestamp,
           insert_row(n, id, t)
    PROVE  IInv'
<1> DEFINE e == [id |-> id, timestamp |-> t]
<1>l. LedgersOK
  BY DEF IInv
<1>e. e \in Entry
  BY DEF Entry
<1>1. ledger' = [ledger EXCEPT ![n] = Append(ledger[n], e)]
  BY DEF insert_row
<1>2. UNCHANGED <<local_state, peers, pending_requests, stats, wire, requests, outcomes>>
  BY DEF insert_row, managerVars
<1>f. id \notin IdsOf(n)
  BY DEF insert_row
<1>i. e.id = id
  OBVIOUS
<1> HIDE DEF e
<1>3. \A a \in Node : /\ ledger[a] \in Seq(Entry) /\ Len(ledger[a]) \in Nat
                      /\ a # n => ledger'[a] = ledger[a]
  BY <1>1, <1>l, LenProperties DEF LedgersOK
<1>4. /\ ledger'[n] = Append(ledger[n], e)
      /\ ledger'[n] \in Seq(Entry)
      /\ Len(ledger'[n]) = Len(ledger[n]) + 1
      /\ \A i \in 1..Len(ledger[n]) : ledger'[n][i] = ledger[n][i]
      /\ ledger'[n][Len(ledger[n]) + 1] = e
  <2>1. ledger'[n] = Append(ledger[n], e)
    BY <1>1, <1>l DEF LedgersOK
  <2> QED BY <2>1, <1>3, <1>e, AppendProperties
\* Every row that was there is still there.
<1>5. ASSUME NEW a \in Node
      PROVE  /\ Len(ledger[a]) <= Len(ledger'[a]) /\ Len(ledger'[a]) \in Nat
             /\ \A i \in 1..Len(ledger[a]) : ledger'[a][i] = ledger[a][i]
  <2>1. CASE a # n
    <3>1. ledger'[a] = ledger[a] /\ Len(ledger[a]) \in Nat
      BY <2>1, <1>3
    <3> QED BY <3>1
  <2>2. CASE a = n
    <3>1. Len(ledger[n]) \in Nat
      BY <1>3
    <3> QED BY <2>2, <3>1, <1>4
  <2> QED BY <2>1, <2>2
<1>6. Typed'
  BY <1>2 DEF IInv, Typed
<1>7. LedgersOK'
  <2>1. ledger' \in [Node -> Seq(Entry)]
    BY <1>1, <1>3, <1>4, <1>l DEF LedgersOK
  <2>2. ASSUME NEW a \in Node, NEW i \in 1..Len(ledger'[a]), NEW j \in 1..Len(ledger'[a]),
               ledger'[a][i].id = ledger'[a][j].id
        PROVE  i = j
    <3>1. CASE a # n
      BY <2>2, <3>1, <1>3, <1>l DEF LedgersOK
    <3>2. CASE a = n
      <4>1. \A k \in 1..Len(ledger[n]) : ledger[n][k].id # id
        BY <1>f, <1>l, IdsMember
      <4>2. \A k \in 1..Len(ledger'[n]) : k \in 1..Len(ledger[n]) \/ k = Len(ledger[n]) + 1
        BY <1>3, <1>4
      <4>3. CASE i \in 1..Len(ledger[n]) /\ j \in 1..Len(ledger[n])
        BY <2>2, <3>2, <4>3, <1>4, <1>l DEF LedgersOK
      <4>4. CASE i = Len(ledger[n]) + 1 /\ j \in 1..Len(ledger[n])
        BY <2>2, <3>2, <4>1, <4>4, <1>4, <1>i
      <4>5. CASE i \in 1..Len(ledger[n]) /\ j = Len(ledger[n]) + 1
        BY <2>2, <3>2, <4>1, <4>5, <1>4, <1>i
      <4> QED BY <3>2, <4>2, <4>3, <4>4, <4>5
    <3> QED BY <3>1, <3>2
  <2>3. IsFiniteSet(Rows')
    <3>1. \A a \in Node : DOMAIN ledger[a] = 1..Len(ledger[a])
      BY <1>3, LenProperties
    <3>2. \A a \in Node : DOMAIN ledger'[a] = 1..Len(ledger'[a])
      BY <2>1, LenProperties
    <3>3. DOMAIN ledger'[n] = DOMAIN ledger[n] \cup {Len(ledger[n]) + 1}
      BY <3>1, <3>2, <1>3, <1>4
    <3>4. Rows' = Rows \cup {<<n, Len(ledger[n]) + 1>>}
      BY <3>3, <1>3 DEF Rows
    <3>5. IsFiniteSet(Rows)
      BY <1>l DEF LedgersOK
    <3> QED BY <3>4, <3>5, FS_AddElement
  <2> QED BY <2>1, <2>2, <2>3 DEF LedgersOK
<1>8. Described'
  <2>1. ASSUME NEW a \in Node, NEW root, NEW covers, NEW seq, Describes(root, covers, seq, a)
        PROVE  Describes(root, covers, seq, a)'
    BY <2>1, <1>1, <1>e, <1>l, DescribesKept
  <2>2. ASSUME NEW a \in Node PROVE Describes(local_state[a].root, local_state[a].covers, local_state[a].seq, a)'
    BY <2>1, <1>2 DEF IInv, Described
  <2>3. ASSUME NEW m \in wire, m.type = "StateAdvert"
        PROVE  Describes(m.root, m.covers, m.seq, m.from)'
    <3>1. m.from \in Node
      BY <2>3 DEF IInv, Typed, Adverts, EntryRequests, EntryResponses
    <3>2. Describes(m.root, m.covers, m.seq, m.from)
      BY <2>3 DEF IInv, Described
    <3> QED BY <3>1, <3>2, <2>1
  <2>4. ASSUME NEW a \in Node, NEW p \in Node, peers[a][p] # NoAdvert
        PROVE  Describes(peers[a][p].root, peers[a][p].covers, peers[a][p].seq, p)'
    <3>1. Describes(peers[a][p].root, peers[a][p].covers, peers[a][p].seq, p)
      BY <2>4 DEF IInv, Described
    <3> QED BY <3>1, <2>1, <1>2
  <2> QED BY <2>2, <2>3, <2>4, <1>2 DEF Described
<1>9. Covered'
  <2>1. ASSUME NEW m \in wire, m.type \in {"EntryRequest", "EntryResponse"}
        PROVE  m.wanted \in 0..Len(ledger'[m.peer])
    <3>1. m.peer \in Node
      BY <2>1 DEF IInv, Typed, Adverts, EntryRequests, EntryResponses
    <3>2. m.wanted \in 0..Len(ledger[m.peer])
      BY <2>1 DEF IInv, Covered
    <3> QED BY <3>1, <3>2, <1>3, <1>5
  <2>2. ASSUME NEW r \in wire, r.type = "EntryResponse", r.from = r.peer,
               NEW i \in 1..Smaller(r.wanted, AnswerLimit)
        PROVE  /\ i <= Len(r.entries)
               /\ r.entries[i].seq = i /\ r.entries[i].id = ledger'[r.peer][i].id
    <3>1. r.peer \in Node
      BY <2>2 DEF IInv, Typed, Adverts, EntryRequests, EntryResponses
    <3>2. /\ i <= Len(r.entries)
          /\ r.entries[i].seq = i /\ r.entries[i].id = ledger[r.peer][i].id
      BY <2>2 DEF IInv, Covered, AnswerCoversAdvert
    <3>3. r.wanted \in 0..Len(ledger[r.peer])
      BY <2>2 DEF IInv, Covered
    <3>4. i \in 1..Len(ledger[r.peer])
      BY <3>1, <3>3, <1>3 DEF Smaller
    <3> QED BY <3>1, <3>2, <3>4, <1>5
  <2>3. \A m \in wire : m.type = "EntryRequest" /\ m.wanted > 0 => m.from_seq = 0
    BY DEF IInv, Covered
  <2> QED BY <2>1, <2>2, <2>3, <1>2 DEF Covered, AnswerCoversAdvert
<1>10. RequestsOK' /\ OutcomesOK' /\ CountedOnce'
  BY <1>2 DEF IInv, RequestsOK, OutcomesOK, CountedOnce
<1> QED BY <1>6, <1>7, <1>8, <1>9, <1>10 DEF IInv

-----------------------------------------------------------------------------
(* State and adverts *)

LEMMA UpdateStep ==
    ASSUME IInv, NEW n \in Node, NEW rootLag \in Nat, NEW seqLag \in Nat,
           update_local_state(n, rootLag, seqLag)
    PROVE  IInv'
<1> DEFINE covers == Smaller(Len(ledger[n]) - rootLag, RootCover)
           root == Root(get_entries_from(n, 0, covers))
           seq == Len(ledger[n]) - seqLag
<1>l. ledger[n] \in Seq(Entry) /\ Len(ledger[n]) \in Nat
  BY LenProperties DEF IInv, LedgersOK
<1>1. local_state' = [local_state EXCEPT ![n] =
                        [root |-> root, covers |-> covers, seq |-> seq]]
  BY DEF update_local_state, Told
<1>2. UNCHANGED <<ledger, peers, pending_requests, stats, wire, requests, outcomes>>
  BY DEF update_local_state
<1>g. rootLag <= Len(ledger[n]) /\ seqLag <= Len(ledger[n])
  BY DEF update_local_state
<1>n. covers \in 0..Len(ledger[n]) /\ covers \in Nat /\ seq \in 0..Len(ledger[n]) /\ seq \in Nat
  BY <1>g, <1>l DEF Smaller
<1> HIDE DEF covers, seq
<1>3. root \in Roots
  BY <1>l, <1>n, EntriesTyped DEF Root, Roots
<1>4. Describes(root, covers, seq, n)
  <2>1. root = Root(View(ledger[n], Smaller(Len(ledger[n]), covers)))
    BY <1>l, <1>n, EntriesFromZero
  <2>2. Smaller(Len(ledger[n]), covers) = covers
    BY <1>l, <1>n DEF Smaller
  <2> QED BY <2>1, <2>2, <1>n DEF Describes
<1> HIDE DEF root
<1>5. local_state' \in [Node -> [root : Roots, covers : Nat, seq : Nat]]
  BY <1>1, <1>3, <1>n DEF IInv, Typed
<1>6. Typed'
  BY <1>2, <1>5 DEF IInv, Typed
<1>7. LedgersOK'
  BY <1>2 DEF IInv, LedgersOK, Rows
<1>8. Described'
  <2>1. ASSUME NEW a \in Node PROVE Describes(local_state'[a].root, local_state'[a].covers, local_state'[a].seq, a)
    <3>1. CASE a = n
      <4>1. /\ local_state'[a].root = root /\ local_state'[a].covers = covers
            /\ local_state'[a].seq = seq
        BY <3>1, <1>1 DEF IInv, Typed
      <4> QED BY <4>1, <3>1, <1>4
    <3>2. CASE a # n
      <4>1. local_state'[a] = local_state[a]
        BY <3>2, <1>1 DEF IInv, Typed
      <4> QED BY <4>1 DEF IInv, Described
    <3> QED BY <3>1, <3>2
  <2> QED BY <2>1, <1>2 DEF IInv, Described, Describes
<1>9. Covered'
  BY <1>2 DEF IInv, Covered, AnswerCoversAdvert
<1>10. RequestsOK' /\ OutcomesOK' /\ CountedOnce'
  BY <1>2 DEF IInv, RequestsOK, OutcomesOK, CountedOnce
<1> QED BY <1>6, <1>7, <1>8, <1>9, <1>10 DEF IInv

\* Sending adds at most one message, within the bound.
LEMMA SendCounts ==
    ASSUME IsFiniteSet(wire), NEW m, Send(m)
    PROVE  /\ IsFiniteSet(wire')
           /\ Cardinality(wire) \in Nat /\ Cardinality(wire') \in Nat
           /\ Cardinality(wire') = IF m \in wire THEN Cardinality(wire)
                                   ELSE Cardinality(wire) + 1
           /\ Cardinality(wire') <= MaxMessages
<1>1. wire' = wire \cup {m}
  BY DEF Send
<1>2. /\ IsFiniteSet(wire \cup {m})
      /\ Cardinality(wire \cup {m}) = IF m \in wire THEN Cardinality(wire)
                                      ELSE Cardinality(wire) + 1
  BY FS_AddElement
<1>3. Cardinality(wire) \in Nat
  BY FS_CardinalityType
<1>4. Cardinality(wire') <= MaxMessages
  BY DEF Send
<1> QED BY <1>1, <1>2, <1>3, <1>4

LEMMA AdvertStep ==
    ASSUME IInv, NEW n \in Node, create_state_advert(n)
    PROVE  IInv'
<1> DEFINE m == StateAdvert(n)
<1>1. wire' = wire \cup {m}
  BY DEF create_state_advert, Send
<1>2. UNCHANGED <<ledger, local_state, peers, pending_requests, stats, requests, outcomes>>
  BY DEF create_state_advert, storeVars, managerVars
<1>3. /\ m \in Adverts
      /\ m.type = "StateAdvert" /\ m.from = n /\ m.root = local_state[n].root
      /\ m.covers = local_state[n].covers /\ m.seq = local_state[n].seq
  BY DEF StateAdvert, Adverts, IInv, Typed
<1>c. /\ IsFiniteSet(wire') /\ Cardinality(wire') <= MaxMessages
      /\ Cardinality(wire) \in Nat /\ Cardinality(wire') \in Nat
      /\ Cardinality(wire') >= Cardinality(wire)
  <2>1. IsFiniteSet(wire) /\ Send(m)
    BY DEF create_state_advert, IInv, RequestsOK
  <2> HIDE DEF m
  <2> QED BY <2>1, SendCounts
<1> HIDE DEF m
<1>4. Typed'
  BY <1>1, <1>2, <1>3 DEF IInv, Typed
<1>5. LedgersOK'
  BY <1>2 DEF IInv, LedgersOK, Rows
<1>6. Described'
  <2>1. Describes(m.root, m.covers, m.seq, m.from)
    BY <1>3 DEF IInv, Described
  <2>2. \A x \in wire' : x.type = "StateAdvert" => Describes(x.root, x.covers, x.seq, x.from)
    BY <2>1, <1>1 DEF IInv, Described
  <2>3. /\ \A a \in Node : Describes(local_state[a].root, local_state[a].covers, local_state[a].seq, a)
        /\ \A a, p \in Node : \/ peers[a][p] = NoAdvert
                              \/ Describes(peers[a][p].root, peers[a][p].covers, peers[a][p].seq, p)
    BY DEF IInv, Described
  <2> QED BY <2>2, <2>3, <1>2 DEF Described, Describes
<1>7. Covered'
  BY <1>1, <1>2, <1>3 DEF IInv, Covered, AnswerCoversAdvert
<1>8. RequestsOK'
  BY <1>1, <1>2, <1>3, <1>c DEF IInv, RequestsOK, Typed
<1>9. OutcomesOK' /\ CountedOnce'
  BY <1>2 DEF IInv, OutcomesOK, CountedOnce
<1> QED BY <1>4, <1>5, <1>6, <1>7, <1>8, <1>9 DEF IInv

LEMMA RegisterStep ==
    ASSUME IInv, NEW n \in Node, NEW m \in wire, register_peer_state(n, m)
    PROVE  IInv'
<1> DEFINE p == m.from
           known == [root |-> m.root, covers |-> m.covers, seq |-> m.seq]
<1>1. m.type = "StateAdvert" /\ peers' = [peers EXCEPT ![n][p] = known]
  BY DEF register_peer_state
<1>2. UNCHANGED <<ledger, local_state, pending_requests, stats, wire, requests, outcomes>>
  BY DEF register_peer_state
<1>3. p \in Node /\ m.root \in Roots /\ m.covers \in Nat /\ m.seq \in Nat
  BY <1>1 DEF IInv, Typed, Adverts, EntryRequests, EntryResponses
<1>4. Describes(m.root, m.covers, m.seq, p)
  BY <1>1 DEF IInv, Described
<1>5. peers' \in [Node -> [Node -> [root : Roots, covers : Nat, seq : Int]]]
  BY <1>1, <1>3 DEF IInv, Typed
<1>6. Typed'
  BY <1>2, <1>5 DEF IInv, Typed
<1>7. LedgersOK'
  BY <1>2 DEF IInv, LedgersOK, Rows
<1>8. Described'
  <2>1. ASSUME NEW a \in Node, NEW b \in Node
        PROVE  \/ peers'[a][b] = NoAdvert
               \/ Describes(peers'[a][b].root, peers'[a][b].covers, peers'[a][b].seq, b)
    <3>1. CASE a = n /\ b = p
      <4>1. /\ peers'[a][b].root = m.root /\ peers'[a][b].covers = m.covers
            /\ peers'[a][b].seq = m.seq
        BY <3>1, <1>1, <1>3 DEF IInv, Typed
      <4> QED BY <4>1, <3>1, <1>4
    <3>2. CASE ~(a = n /\ b = p)
      <4>1. peers'[a][b] = peers[a][b]
        BY <3>2, <1>1, <1>3 DEF IInv, Typed
      <4> QED BY <4>1 DEF IInv, Described
    <3> QED BY <3>1, <3>2
  <2>2. /\ \A a \in Node : Describes(local_state[a].root, local_state[a].covers, local_state[a].seq, a)
        /\ \A x \in wire : x.type = "StateAdvert" => Describes(x.root, x.covers, x.seq, x.from)
    BY DEF IInv, Described
  <2> QED BY <2>1, <2>2, <1>2 DEF Described, Describes
<1>9. Covered'
  BY <1>2 DEF IInv, Covered, AnswerCoversAdvert
<1>10. RequestsOK' /\ OutcomesOK' /\ CountedOnce'
  BY <1>2 DEF IInv, RequestsOK, OutcomesOK, CountedOnce
<1> QED BY <1>6, <1>7, <1>8, <1>9, <1>10 DEF IInv

-----------------------------------------------------------------------------
(* Requests and answers *)

\* A node that is behind asks from the start; it wants no more than its peer
\* has.
LEMMA RequestWants ==
    ASSUME IInv, NEW n \in Node, NEW p \in Node, NEW id \in Nat
    PROVE  LET m == EntryRequest(n, p, id)
           IN  /\ m \in EntryRequests
               /\ m.wanted \in 0..Len(ledger[p])
               /\ m.wanted > 0 => m.from_seq = 0
               /\ m.type = "EntryRequest" /\ m.request_id = id /\ m.peer = p
<1> DEFINE m == EntryRequest(n, p, id)
<1>t. /\ local_state[n].seq \in Nat /\ peers[n][p].seq \in Int
      /\ Len(ledger[p]) \in Nat
  BY LenProperties DEF IInv, Typed, LedgersOK
<1>1. CASE peers[n][p].seq > local_state[n].seq
  <2>1. peers[n][p] # NoAdvert
    BY <1>1, <1>t DEF NoAdvert
  <2>2. peers[n][p].seq \in 0..Len(ledger[p])
    BY <2>1 DEF IInv, Described, Describes
  <2>3. from_seq(n, p) = 0
    BY <2>1, <1>1, <1>t DEF from_seq, Larger
  <2> QED BY <2>2, <2>3, <1>1, <1>t DEF EntryRequest, EntryRequests
<1>2. CASE ~(peers[n][p].seq > local_state[n].seq)
  <2>1. from_seq(n, p) \in Nat
    BY <1>t DEF from_seq, Larger
  <2> QED BY <2>1, <1>2, <1>t DEF EntryRequest, EntryRequests
<1> QED BY <1>1, <1>2

LEMMA RequestStep ==
    ASSUME IInv, NEW n \in Node, NEW p \in Node, create_entry_request(n, p)
    PROVE  IInv'
<1> DEFINE id == requests + 1
           m == EntryRequest(n, p, id)
<1>t. requests \in Nat /\ id \in Nat
  BY DEF IInv, Typed
<1>1. /\ requests' = id
      /\ pending_requests' = [pending_requests EXCEPT ![n] = pending_requests[n] \cup {id}]
      /\ Send(m)
      /\ wire' = wire \cup {m}
  BY DEF create_entry_request, Send
<1>2. UNCHANGED <<ledger, local_state, peers, stats, outcomes>>
  BY DEF create_entry_request
<1>3. /\ m \in EntryRequests
      /\ m.wanted \in 0..Len(ledger[p])
      /\ m.wanted > 0 => m.from_seq = 0
      /\ m.type = "EntryRequest" /\ m.request_id = id /\ m.peer = p
  BY <1>t, RequestWants
<1> HIDE DEF m
<1>4. m \notin wire
  BY <1>3, <1>t DEF IInv, RequestsOK
<1>c. /\ IsFiniteSet(wire') /\ Cardinality(wire') <= MaxMessages
      /\ Cardinality(wire) \in Nat /\ Cardinality(wire') = Cardinality(wire) + 1
  <2>1. IsFiniteSet(wire)
    BY DEF IInv, RequestsOK
  <2> QED BY <2>1, <1>1, <1>4, SendCounts
<1>5. Typed'
  <2>1. wire' \subseteq Adverts \cup EntryRequests \cup EntryResponses
    BY <1>1, <1>3 DEF IInv, Typed
  <2>2. pending_requests' \in [Node -> SUBSET Nat]
    BY <1>1, <1>t DEF IInv, Typed
  <2> QED BY <2>1, <2>2, <1>1, <1>2, <1>t DEF IInv, Typed
<1>6. LedgersOK'
  BY <1>2 DEF IInv, LedgersOK, Rows
<1>7. Described'
  <2>1. \A x \in wire' : x.type = "StateAdvert" => Describes(x.root, x.covers, x.seq, x.from)
    BY <1>1, <1>3 DEF IInv, Described
  <2>2. /\ \A a \in Node : Describes(local_state[a].root, local_state[a].covers, local_state[a].seq, a)
        /\ \A a, b \in Node : \/ peers[a][b] = NoAdvert
                              \/ Describes(peers[a][b].root, peers[a][b].covers, peers[a][b].seq, b)
    BY DEF IInv, Described
  <2> QED BY <2>1, <2>2, <1>2 DEF Described, Describes
<1>8. Covered'
  <2>1. \A x \in wire' : x.type \in {"EntryRequest", "EntryResponse"} =>
          x.wanted \in 0..Len(ledger[x.peer])
    BY <1>1, <1>3 DEF IInv, Covered
  <2>2. \A x \in wire' : x.type = "EntryRequest" /\ x.wanted > 0 => x.from_seq = 0
    BY <1>1, <1>3 DEF IInv, Covered
  <2>3. AnswerCoversAdvert'
    BY <1>1, <1>2, <1>3 DEF IInv, Covered, AnswerCoversAdvert
  <2> QED BY <2>1, <2>2, <2>3, <1>2 DEF Covered
<1>p. \A a \in Node :
        pending_requests'[a] = IF a = n THEN pending_requests[a] \cup {id}
                               ELSE pending_requests[a]
  BY <1>1 DEF IInv, Typed
<1>9. RequestsOK'
  <2>1. \A a \in Node : pending_requests[a] \subseteq 1..requests
    BY DEF IInv, RequestsOK
  <2>2. \A a \in Node : pending_requests'[a] \subseteq 1..requests'
    BY <2>1, <1>p, <1>1, <1>t
  <2>3. ASSUME NEW a \in Node, NEW b \in Node, a # b
        PROVE  pending_requests'[a] \cap pending_requests'[b] = {}
    <3>1. pending_requests[a] \cap pending_requests[b] = {}
      BY <2>3 DEF IInv, RequestsOK
    <3>2. id \notin pending_requests[a] /\ id \notin pending_requests[b]
      BY <2>1, <1>t
    <3> QED BY <3>1, <3>2, <2>3, <1>p
  <2>4. \A x \in wire' : x.type = "EntryRequest" => x.request_id <= requests'
    <3>1. ASSUME NEW x \in wire, x.type = "EntryRequest" PROVE x.request_id <= id
      <4>1. x.request_id \in Nat
        BY <3>1 DEF IInv, Typed, Adverts, EntryRequests, EntryResponses
      <4>2. x.request_id <= requests
        BY <3>1 DEF IInv, RequestsOK
      <4> QED BY <4>1, <4>2, <1>t
    <3> QED BY <3>1, <1>1, <1>3, <1>t
  <2>5. requests' <= Cardinality(wire')
    BY <1>1, <1>c, <1>t DEF IInv, RequestsOK
  <2> QED BY <2>2, <2>3, <2>4, <2>5, <1>c DEF RequestsOK
<1>10. OutcomesOK'
  <2> SUFFICES ASSUME NEW a \in Node, NEW o \in outcomes[a]
               PROVE  o.request_id <= requests' /\ o.request_id \notin pending_requests'[a]
    BY <1>2 DEF IInv, OutcomesOK
  <2>1. /\ o.request_id \in Nat
        /\ o.request_id <= requests /\ o.request_id \notin pending_requests[a]
    BY DEF IInv, OutcomesOK, Typed, Outcome
  <2> QED BY <2>1, <1>1, <1>p, <1>t
<1>11. CountedOnce'
  BY <1>2 DEF IInv, CountedOnce
<1> QED BY <1>5, <1>6, <1>7, <1>8, <1>9, <1>10, <1>11 DEF IInv

LEMMA AnswerStep ==
    ASSUME IInv, NEW n \in Node, NEW q \in wire, Answer(n, q)
    PROVE  IInv'
<1> DEFINE m == EntryResponse(n, q)
<1>q. /\ q.type = "EntryRequest"
      /\ q.from \in Node /\ q.request_id \in Nat /\ q.peer \in Node
      /\ q.wanted \in Nat /\ q.from_seq \in Nat
  BY DEF Answer, IInv, Typed, Adverts, EntryRequests, EntryResponses
<1>l. ledger[n] \in Seq(Entry) /\ Len(ledger[n]) \in Nat
  BY LenProperties DEF IInv, LedgersOK
<1>1. Send(m) /\ wire' = wire \cup {m}
  BY DEF Answer, Send
<1>2. UNCHANGED <<ledger, local_state, peers, pending_requests, stats, requests, outcomes>>
  BY DEF Answer, storeVars, managerVars
<1>3. /\ m \in EntryResponses
      /\ m.type = "EntryResponse" /\ m.from = n /\ m.peer = q.peer /\ m.wanted = q.wanted
      /\ m.entries = get_entries_from(n, q.from_seq, AnswerLimit)
  <2>1. get_entries_from(n, q.from_seq, AnswerLimit) \in Seq(Item)
    BY <1>q, <1>l, EntriesTyped
  <2> QED BY <2>1, <1>q DEF EntryResponse, EntryResponses
<1> HIDE DEF m
<1>c. /\ IsFiniteSet(wire') /\ Cardinality(wire') <= MaxMessages
      /\ Cardinality(wire) \in Nat /\ Cardinality(wire') \in Nat
      /\ Cardinality(wire') >= Cardinality(wire)
  <2>1. IsFiniteSet(wire) /\ Send(m)
    BY <1>1 DEF IInv, RequestsOK
  <2> QED BY <2>1, SendCounts
<1>4. Typed'
  BY <1>1, <1>2, <1>3 DEF IInv, Typed
<1>5. LedgersOK'
  BY <1>2 DEF IInv, LedgersOK, Rows
<1>6. Described'
  <2>1. \A x \in wire' : x.type = "StateAdvert" => Describes(x.root, x.covers, x.seq, x.from)
    BY <1>1, <1>3 DEF IInv, Described
  <2>2. /\ \A a \in Node : Describes(local_state[a].root, local_state[a].covers, local_state[a].seq, a)
        /\ \A a, b \in Node : \/ peers[a][b] = NoAdvert
                              \/ Describes(peers[a][b].root, peers[a][b].covers, peers[a][b].seq, b)
    BY DEF IInv, Described
  <2> QED BY <2>1, <2>2, <1>2 DEF Described, Describes
<1>7. Covered'
  <2>w. q.wanted \in 0..Len(ledger[q.peer]) /\ (q.wanted > 0 => q.from_seq = 0)
    BY <1>q DEF IInv, Covered
  <2>1. \A x \in wire' : x.type \in {"EntryRequest", "EntryResponse"} =>
          x.wanted \in 0..Len(ledger[x.peer])
    BY <2>w, <1>1, <1>3 DEF IInv, Covered
  <2>2. \A x \in wire' : x.type = "EntryRequest" /\ x.wanted > 0 => x.from_seq = 0
    BY <1>1, <1>3 DEF IInv, Covered
  <2>3. ASSUME m.from = m.peer, NEW i \in 1..Smaller(m.wanted, AnswerLimit)
        PROVE  /\ i <= Len(m.entries)
               /\ m.entries[i].seq = i /\ m.entries[i].id = ledger[m.peer][i].id
    <3>0. q.wanted > 0
      BY <1>3, <1>q DEF Smaller
    <3>1. q.from_seq = 0 /\ q.wanted \in 0..Len(ledger[n])
      BY <3>0, <2>3, <2>w, <1>3
    <3>2. m.entries = View(ledger[n], Smaller(Len(ledger[n]), AnswerLimit))
      BY <3>1, <1>3, <1>l, EntriesFromZero
    <3>3. /\ Smaller(Len(ledger[n]), AnswerLimit) \in 0..Len(ledger[n])
          /\ i \in 1..Smaller(Len(ledger[n]), AnswerLimit)
      BY <3>1, <2>3, <1>3, <1>l DEF Smaller
    <3>4. /\ Len(m.entries) = Smaller(Len(ledger[n]), AnswerLimit)
          /\ m.entries[i] = [seq |-> i, id |-> ledger[n][i].id,
                             timestamp |-> ledger[n][i].timestamp]
      BY <3>2, <3>3, <1>l, ViewProperties
    <3> QED BY <3>3, <3>4, <2>3, <1>3, <1>l
  <2>4. AnswerCoversAdvert'
    <3> SUFFICES ASSUME NEW r \in wire', r.type = "EntryResponse", r.from = r.peer,
                        NEW i \in 1..Smaller(r.wanted, AnswerLimit)
                 PROVE  /\ i <= Len(r.entries)
                        /\ r.entries[i].seq = i /\ r.entries[i].id = ledger[r.peer][i].id
      BY <1>2 DEF AnswerCoversAdvert
    <3>1. CASE r \in wire
      BY <3>1 DEF IInv, Covered, AnswerCoversAdvert
    <3>2. CASE r = m
      BY <3>2, <2>3
    <3> QED BY <3>1, <3>2, <1>1
  <2> QED BY <2>1, <2>2, <2>4, <1>2 DEF Covered
<1>8. RequestsOK'
  BY <1>1, <1>2, <1>3, <1>c DEF IInv, RequestsOK, Typed
<1>9. OutcomesOK' /\ CountedOnce'
  BY <1>2 DEF IInv, OutcomesOK, CountedOnce
<1> QED BY <1>4, <1>5, <1>6, <1>7, <1>8, <1>9 DEF IInv

-----------------------------------------------------------------------------
(* Conflicts *)

Resolution == [local : Item, remote : Item, use_remote : BOOLEAN]

\* Two lists of entries have finitely many conflicts, and the later timestamp
\* decides each.
LEMMA ResolutionsFinite ==
    ASSUME NEW ours \in Seq(Item), NEW theirs \in Seq(Item)
    PROVE  LET R == {resolve(c) : c \in detect_conflicts(ours, theirs)}
           IN  /\ IsFiniteSet(R)
               /\ R \subseteq Resolution
               /\ \A r \in R : r.use_remote <=> r.remote.timestamp > r.local.timestamp
<1> DEFINE R == {resolve(c) : c \in detect_conflicts(ours, theirs)}
           P == Range(ours) \X Range(theirs)
           A == {resolve([local |-> x[1], remote |-> x[2]]) : x \in P}
           h == [x \in P |-> resolve([local |-> x[1], remote |-> x[2]])]
<1>1. ASSUME NEW s \in Seq(Item) PROVE IsFiniteSet(Range(s)) /\ Range(s) \subseteq Item
  <2>1. Len(s) \in Nat /\ DOMAIN s = 1..Len(s) /\ s \in [1..Len(s) -> Item]
    BY LenProperties
  <2>2. s \in [1..Len(s) -> Range(s)] /\ \A y \in Range(s) : \E i \in 1..Len(s) : s[i] = y
    BY <2>1 DEF Range
  <2>3. s \in Surjection(1..Len(s), Range(s))
    BY <2>2, Fun_IsSurj
  <2>4. IsFiniteSet(1..Len(s))
    BY <2>1, FS_Interval
  <2> QED BY <2>1, <2>3, <2>4, FS_Surjection DEF Range
<1>2. IsFiniteSet(P)
  BY <1>1, FS_Product
<1>3. h \in Surjection(P, A)
  <2>1. h \in [P -> A] /\ \A y \in A : \E x \in P : h[x] = y
    OBVIOUS
  <2> HIDE DEF h, P, A
  <2> QED BY <2>1, Fun_IsSurj
<1>4. IsFiniteSet(A)
  <2> HIDE DEF h, P, A
  <2> QED BY <1>2, <1>3, FS_Surjection
<1>5. ASSUME NEW c \in detect_conflicts(ours, theirs)
      PROVE  /\ c.local \in Range(ours) /\ c.remote \in Range(theirs)
             /\ c = [local |-> c.local, remote |-> c.remote]
             /\ c.local \in Item /\ c.remote \in Item
  <2>1. /\ c.local \in Range(ours) /\ c.remote \in Range(theirs)
        /\ c = [local |-> c.local, remote |-> c.remote]
    BY DEF detect_conflicts, LedgerConflict
  <2> QED BY <1>1, <2>1
<1>d. ASSUME NEW c \in detect_conflicts(ours, theirs)
      PROVE  /\ resolve_by_majority(c, 0, 0) \in BOOLEAN
             /\ resolve_by_majority(c, 0, 0) <=> c.remote.timestamp > c.local.timestamp
  <2>1. resolve_by_majority(c, 0, 0) \in BOOLEAN
    BY DEF resolve_by_majority, resolve_by_timestamp
  <2>2. resolve_by_majority(c, 0, 0) <=> c.remote.timestamp > c.local.timestamp
    BY DEF resolve_by_majority, resolve_by_timestamp
  <2> QED BY <2>1, <2>2
<1>6. R \subseteq A
  <2> SUFFICES ASSUME NEW c \in detect_conflicts(ours, theirs) PROVE resolve(c) \in A
    OBVIOUS
  <2> DEFINE x == <<c.local, c.remote>>
  <2>1. x \in P
    BY <1>5
  <2>2. c = [local |-> x[1], remote |-> x[2]]
    BY <1>5
  <2> QED BY <2>1, <2>2
<1>7. IsFiniteSet(R)
  <2> HIDE DEF R, A
  <2> QED BY <1>4, <1>6, FS_Subset
<1>8. R \subseteq Resolution
  <2> SUFFICES ASSUME NEW c \in detect_conflicts(ours, theirs) PROVE resolve(c) \in Resolution
    OBVIOUS
  <2> QED BY <1>5, <1>d DEF Resolution, resolve
<1>9. \A r \in R : r.use_remote <=> r.remote.timestamp > r.local.timestamp
  <2> SUFFICES ASSUME NEW c \in detect_conflicts(ours, theirs)
               PROVE  resolve(c).use_remote
                        <=> resolve(c).remote.timestamp > resolve(c).local.timestamp
    OBVIOUS
  <2> QED BY <1>d DEF resolve
<1> QED BY <1>7, <1>8, <1>9

\* Results, tagged with a request, are as many as before.
LEMMA TaggedCount ==
    ASSUME NEW R, IsFiniteSet(R), NEW k
    PROVE  LET T == {[request_id |-> k, result |-> r] : r \in R}
           IN  IsFiniteSet(T) /\ Cardinality(T) = Cardinality(R)
<1> DEFINE T == {[request_id |-> k, result |-> r] : r \in R}
           f == [r \in R |-> [request_id |-> k, result |-> r]]
<1>1. f \in [R -> T]
  OBVIOUS
<1>2. \A a, b \in R : f[a] = f[b] => a = b
  <2> SUFFICES ASSUME NEW a \in R, NEW b \in R, f[a] = f[b] PROVE a = b
    OBVIOUS
  <2>1. f[a].result = a /\ f[b].result = b
    OBVIOUS
  <2> QED BY <2>1
<1>3. \A t \in T : \E r \in R : f[r] = t
  OBVIOUS
<1> HIDE DEF f, T
<1>4. f \in Bijection(R, T)
  BY <1>1, <1>2, <1>3, Fun_IsBij
<1>5. ExistsBijection(R, T)
  BY <1>4 DEF ExistsBijection
<1>6. IsFiniteSet(T) /\ Cardinality(T) = Cardinality(R)
  BY <1>5, FS_Bijection
<1> QED BY <1>6 DEF T

\* The statistics of two disjoint sets of outcomes add up.
LEMMA DisjointCount ==
    ASSUME NEW S, NEW T, IsFiniteSet(S), IsFiniteSet(T), S \cap T = {}
    PROVE  /\ IsFiniteSet(S \cup T)
           /\ Cardinality(S \cup T) = Cardinality(S) + Cardinality(T)
           /\ Cardinality(S) \in Nat /\ Cardinality(T) \in Nat
<1>1. /\ IsFiniteSet(S \cup T)
      /\ Cardinality(S \cup T) = Cardinality(S) + Cardinality(T) - Cardinality(S \cap T)
  BY FS_Union
<1>2. Cardinality(S \cap T) = 0
  BY FS_EmptySet
<1>3. Cardinality(S) \in Nat /\ Cardinality(T) \in Nat
  BY FS_CardinalityType
<1> QED BY <1>1, <1>2, <1>3

LEMMA ProcessStep ==
    ASSUME IInv, NEW n \in Node, NEW m \in wire, process_entries(n, m)
    PROVE  IInv'
<1> DEFINE R == Results(n, m)
           W == {r \in R : r.use_remote}
           T == {[request_id |-> m.request_id, result |-> r] : r \in R}
           O == {o \in outcomes[n] : o.result.use_remote}
           U == {o \in T : o.result.use_remote}
<1>1. m.type = "EntryResponse" /\ m.request_id \in pending_requests[n]
  BY DEF process_entries
<1>2. UNCHANGED <<ledger, local_state, peers, wire, requests>>
  BY DEF process_entries
<1>p. pending_requests' = [pending_requests EXCEPT ![n] = pending_requests[n] \ {m.request_id}]
  BY DEF process_entries
<1>s. stats' = [stats EXCEPT ![n] =
                  [resolved_count |-> stats[n].resolved_count + Cardinality(R),
                   remote_wins |-> stats[n].remote_wins + Cardinality(W)]]
  BY DEF process_entries, Count
<1>o. outcomes' = [outcomes EXCEPT ![n] = outcomes[n] \cup T]
  BY DEF process_entries, Count
<1>m. m.entries \in Seq(Item) /\ m.request_id \in Nat
  BY <1>1 DEF IInv, Typed, Adverts, EntryRequests, EntryResponses
<1>3. /\ IsFiniteSet(R) /\ R \subseteq Resolution
      /\ \A r \in R : r.use_remote <=> r.remote.timestamp > r.local.timestamp
  <2>1. ledger[n] \in Seq(Entry) /\ Len(ledger[n]) \in Nat
    BY LenProperties DEF IInv, LedgersOK
  <2>2. All(n) \in Seq(Item)
    BY <2>1, EntriesTyped DEF All
  <2> QED BY <2>2, <1>m, ResolutionsFinite DEF Results
<1> HIDE DEF R
<1>4. IsFiniteSet(W) /\ Cardinality(R) \in Nat /\ Cardinality(W) \in Nat
  <2>1. IsFiniteSet(W)
    BY <1>3, FS_Subset
  <2> QED BY <2>1, <1>3, FS_CardinalityType
<1>5. IsFiniteSet(T) /\ Cardinality(T) = Cardinality(R)
  BY <1>3, TaggedCount
<1>6. IsFiniteSet(U) /\ Cardinality(U) = Cardinality(W)
  <2>1. U = {[request_id |-> m.request_id, result |-> r] : r \in W}
    OBVIOUS
  <2> HIDE DEF U, W
  <2> QED BY <2>1, <1>4, TaggedCount
<1>7. \A o \in T : o \in Outcome /\ o.request_id = m.request_id
  BY <1>m, <1>3 DEF Outcome, Resolution
<1>8. ASSUME NEW a \in outcomes[n] PROVE a.request_id # m.request_id
  BY <1>1 DEF IInv, OutcomesOK
<1>9. outcomes[n] \cap T = {} /\ O \cap U = {}
  BY <1>7, <1>8
<1>10. /\ IsFiniteSet(outcomes[n]) /\ IsFiniteSet(O)
       /\ stats[n].resolved_count = Cardinality(outcomes[n])
       /\ stats[n].remote_wins = Cardinality(O)
  <2>1. IsFiniteSet(outcomes[n])
    BY DEF IInv, OutcomesOK
  <2>2. IsFiniteSet(O)
    BY <2>1, FS_Subset
  <2>3. /\ stats[n].resolved_count = Cardinality(outcomes[n])
        /\ stats[n].remote_wins = Cardinality(O)
    BY DEF IInv, CountedOnce
  <2> QED BY <2>1, <2>2, <2>3
<1>11. {o \in outcomes[n] \cup T : o.result.use_remote} = O \cup U
  OBVIOUS
<1>12. \A o \in T : o.result.use_remote <=> o.result.remote.timestamp > o.result.local.timestamp
  BY <1>3
<1> HIDE DEF T, O, U, W
<1>13. /\ IsFiniteSet(outcomes[n] \cup T)
       /\ Cardinality(outcomes[n] \cup T) = Cardinality(outcomes[n]) + Cardinality(R)
  <2>1. IsFiniteSet(outcomes[n]) /\ IsFiniteSet(T) /\ outcomes[n] \cap T = {}
    BY <1>5, <1>9, <1>10
  <2>2. /\ IsFiniteSet(outcomes[n] \cup T)
        /\ Cardinality(outcomes[n] \cup T) = Cardinality(outcomes[n]) + Cardinality(T)
    BY <2>1, DisjointCount
  <2> QED BY <2>2, <1>5
<1>14. Cardinality(O \cup U) = Cardinality(O) + Cardinality(W)
  <2>1. IsFiniteSet(O) /\ IsFiniteSet(U) /\ O \cap U = {}
    BY <1>6, <1>9, <1>10
  <2>2. Cardinality(O \cup U) = Cardinality(O) + Cardinality(U)
    BY ONLY <2>1, DisjointCount
  <2> QED BY <2>2, <1>6
<1>15. Typed'
  <2>1. pending_requests' \in [Node -> SUBSET Nat]
    BY <1>p DEF IInv, Typed
  <2>2. stats' \in [Node -> [resolved_count : Nat, remote_wins : Nat]]
    BY <1>s, <1>4 DEF IInv, Typed
  <2>3. outcomes' \in [Node -> SUBSET Outcome]
    BY <1>o, <1>7 DEF IInv, Typed
  <2> QED BY <2>1, <2>2, <2>3, <1>2 DEF IInv, Typed
<1>16. LedgersOK'
  BY <1>2 DEF IInv, LedgersOK, Rows
<1>17. Described'
  BY <1>2 DEF IInv, Described, Describes
<1>18. Covered'
  BY <1>2 DEF IInv, Covered, AnswerCoversAdvert
<1>19. \A a \in Node :
         /\ pending_requests'[a] \subseteq pending_requests[a]
         /\ a = n => pending_requests'[a] = pending_requests[a] \ {m.request_id}
         /\ outcomes'[a] = IF a = n THEN outcomes[n] \cup T ELSE outcomes[a]
         /\ a # n => stats'[a] = stats[a]
  BY <1>p, <1>o, <1>s DEF IInv, Typed
<1>20. RequestsOK'
  <2>1. \A a \in Node : pending_requests'[a] \subseteq 1..requests
    BY <1>19 DEF IInv, RequestsOK
  <2>2. \A a, b \in Node : a # b => pending_requests'[a] \cap pending_requests'[b] = {}
    <3> SUFFICES ASSUME NEW a \in Node, NEW b \in Node, a # b
                 PROVE  pending_requests'[a] \cap pending_requests'[b] = {}
      OBVIOUS
    <3>1. pending_requests[a] \cap pending_requests[b] = {}
      BY DEF IInv, RequestsOK
    <3> QED BY <3>1, <1>19
  <2> QED BY <2>1, <2>2, <1>2 DEF IInv, RequestsOK
<1>21. OutcomesOK'
  <2>1. ASSUME NEW a \in Node PROVE IsFiniteSet(outcomes'[a])
    BY <1>13, <1>19 DEF IInv, OutcomesOK
  <2>2. ASSUME NEW a \in Node, NEW o \in outcomes'[a]
        PROVE  /\ o.request_id <= requests' /\ o.request_id \notin pending_requests'[a]
               /\ o.result.use_remote
                    <=> o.result.remote.timestamp > o.result.local.timestamp
    <3>1. CASE o \in outcomes[a]
      BY <3>1, <1>2, <1>19 DEF IInv, OutcomesOK
    <3>2. CASE a = n /\ o \in T
      <4>1. m.request_id \in 1..requests
        BY <1>1 DEF IInv, RequestsOK
      <4>2. requests \in Nat
        BY DEF IInv, Typed
      <4>3. o.request_id <= requests' /\ o.request_id \notin pending_requests'[a]
        BY <3>2, <4>1, <4>2, <1>2, <1>7, <1>19
      <4> QED BY <3>2, <4>3, <1>12
    <3> QED BY <3>1, <3>2, <1>19
  <2> QED BY <2>1, <2>2 DEF OutcomesOK
<1>22. CountedOnce'
  <2> SUFFICES ASSUME NEW a \in Node
               PROVE  /\ stats'[a].resolved_count = Cardinality(outcomes'[a])
                      /\ stats'[a].remote_wins
                           = Cardinality({o \in outcomes'[a] : o.result.use_remote})
    BY DEF CountedOnce
  <2>1. CASE a # n
    <3>1. stats'[a] = stats[a] /\ outcomes'[a] = outcomes[a]
      BY <2>1, <1>19
    <3> QED BY <3>1 DEF IInv, CountedOnce
  <2>2. CASE a = n
    <3>1. /\ stats'[a].resolved_count = stats[n].resolved_count + Cardinality(R)
          /\ stats'[a].remote_wins = stats[n].remote_wins + Cardinality(W)
      BY <2>2, <1>s DEF IInv, Typed
    <3>2. outcomes'[a] = outcomes[n] \cup T
      BY <2>2, <1>19
    <3>3. {o \in outcomes'[a] : o.result.use_remote} = O \cup U
      BY <3>2, <1>11
    <3> QED BY <3>1, <3>2, <3>3, <1>10, <1>13, <1>14
  <2> QED BY <2>1, <2>2
<1> QED BY <1>15, <1>16, <1>17, <1>18, <1>20, <1>21, <1>22 DEF IInv

-----------------------------------------------------------------------------
(* The invariant is kept *)

LEMMA NextInv == IInv /\ [SyncNext]_syncVars => IInv'
<1> SUFFICES ASSUME IInv, [SyncNext]_syncVars PROVE IInv'
  OBVIOUS
<1>1. CASE UNCHANGED syncVars
  <2>1. UNCHANGED <<ledger, local_state, peers, pending_requests, stats, wire, requests, outcomes>>
    BY <1>1 DEF syncVars
  <2>2. Typed' /\ LedgersOK'
    BY <2>1 DEF IInv, Typed, LedgersOK, Rows
  <2>3. Described' /\ Covered'
    BY <2>1 DEF IInv, Described, Describes, Covered, AnswerCoversAdvert
  <2>4. RequestsOK' /\ OutcomesOK' /\ CountedOnce'
    BY <2>1 DEF IInv, RequestsOK, OutcomesOK, CountedOnce
  <2> QED BY <2>2, <2>3, <2>4 DEF IInv
<1>2. ASSUME NEW n \in Node, NEW t \in RecordTimes, record(n, t)
      PROVE  IInv'
  <2>l. LedgersOK
    BY DEF IInv
  <2>1. Cardinality(AllIds) \in Nat /\ Cardinality(AllIds) <= Cardinality(Rows)
    BY <2>l, FewIds
  <2>2. Cardinality(Rows) < MaxRows /\ Cardinality(Rows) \in Nat
    BY <1>2, <2>l, FS_CardinalityType DEF record, insert_row, LedgersOK
  <2>3. Cardinality(AllIds) + 1 \in 1..MaxRows
    BY <2>1, <2>2
  <2>4. t \in Timestamp
    OBVIOUS
  <2> QED BY <1>2, <2>3, <2>4, InsertStep DEF record
<1>3. ASSUME NEW n \in Node, NEW m \in Node, NEW t \in Timestamp, Import(n, m, t)
      PROVE  IInv'
  <2>l. LedgersOK
    BY DEF IInv
  <2>1. PICK id \in IdsOf(m) : insert_row(n, id, t)
    BY <1>3 DEF Import
  <2>2. PICK i \in 1..Len(ledger[m]) : ledger[m][i].id = id
    BY <2>l, IdsMember
  <2>3. ledger[m][i] \in Entry
    BY <2>l, ElementOfSeq DEF LedgersOK
  <2>4. id \in 1..MaxRows
    BY <2>2, <2>3 DEF Entry
  <2> QED BY <2>1, <2>4, InsertStep
<1>4. ASSUME NEW n \in Node,
             \/ \E rootLag \in 0..MaxRootLag, seqLag \in 0..MaxSeqLag :
                  update_local_state(n, rootLag, seqLag)
             \/ create_state_advert(n)
             \/ \E p \in Node : create_entry_request(n, p)
      PROVE  IInv'
  BY <1>4, UpdateStep, AdvertStep, RequestStep
<1>5. ASSUME NEW n \in Node, NEW m \in wire,
             register_peer_state(n, m) \/ Answer(n, m) \/ process_entries(n, m)
      PROVE  IInv'
  BY <1>5, RegisterStep, AnswerStep, ProcessStep
<1>6. CASE SyncNext
  <2>1. PICK n \in Node :
          \/ \E t \in RecordTimes : record(n, t)
          \/ \E m \in Node \ {n}, t \in Timestamp : Import(n, m, t)
          \/ \E rootLag \in 0..MaxRootLag, seqLag \in 0..MaxSeqLag :
               update_local_state(n, rootLag, seqLag)
          \/ create_state_advert(n)
          \/ \E p \in Node : create_entry_request(n, p)
          \/ \E m \in wire :
               register_peer_state(n, m) \/ Answer(n, m) \/ process_entries(n, m)
    BY <1>6 DEF SyncNext
  <2>2. CASE \E t \in RecordTimes : record(n, t)
    BY <2>2, <1>2
  <2>3. CASE \E m \in Node \ {n}, t \in Timestamp : Import(n, m, t)
    BY <2>3, <1>3
  <2>4. CASE \/ \E rootLag \in 0..MaxRootLag, seqLag \in 0..MaxSeqLag :
                  update_local_state(n, rootLag, seqLag)
             \/ create_state_advert(n)
             \/ \E p \in Node : create_entry_request(n, p)
    BY <2>4, <1>4
  <2>5. CASE \E m \in wire :
               register_peer_state(n, m) \/ Answer(n, m) \/ process_entries(n, m)
    BY <2>5, <1>5
  <2> QED BY <2>1, <2>2, <2>3, <2>4, <2>5
<1> QED BY <1>1, <1>6

\* The inductive invariant holds, whatever nodes record, copy, lose, repeat and
\* reorder.
THEOREM InductiveInvariant == SyncSpec => []IInv
<1>1. SyncInit => IInv
  BY InitInv
<1>2. IInv /\ [SyncNext]_syncVars => IInv'
  BY NextInv
<1> QED BY <1>1, <1>2, PTL DEF SyncSpec

-----------------------------------------------------------------------------
(* What follows from it *)

\* Type correctness: request ids are pending at one node only, ids are unique
\* within a ledger, and what a manager knows never runs ahead of the ledgers.
THEOREM TypeCorrect == SyncSpec => []SyncTypeOK
<1>1. IInv => SyncTypeOK
  <2> SUFFICES ASSUME IInv PROVE SyncTypeOK
    OBVIOUS
  <2>1. ASSUME NEW n \in Node
        PROVE  /\ ledger[n] \in Seq(Entry)
               /\ IsInjective([i \in DOMAIN ledger[n] |-> ledger[n][i].id])
    <3>1. ledger[n] \in Seq(Entry) /\ DOMAIN ledger[n] = 1..Len(ledger[n])
      BY LenProperties DEF IInv, LedgersOK
    <3>2. \A i, j \in DOMAIN ledger[n] : ledger[n][i].id = ledger[n][j].id => i = j
      BY <3>1 DEF IInv, LedgersOK
    <3> QED BY <3>1, <3>2 DEF IsInjective
  <2>2. \A n \in Node : local_state[n].seq \in 0..Len(ledger[n])
    BY DEF IInv, Described, Describes
  <2>3. ASSUME NEW n \in Node, NEW p \in Node
        PROVE  peers[n][p].seq \in -1..Len(ledger[p])
    <3>1. Len(ledger[p]) \in Nat
      BY LenProperties DEF IInv, LedgersOK
    <3>2. peers[n][p] = NoAdvert \/ peers[n][p].seq \in 0..Len(ledger[p])
      BY DEF IInv, Described, Describes
    <3> QED BY <3>1, <3>2 DEF NoAdvert
  <2>4. requests \in 0..MaxMessages
    <3>1. requests \in Nat /\ Cardinality(wire) \in Nat
      BY FS_CardinalityType DEF IInv, Typed, RequestsOK
    <3> QED BY <3>1 DEF IInv, RequestsOK
  <2>5. /\ \A n \in Node : pending_requests[n] \subseteq 1..requests
        /\ \A n, p \in Node : n # p => pending_requests[n] \cap pending_requests[p] = {}
    BY DEF IInv, RequestsOK
  <2> QED BY <2>1, <2>2, <2>3, <2>4, <2>5 DEF SyncTypeOK
<1> QED BY <1>1, InductiveInvariant, PTL

\* Equal roots of prefixes are roots of equal prefixes.
LEMMA EqualViews ==
    ASSUME NEW s \in Seq(Entry), NEW t \in Seq(Entry),
           NEW j \in 0..Len(s), NEW k \in 0..Len(t), View(s, j) = View(t, k)
    PROVE  j = k /\ SubSeq(s, 1, k) = SubSeq(t, 1, k)
<1>l. Len(s) \in Nat /\ Len(t) \in Nat
  BY LenProperties
<1>1. j = k
  BY ViewProperties
<1>2. ASSUME NEW i \in 1..k PROVE s[i] = t[i]
  <2>1. s[i] \in Entry /\ t[i] \in Entry
    BY <1>1, <1>l, ElementOfSeq
  <2>2. /\ View(s, j)[i] = [seq |-> i, id |-> s[i].id, timestamp |-> s[i].timestamp]
        /\ View(t, k)[i] = [seq |-> i, id |-> t[i].id, timestamp |-> t[i].timestamp]
    BY <1>1 DEF View
  <2>3. s[i].id = t[i].id /\ s[i].timestamp = t[i].timestamp
    BY <2>2
  <2>4. /\ s[i] = [id |-> s[i].id, timestamp |-> s[i].timestamp]
        /\ t[i] = [id |-> t[i].id, timestamp |-> t[i].timestamp]
    BY <2>1 DEF Entry
  <2> QED BY <2>3, <2>4
<1>3. SubSeq(s, 1, k) = [i \in 1..k |-> s[i]] /\ SubSeq(t, 1, k) = [i \in 1..k |-> t[i]]
  BY <1>1, <1>l
<1> QED BY <1>1, <1>2, <1>3

\* No false agreement: when needs_sync says that there is nothing to do, both
\* ledgers begin alike up to what the peer's root was meant to cover, however
\* stale either view is and whatever was recorded between its two readings.
THEOREM AgreementsReal == SyncSpec => []AgreementIsReal
<1>1. IInv => AgreementIsReal
  <2> SUFFICES ASSUME IInv, NEW n \in Node, NEW p \in Node,
                      peers[n][p] # NoAdvert, ~needs_sync(n, p)
               PROVE  LET k == peers[n][p].covers IN Prefix(n, k) = Prefix(p, k)
    BY DEF AgreementIsReal
  <2> DEFINE k == peers[n][p].covers
             j == local_state[n].covers
  <2>l. /\ ledger[n] \in Seq(Entry) /\ ledger[p] \in Seq(Entry)
        /\ Len(ledger[n]) \in Nat /\ Len(ledger[p]) \in Nat
    BY LenProperties DEF IInv, LedgersOK
  <2>1. peers[n][p].root = local_state[n].root
    BY DEF needs_sync
  <2>2. /\ Describes(peers[n][p].root, peers[n][p].covers, peers[n][p].seq, p)
        /\ Describes(local_state[n].root, local_state[n].covers, local_state[n].seq, n)
    BY DEF IInv, Described
  <2>3. k \in 0..Len(ledger[p]) /\ j \in 0..Len(ledger[n])
    BY <2>2 DEF Describes
  <2>4. CASE peers[n][p].root = NoRoot /\ k = 0
    <3>1. SubSeq(ledger[n], 1, 0) = <<>> /\ SubSeq(ledger[p], 1, 0) = <<>>
      BY <2>l
    <3> QED BY <2>4, <3>1 DEF Prefix
  <2>5. CASE peers[n][p].root = Root(View(ledger[p], k))
    <3>1. local_state[n].root = Root(View(ledger[n], j))
      BY <2>1, <2>2, <2>5 DEF Describes, Root, NoRoot
    <3>2. View(ledger[n], j) = View(ledger[p], k)
      BY <3>1, <2>1, <2>5 DEF Root
    <3> HIDE DEF j, k
    <3>3. SubSeq(ledger[n], 1, k) = SubSeq(ledger[p], 1, k)
      BY ONLY <3>2, <2>3, <2>l, EqualViews
    <3> QED BY <3>3 DEF Prefix, k
  <2> QED BY <2>2, <2>4, <2>5 DEF Describes
<1> QED BY <1>1, InductiveInvariant, PTL

\* A node that is behind catches up: the answer of the peer it asked holds what
\* the peer advertised, up to the limit of an answer.
THEOREM AnswersCover == SyncSpec => []AnswerCoversAdvert
<1>1. IInv => AnswerCoversAdvert
  BY DEF IInv, Covered
<1> QED BY <1>1, InductiveInvariant, PTL

\* The statistics count the conflicts of each request once, whatever arrives
\* twice.
THEOREM StatisticsExact == SyncSpec => []CountedOnce
<1>1. IInv => CountedOnce
  BY DEF IInv
<1> QED BY <1>1, InductiveInvariant, PTL

\* Two nodes that resolve the same conflict keep the same entry, the later one,
\* whenever the timestamps differ.
THEOREM ResolutionsConverge == SyncSpec => []ResolutionsAgree
<1>1. IInv => ResolutionsAgree
  <2> SUFFICES ASSUME IInv, NEW n \in Node, NEW p \in Node,
                      NEW a \in outcomes[n], NEW b \in outcomes[p],
                      Mirrored(a.result, b.result),
                      a.result.local.timestamp # a.result.remote.timestamp
               PROVE  /\ Kept(a.result) = Kept(b.result)
                      /\ Kept(a.result).timestamp >= a.result.local.timestamp
                      /\ Kept(a.result).timestamp >= a.result.remote.timestamp
    BY DEF ResolutionsAgree
  <2>1. a \in Outcome /\ b \in Outcome
    BY DEF IInv, Typed
  <2>2. /\ a.result.local.timestamp \in Nat /\ a.result.remote.timestamp \in Nat
        /\ a.result.use_remote \in BOOLEAN /\ b.result.use_remote \in BOOLEAN
    BY <2>1 DEF Outcome, Item
  <2>3. /\ a.result.use_remote <=> a.result.remote.timestamp > a.result.local.timestamp
        /\ b.result.use_remote <=> a.result.local.timestamp > a.result.remote.timestamp
    BY DEF IInv, OutcomesOK, Mirrored
  <2>4. CASE a.result.remote.timestamp > a.result.local.timestamp
    <3>1. a.result.use_remote /\ ~b.result.use_remote
      BY <2>2, <2>3, <2>4
    <3>2. Kept(a.result) = a.result.remote /\ Kept(b.result) = a.result.remote
      BY <3>1 DEF Kept, Mirrored
    <3> QED BY <2>2, <2>4, <3>2
  <2>5. CASE a.result.local.timestamp > a.result.remote.timestamp
    <3>1. ~a.result.use_remote /\ b.result.use_remote
      BY <2>2, <2>3, <2>5
    <3>2. Kept(a.result) = a.result.local /\ Kept(b.result) = a.result.local
      BY <3>1 DEF Kept, Mirrored
    <3> QED BY <2>2, <2>5, <3>2
  <2> QED BY <2>2, <2>4, <2>5
<1> QED BY <1>1, InductiveInvariant, PTL
=============================================================================
