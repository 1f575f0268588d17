------------------------- MODULE NodeDaemonProofs -------------------------
(* Proofs about NodeDaemon, for any number of processes, clients, runs of  *)
(* cmd_init, kills and failing system calls.                               *)
EXTENDS NodeDaemon, SequenceTheorems, TLAPS

USE DaemonAssumption

\* A configuration written to an empty file is the whole file.
LEMMA WholeText ==
    ASSUME NEW id \in Nat
    PROVE  Text(id) \o SubSeq(<<>>, Len(Text(id)) + 1, Len(<<>>)) = Text(id)
<1> DEFINE n == (id % 2) + 1
<1>1. n \in Nat
  OBVIOUS
<1>2. Text(id) \in Seq(Nat) /\ Len(Text(id)) = n
  BY <1>1 DEF Text
<1>3. SubSeq(<<>>, Len(Text(id)) + 1, Len(<<>>)) = <<>>
  BY <1>1, <1>2
<1> QED BY <1>2, <1>3

\* What the commands know about the processes.
ProcsOK ==
    /\ pc \in [Proc -> States]
    /\ inits \in Nat
    /\ identity \in [Proc -> Nat]
    /\ \A p \in Proc : pc[p] = "save" => identity[p] \in 1..inits

\* While nothing was cut off and no two saves met, there is at most one save
\* under way, and the file it writes to is empty.
SaveAlone ==
    ~disturbed =>
        /\ \A p, q \in Proc : pc[p] = "save" /\ pc[q] = "save" => p = q
        /\ \A p \in Proc : pc[p] = "save" => config = <<>>

DaemonInv == ProcsOK /\ SaveAlone /\ ConfigUsable

LEMMA DaemonInvInit == DaemonInit => DaemonInv
BY DEF DaemonInit, DaemonInv, ProcsOK, SaveAlone, ConfigUsable, States

\* A step that touches neither the file nor who is saving.
LEMMA Elsewhere ==
    ASSUME DaemonInv, UNCHANGED fileVars,
           pc' \in [Proc -> States], identity' \in [Proc -> Nat],
           \A p \in Proc : pc'[p] = "save" <=> pc[p] = "save",
           \A p \in Proc : pc[p] = "save" => identity'[p] = identity[p]
    PROVE  DaemonInv'
<1>1. ProcsOK'
  BY DEF DaemonInv, ProcsOK, fileVars
<1>2. SaveAlone'
  BY DEF DaemonInv, SaveAlone, fileVars
<1>3. ConfigUsable'
  BY DEF DaemonInv, ConfigUsable, Readable, fileVars
<1> QED BY <1>1, <1>2, <1>3 DEF DaemonInv

LEMMA InitStep ==
    ASSUME DaemonInv, NEW p \in Proc, cmd_init(p)
    PROVE  DaemonInv'
<1>1. ProcsOK'
  BY DEF DaemonInv, ProcsOK, cmd_init, States
<1>2. SaveAlone'
  BY DEF DaemonInv, ProcsOK, SaveAlone, cmd_init
<1>3. pc'[p] = "save"
  BY DEF DaemonInv, ProcsOK, cmd_init
<1> QED BY <1>1, <1>2, <1>3 DEF DaemonInv, ConfigUsable

LEMMA SaveStep ==
    ASSUME DaemonInv, NEW p \in Proc, save(p)
    PROVE  DaemonInv'
<1>1. ProcsOK'
  BY DEF DaemonInv, ProcsOK, save, States
<1>2. ASSUME ~disturbed
      PROVE  /\ \A q \in Proc : pc'[q] # "save"
             /\ config' = Text(identity[p]) /\ identity[p] \in 1..inits
  <2>1. config = <<>> /\ identity[p] \in 1..inits
    BY <1>2 DEF DaemonInv, ProcsOK, SaveAlone, save
  <2>2. config' = Text(identity[p])
    <3>1. identity[p] \in Nat
      BY DEF DaemonInv, ProcsOK
    <3> QED BY <2>1, <3>1, WholeText DEF save
  <2>3. \A q \in Proc : pc'[q] # "save"
    BY <1>2 DEF DaemonInv, ProcsOK, SaveAlone, save
  <2> QED BY <2>1, <2>2, <2>3
<1>3. SaveAlone'
  BY <1>2 DEF SaveAlone, save
<1>4. ConfigUsable'
  BY <1>2 DEF ConfigUsable, Readable, save
<1> QED BY <1>1, <1>3, <1>4 DEF DaemonInv

\* A process ends; a save that it was about to make is cut off.
LEMMA EndedStep ==
    ASSUME DaemonInv, NEW p \in Proc, NEW how, Ended(p, how),
           config' = config, inits' = inits,
           disturbed' <=> (disturbed \/ pc[p] = "save")
    PROVE  DaemonInv'
<1>1. /\ pc' = [pc EXCEPT ![p] = "none"]
      /\ identity' = [identity EXCEPT ![p] = 0]
  BY DEF Ended
<1>2. ProcsOK'
  BY <1>1 DEF DaemonInv, ProcsOK, States
<1>3. SaveAlone'
  BY <1>1 DEF DaemonInv, ProcsOK, SaveAlone
<1>4. ConfigUsable'
  BY <1>1 DEF DaemonInv, ProcsOK, ConfigUsable, Readable
<1> QED BY <1>2, <1>3, <1>4 DEF DaemonInv

LEMMA KillStep ==
    ASSUME DaemonInv, NEW p \in Proc, Kill(p) \/ save_error(p)
    PROVE  DaemonInv'
<1>1. CASE Kill(p)
  <2>1. Ended(p, "failure") /\ UNCHANGED <<config, inits>>
    BY <1>1 DEF Kill
  <2>2. disturbed' <=> (disturbed \/ pc[p] = "save")
    BY <1>1, Zenon DEF Kill
  <2> QED BY <2>1, <2>2, EndedStep
<1>2. CASE save_error(p)
  <2>1. Ended(p, "failure") /\ UNCHANGED <<config, inits>> /\ pc[p] = "save"
    BY <1>2 DEF save_error, Fails
  <2>2. disturbed'
    BY <1>2 DEF save_error
  <2> QED BY <2>1, <2>2, EndedStep
<1> QED BY <1>1, <1>2

\* The service never saves.
ServiceNeverSaves == pc[Service] # "save"

LEMMA ServiceInductive ==
    ASSUME pc \in [Proc -> States], ServiceNeverSaves, [DaemonNext]_daemonVars
    PROVE  ServiceNeverSaves'
<1>1. ASSUME NEW p \in Proc, cmd_init(p) PROVE ServiceNeverSaves'
  BY <1>1 DEF cmd_init, ServiceNeverSaves
<1>2. ASSUME NEW p \in Proc, NEW s \in States \ {"save"}, pc' = [pc EXCEPT ![p] = s]
      PROVE  ServiceNeverSaves'
  BY <1>2 DEF ServiceNeverSaves
<1>3. ASSUME NEW p \in Proc, cmd_start(p) PROVE ServiceNeverSaves'
  BY <1>2, <1>3 DEF cmd_start, Ended, States
<1>4. ASSUME NEW p \in Proc,
             save(p) \/ save_error(p) \/ open_error(p) \/ accept_error(p) \/ Kill(p)
      PROVE  ServiceNeverSaves'
  BY <1>2, <1>4 DEF save, save_error, open_error, accept_error, Kill, Fails, Ended, States
<1>5. ASSUME NEW p \in Proc, Server(p) PROVE ServiceNeverSaves'
  <2>1. CASE open(p) \/ accept(p) \/ read(p)
    BY <2>1, <1>2 DEF open, accept, read, States
  <2>2. CASE bind(p) \/ write_all(p)
    BY <2>2, <1>2 DEF bind, write_all, Ended, States
  <2> QED BY <1>5, <2>1, <2>2 DEF Server
<1>6. CASE Stop
  BY <1>2, <1>6 DEF Stop, Ended, States
<1>7. CASE Start \/ Restart
  BY <1>3, <1>7 DEF Start, Restart
<1>8. ASSUME UNCHANGED pc PROVE ServiceNeverSaves'
  BY <1>8 DEF ServiceNeverSaves
<1>9. ASSUME NEW c \in Client, connect(c) \/ send(c) \/ hang_up(c) \/ leave(c)
      PROVE  ServiceNeverSaves'
  BY <1>8, <1>9 DEF connect, send, hang_up, leave, Act
<1>10. CASE UNCHANGED daemonVars
  BY <1>8, <1>10 DEF daemonVars
<1> QED BY <1>1, <1>3, <1>4, <1>5, <1>6, <1>7, <1>9, <1>10 DEF DaemonNext, Run

LEMMA DaemonInductive ==
    DaemonInv /\ ServiceNeverSaves /\ [DaemonNext]_daemonVars => DaemonInv'
<1> SUFFICES ASSUME DaemonInv, ServiceNeverSaves, [DaemonNext]_daemonVars PROVE DaemonInv'
  OBVIOUS
<1>0. pc \in [Proc -> States] /\ identity \in [Proc -> Nat] /\ inits \in Nat
  BY DEF DaemonInv, ProcsOK
<1>1. ASSUME NEW p \in Proc, cmd_start(p) PROVE DaemonInv'
  <2>1. UNCHANGED fileVars /\ pc[p] = "none"
    BY <1>1 DEF cmd_start
  <2>2. CASE Ended(p, "failure")
    BY <2>1, <2>2, EndedStep DEF fileVars
  <2>3. CASE pc' = [pc EXCEPT ![p] = "open"] /\ UNCHANGED identity
    BY <1>0, <2>1, <2>3, Elsewhere DEF States
  <2> QED BY <1>1, <2>2, <2>3 DEF cmd_start
<1>2. ASSUME NEW p \in Proc, Server(p) \/ open_error(p) \/ accept_error(p)
      PROVE  DaemonInv'
  <2>1. UNCHANGED fileVars /\ pc[p] # "save"
    BY <1>2 DEF Server, open, bind, accept, read, write_all, open_error, accept_error
  <2>2. ASSUME Ended(p, "failure") PROVE DaemonInv'
    BY <2>1, <2>2, EndedStep DEF fileVars
  <2>3. ASSUME NEW s \in States \ {"save"}, pc' = [pc EXCEPT ![p] = s],
               UNCHANGED identity
        PROVE  DaemonInv'
    BY <1>0, <2>1, <2>3, Elsewhere
  <2>4. CASE open(p)
    BY <2>3, <2>4 DEF open, States
  <2>5. CASE bind(p)
    BY <2>2, <2>3, <2>5 DEF bind, States
  <2>6. CASE accept(p)
    BY <2>3, <2>6 DEF accept, States
  <2>7. CASE read(p)
    BY <2>3, <2>7 DEF read, States
  <2>8. CASE write_all(p)
    BY <2>2, <2>3, <2>8 DEF write_all, States
  <2>9. CASE open_error(p) \/ accept_error(p)
    BY <2>2, <2>9 DEF open_error, accept_error, Fails
  <2> QED BY <1>2, <2>4, <2>5, <2>6, <2>7, <2>8, <2>9 DEF Server
<1>3. ASSUME NEW c \in Client, connect(c) \/ send(c) \/ hang_up(c) \/ leave(c)
      PROVE  DaemonInv'
  <2>1. UNCHANGED <<fileVars, pc, identity>>
    BY <1>3 DEF connect, send, hang_up, leave, Act
  <2> QED BY <1>0, <2>1, Elsewhere
<1>4. CASE UNCHANGED daemonVars
  <2>1. UNCHANGED <<fileVars, pc, identity>>
    BY <1>4 DEF daemonVars, fileVars
  <2> QED BY <1>0, <2>1, Elsewhere
<1>5. CASE Stop
  BY <1>5, EndedStep DEF Stop, ServiceNeverSaves, fileVars
<1>6. CASE Start \/ Restart
  BY <1>1, <1>6 DEF Start, Restart
<1> QED BY <1>1, <1>2, <1>3, <1>4, <1>5, <1>6, InitStep, SaveStep, KillStep
        DEF DaemonNext, Run

\* However many processes initialise, start and are killed, a node whose
\* config.json is unusable has a save under way, or one that was cut off, failed
\* or met another.
THEOREM ConfigSafe == DaemonSafety => []ConfigUsable
<1>1. DaemonInv => ConfigUsable
  BY DEF DaemonInv
<1>2. DaemonInv => pc \in [Proc -> States]
  BY DEF DaemonInv, ProcsOK
<1>3. DaemonInit => ServiceNeverSaves
  BY DEF DaemonInit, ServiceNeverSaves
<1>4. DaemonInv /\ ServiceNeverSaves /\ [DaemonNext]_daemonVars => ServiceNeverSaves'
  BY <1>2, ServiceInductive
<1> QED BY <1>1, <1>3, <1>4, DaemonInvInit, DaemonInductive, PTL DEF DaemonSafety

-----------------------------------------------------------------------------
(* Types *)

\* A text consists of the number of its identity.
LEMMA TextTyped ==
    ASSUME NEW n \in Nat, NEW id \in 0..n
    PROVE  Text(id) \in Seq(0..n) /\ Len(Text(id)) \in Nat
<1>1. (id % 2) + 1 \in Nat
  OBVIOUS
<1>2. Text(id) \in [1..((id % 2) + 1) -> 0..n]
  BY DEF Text
<1> QED BY <1>1, <1>2

\* A text written over a file leaves numbers of identities.
LEMMA OverwrittenTyped ==
    ASSUME NEW n \in Nat, NEW s \in Seq(0..n), NEW t \in Seq(0..n)
    PROVE  t \o SubSeq(s, Len(t) + 1, Len(s)) \in Seq(0..n)
<1>1. Len(s) \in Nat /\ Len(t) \in Nat
  BY LenProperties
<1>2. \A i \in (Len(t) + 1)..Len(s) : s[i] \in 0..n
  <2> SUFFICES ASSUME NEW i \in (Len(t) + 1)..Len(s) PROVE s[i] \in 0..n
    OBVIOUS
  <2>1. i \in 1..Len(s)
    BY <1>1
  <2> QED BY <2>1, ElementOfSeq
<1>3. SubSeq(s, Len(t) + 1, Len(s)) \in Seq(0..n)
  BY <1>1, <1>2, SubSeqProperties
<1> QED BY <1>3, ConcatProperties

ClientStates == {"away", "idle", "sent", "hung up", "left"}

\* What happens between the server and its clients.
ApiOK ==
    /\ stream \in Client
    /\ backlog \in Seq(Client)
    /\ client \in [Client -> ClientStates]

\* The files of the node, and its processes.
FilesOK ==
    /\ config \in Seq(0..inits)
    /\ inits \in 0..MaxInits
    /\ identity \in [Proc -> 0..inits]
    /\ disturbed \in BOOLEAN

\* The service manager, and what is counted.
OuterOK ==
    /\ wanted \in BOOLEAN /\ exit \in {"success", "failure"}
    /\ kills \in 0..MaxKills /\ faults \in 0..MaxFaults

LEMMA TypeParts ==
    DaemonTypeOK <=> FilesOK /\ ApiOK /\ pc \in [Proc -> States] /\ OuterOK
BY DEF DaemonTypeOK, FilesOK, ApiOK, ClientStates, OuterOK

\* A process that ends leaves nothing odd behind.
LEMMA EndedTyped ==
    ASSUME DaemonTypeOK, NEW p \in Proc, NEW how \in {"success", "failure"},
           Ended(p, how), UNCHANGED <<config, inits>>,
           wanted' \in BOOLEAN, kills' \in 0..MaxKills, faults' \in 0..MaxFaults,
           disturbed' \in BOOLEAN
    PROVE  DaemonTypeOK'
<1>0. FilesOK /\ ApiOK /\ pc \in [Proc -> States] /\ OuterOK
  BY TypeParts
<1>1. FilesOK'
  <2>1. inits \in Nat
    BY <1>0 DEF FilesOK
  <2>2. identity' \in [Proc -> 0..inits]
    BY <1>0, <2>1 DEF Ended, FilesOK
  <2> QED BY <1>0, <2>2 DEF FilesOK
<1>2. ApiOK'
  <2>1. CASE Listening(p)
    <3>1. stream' \in Client
      BY <2>1, <1>0 DEF Ended, ApiOK, apiVars
    <3>2. backlog' \in Seq(Client)
      BY <2>1 DEF Ended
    <3>3. client' \in [Client -> ClientStates]
      BY <2>1 DEF Ended, ClientStates
    <3> QED BY <3>1, <3>2, <3>3 DEF ApiOK
  <2>2. CASE ~Listening(p)
    BY <2>2, <1>0 DEF Ended, apiVars, ApiOK
  <2> QED BY <2>1, <2>2
<1>3. pc' \in [Proc -> States]
  BY <1>0 DEF Ended, States
<1>4. OuterOK'
  BY <1>0 DEF Ended, OuterOK
<1> QED BY <1>1, <1>2, <1>3, <1>4
        DEF DaemonTypeOK, FilesOK, ApiOK, ClientStates, OuterOK

\* Every process and every client only ever does what it can do.
THEOREM TypeCorrect == DaemonSafety => []DaemonTypeOK
<1>1. DaemonInit => DaemonTypeOK
  <2> SUFFICES ASSUME DaemonInit PROVE DaemonTypeOK
    OBVIOUS
  <2>1. stream \in Client
    BY DEF DaemonInit
  <2>2. config \in Seq(0..inits)
    BY DEF DaemonInit, NoFile
  <2>3. FilesOK
    <3>1. inits \in 0..MaxInits /\ identity \in [Proc -> 0..inits]
      BY DEF DaemonInit
    <3>2. disturbed \in BOOLEAN
      BY DEF DaemonInit
    <3> QED BY <2>2, <3>1, <3>2 DEF FilesOK
  <2>4. ApiOK
    BY <2>1 DEF DaemonInit, ApiOK, ClientStates
  <2>5. pc \in [Proc -> States] /\ OuterOK
    <3>1. pc \in [Proc -> States]
      BY DEF DaemonInit, States
    <3>2. wanted \in BOOLEAN /\ exit \in {"success", "failure"}
      BY DEF DaemonInit
    <3>3. kills \in 0..MaxKills /\ faults \in 0..MaxFaults
      BY DEF DaemonInit
    <3> QED BY <3>1, <3>2, <3>3 DEF OuterOK
  <2> QED BY <2>3, <2>4, <2>5, TypeParts
<1>2. DaemonTypeOK /\ [DaemonNext]_daemonVars => DaemonTypeOK'
  <2> SUFFICES ASSUME DaemonTypeOK, [DaemonNext]_daemonVars PROVE DaemonTypeOK'
    OBVIOUS
  <2>0. FilesOK /\ ApiOK /\ pc \in [Proc -> States] /\ OuterOK /\ inits \in Nat
    BY TypeParts DEF FilesOK
  <2>t. FilesOK' /\ ApiOK' /\ pc' \in [Proc -> States] /\ OuterOK' => DaemonTypeOK'
    BY DEF DaemonTypeOK, FilesOK, ApiOK, ClientStates, OuterOK
  <2>a. ASSUME UNCHANGED apiVars PROVE ApiOK'
    BY <2>a, <2>0 DEF ApiOK, apiVars
  <2>b. ASSUME UNCHANGED <<outerVars, exit>> PROVE OuterOK'
    BY <2>b, <2>0 DEF OuterOK, outerVars
  <2>c. ASSUME UNCHANGED <<fileVars, identity>> PROVE FilesOK'
    BY <2>c, <2>0 DEF FilesOK, fileVars
  <2>d. /\ wanted \in BOOLEAN /\ kills \in 0..MaxKills /\ faults \in 0..MaxFaults
        /\ disturbed \in BOOLEAN
    BY <2>0 DEF OuterOK, FilesOK
  <2>1. ASSUME NEW p \in Proc, cmd_init(p) PROVE DaemonTypeOK'
    <3>1. inits' \in 0..MaxInits /\ inits' = inits + 1
      BY <2>1, <2>0 DEF cmd_init, FilesOK
    <3>2. config' \in Seq(0..inits')
      BY <2>1 DEF cmd_init
    <3>3. identity' \in [Proc -> 0..inits']
      BY <2>1, <2>0, <3>1 DEF cmd_init, FilesOK
    <3>4. disturbed' \in BOOLEAN
      BY <2>1, <2>0 DEF cmd_init, FilesOK
    <3>5. pc' \in [Proc -> States]
      BY <2>1, <2>0 DEF cmd_init, States
    <3>6. ApiOK' /\ OuterOK'
      BY <2>1, <2>a, <2>b DEF cmd_init
    <3> QED BY <2>t, <3>1, <3>2, <3>3, <3>4, <3>5, <3>6 DEF FilesOK
  <2>2. ASSUME NEW p \in Proc, save(p) PROVE DaemonTypeOK'
    <3>1. identity[p] \in 0..inits
      BY <2>0 DEF FilesOK
    <3>2. Text(identity[p]) \in Seq(0..inits) /\ config \in Seq(0..inits)
      BY <3>1, <2>0, TextTyped DEF FilesOK
    <3>3. config' \in Seq(0..inits)
      BY <3>2, <2>2, <2>0, OverwrittenTyped DEF save
    <3>4. UNCHANGED <<inits, disturbed>> /\ identity' \in [Proc -> 0..inits]
      BY <2>2, <2>0 DEF save, FilesOK
    <3>5. pc' \in [Proc -> States]
      BY <2>2, <2>0 DEF save, States
    <3>6. ApiOK' /\ OuterOK'
      BY <2>2, <2>a, <2>b DEF save
    <3> QED BY <2>t, <2>0, <3>3, <3>4, <3>5, <3>6 DEF FilesOK
  <2>3. ASSUME NEW p \in Proc, cmd_start(p), wanted' \in BOOLEAN PROVE DaemonTypeOK'
    <3>1. UNCHANGED <<fileVars, kills, faults>>
      BY <2>3 DEF cmd_start
    <3>2. CASE Ended(p, "failure")
      BY <3>1, <3>2, <2>3, <2>d, EndedTyped DEF fileVars
    <3>3. CASE pc' = [pc EXCEPT ![p] = "open"] /\ UNCHANGED <<identity, exit, apiVars>>
      <4>1. pc' \in [Proc -> States]
        BY <3>3, <2>0 DEF States
      <4>2. FilesOK' /\ ApiOK'
        BY <3>1, <3>3, <2>a, <2>c
      <4>3. OuterOK'
        BY <3>1, <3>3, <2>3, <2>0 DEF OuterOK
      <4> QED BY <4>1, <4>2, <4>3, <2>t
    <3> QED BY <2>3, <3>2, <3>3 DEF cmd_start
  <2>4. ASSUME NEW p \in Proc, Fails(p), UNCHANGED <<config, inits>>,
               disturbed' \in BOOLEAN
        PROVE  DaemonTypeOK'
    <3>1. Ended(p, "failure") /\ UNCHANGED <<wanted, kills>>
      BY <2>4 DEF Fails
    <3>2. faults' \in 0..MaxFaults
      BY <2>4, <2>d DEF Fails
    <3> QED BY <3>1, <3>2, <2>4, <2>d, EndedTyped
  <2>5. ASSUME NEW p \in Proc, Server(p) PROVE DaemonTypeOK'
    <3>1. UNCHANGED <<fileVars, outerVars>>
      BY <2>5 DEF Server, open, bind, accept, read, write_all
    <3>2. ASSUME Ended(p, "failure") PROVE DaemonTypeOK'
      BY <3>1, <3>2, <2>d, EndedTyped DEF fileVars, outerVars
    <3>3. ASSUME NEW s \in States, pc' = [pc EXCEPT ![p] = s], ApiOK',
                 UNCHANGED <<identity, exit>>
          PROVE  DaemonTypeOK'
      <4>1. pc' \in [Proc -> States]
        BY <3>3, <2>0
      <4> QED BY <4>1, <3>1, <3>3, <2>b, <2>c, <2>t
    <3>4. CASE open(p)
      BY <3>3, <3>4, <2>a DEF open, States
    <3>5. CASE bind(p)
      BY <3>2, <3>3, <3>5, <2>a DEF bind, States
    <3>6. CASE accept(p)
      <4>1. Head(backlog) \in Client /\ Tail(backlog) \in Seq(Client)
        BY <3>6, <2>0, HeadTailProperties DEF accept, ApiOK
      <4>2. ApiOK'
        BY <4>1, <3>6, <2>0 DEF accept, ApiOK
      <4> QED BY <4>2, <3>3, <3>6 DEF accept, States
    <3>7. CASE read(p)
      <4>1. ApiOK'
        BY <3>7, <2>0 DEF read, ApiOK, ClientStates
      <4> QED BY <4>1, <3>3, <3>7 DEF read, States
    <3>8. CASE write_all(p)
      <4>1. CASE /\ pc' = [pc EXCEPT ![p] = "accept"]
                 /\ client' = [client EXCEPT ![stream] = "away"]
                 /\ UNCHANGED <<stream, backlog, identity, exit>>
        <5>1. ApiOK'
          BY <4>1, <2>0 DEF ApiOK, ClientStates
        <5> QED BY <5>1, <4>1, <3>3 DEF States
      <4> QED BY <3>2, <3>8, <4>1 DEF write_all
    <3> QED BY <2>5, <3>4, <3>5, <3>6, <3>7, <3>8 DEF Server
  <2>6. ASSUME NEW p \in Proc, Kill(p) PROVE DaemonTypeOK'
    <3>1. kills' \in 0..MaxKills /\ disturbed' \in BOOLEAN
      BY <2>6, <2>d DEF Kill
    <3> QED BY <3>1, <2>6, <2>d, EndedTyped DEF Kill
  <2>7. ASSUME NEW c \in Client, connect(c) \/ send(c) \/ hang_up(c) \/ leave(c)
        PROVE  DaemonTypeOK'
    <3>1. UNCHANGED <<fileVars, identity, pc, stream, outerVars, exit>>
      BY <2>7 DEF connect, send, hang_up, leave, Act
    <3>2. backlog' \in Seq(Client)
      <4>1. backlog \in Seq(Client)
        BY <2>0 DEF ApiOK
      <4>2. CASE connect(c)
        BY <4>1, <4>2, AppendProperties DEF connect
      <4>3. CASE send(c) \/ hang_up(c) \/ leave(c)
        BY <4>1, <4>3 DEF send, hang_up, leave, Act
      <4> QED BY <2>7, <4>2, <4>3
    <3>3. client' \in [Client -> ClientStates]
      BY <2>7, <2>0 DEF connect, send, hang_up, leave, Act, ApiOK, ClientStates
    <3>4. ApiOK'
      BY <3>1, <3>2, <3>3, <2>0 DEF ApiOK
    <3> QED BY <3>1, <3>4, <2>0, <2>b, <2>c, <2>t
  <2>8. CASE UNCHANGED daemonVars
    BY <2>8 DEF daemonVars, DaemonTypeOK
  <2>9. CASE Stop
    <3>1. kills' \in 0..MaxKills
      BY <2>9, <2>d DEF Stop
    <3>2. wanted' \in BOOLEAN
      BY <2>9 DEF Stop
    <3> QED BY <3>1, <3>2, <2>9, <2>d, EndedTyped DEF Stop, fileVars
  <2>10. CASE Start \/ Restart
    BY <2>10, <2>3, <2>d DEF Start, Restart
  <2>11. ASSUME NEW p \in Proc, save_error(p) \/ open_error(p) \/ accept_error(p)
         PROVE  DaemonTypeOK'
    BY <2>11, <2>4, <2>d DEF save_error, open_error, accept_error, fileVars
  <2>12. ASSUME NEW p \in Proc, Run(p) PROVE DaemonTypeOK'
    BY <2>1, <2>2, <2>3, <2>5, <2>6, <2>11, <2>12, <2>d DEF Run
  <2> QED BY <2>7, <2>8, <2>9, <2>10, <2>12 DEF DaemonNext
<1> QED BY <1>1, <1>2, PTL DEF DaemonSafety

\* No client that hangs up, sends nothing or waits for its answer ends a server:
\* only a signal does, a failing accept, or the answer to a client that left.
THEOREM ServerEndsOnlyByLeaver == DaemonSafety => EndsOnlyByLeaver
<1> DEFINE Ending(p) == /\ Listening(p) /\ ~Listening(p)'
           Cause(p) == \/ kills' # kills
                       \/ pc[p] = "accept" /\ faults' # faults
                       \/ pc[p] = "write" /\ client[stream] = "left"
<1>1. ASSUME DaemonTypeOK, [DaemonNext]_daemonVars, NEW p \in Proc, Ending(p)
      PROVE  Cause(p)
  <2>0. pc \in [Proc -> States] /\ kills \in Nat /\ faults \in Nat
    <3>1. pc \in [Proc -> States] /\ kills \in 0..MaxKills /\ faults \in 0..MaxFaults
      BY <1>1, TypeParts DEF OuterOK
    <3> QED BY <3>1
  \* A step of another process leaves this one as it is.
  <2>1. ASSUME NEW q \in Proc, NEW s, pc' = [pc EXCEPT ![q] = s],
               q = p => s \in {"accept", "read", "write"}
        PROVE  FALSE
    BY <1>1, <2>0, <2>1 DEF Listening
  <2>2. ASSUME NEW q \in Proc, pc[q] \in {"none", "save", "open", "bind"}, NEW s,
               pc' = [pc EXCEPT ![q] = s]
        PROVE  FALSE
    BY <1>1, <2>0, <2>2 DEF Listening
  <2>3. ASSUME NEW q \in Proc,
               \/ cmd_init(q) \/ save(q) \/ save_error(q)
               \/ cmd_start(q) \/ open(q) \/ open_error(q) \/ bind(q)
        PROVE  FALSE
    BY <2>2, <2>3
       DEF cmd_init, save, save_error, cmd_start, open, open_error, bind, Fails, Ended
  <2>4. ASSUME NEW q \in Proc, accept(q) \/ read(q) PROVE FALSE
    BY <2>1, <2>4 DEF accept, read
  <2>5. ASSUME NEW q \in Proc, write_all(q) PROVE Cause(p)
    <3>1. CASE pc' = [pc EXCEPT ![q] = "accept"]
      BY <2>1, <3>1
    <3>2. CASE client[stream] = "left" /\ Ended(q, "failure")
      <4>1. q = p
        BY <1>1, <2>0, <3>2 DEF Ended, Listening
      <4> QED BY <4>1, <3>2, <2>5 DEF write_all
    <3> QED BY <2>5, <3>1, <3>2 DEF write_all
  <2>6. ASSUME NEW q \in Proc, Kill(q) PROVE Cause(p)
    BY <2>0, <2>6 DEF Kill
  <2>7. CASE Stop
    BY <2>0, <2>7 DEF Stop
  <2>8. ASSUME NEW q \in Proc, accept_error(q) PROVE Cause(p)
    <3>1. /\ pc[q] = "accept" /\ pc' = [pc EXCEPT ![q] = "none"]
          /\ faults' = faults + 1
      BY <2>8 DEF accept_error, Fails, Ended
    <3>2. q = p
      BY <1>1, <2>0, <3>1 DEF Listening
    <3> QED BY <2>0, <3>1, <3>2
  <2>9. ASSUME UNCHANGED pc PROVE FALSE
    BY <1>1, <2>9 DEF Listening
  <2>10. ASSUME NEW c \in Client, connect(c) \/ send(c) \/ hang_up(c) \/ leave(c)
         PROVE  FALSE
    BY <2>9, <2>10 DEF connect, send, hang_up, leave, Act
  <2>11. CASE UNCHANGED daemonVars
    BY <2>9, <2>11 DEF daemonVars
  <2>12. CASE Start \/ Restart
    BY <2>3, <2>12 DEF Start, Restart
  <2>13. ASSUME NEW q \in Proc, Run(q) PROVE Cause(p)
    BY <2>3, <2>4, <2>5, <2>6, <2>8, <2>13 DEF Run, Server
  <2> QED BY <1>1, <2>7, <2>10, <2>11, <2>12, <2>13 DEF DaemonNext
<1>2. DaemonTypeOK /\ [DaemonNext]_daemonVars =>
        [\A p \in Proc : Listening(p) /\ ~Listening(p)' =>
            \/ kills' # kills
            \/ pc[p] = "accept" /\ faults' # faults
            \/ pc[p] = "write" /\ client[stream] = "left"]_daemonVars
  BY <1>1
<1> QED BY TypeCorrect, <1>2, PTL DEF DaemonSafety, EndsOnlyByLeaver
=============================================================================
